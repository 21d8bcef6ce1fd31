# Khatib: a verification project in TLA+

Khatib is a Persian public-speaking coach: a FastAPI backend (`src/app`), a
PostgreSQL database, a polling worker (`src/worker.py`), an AI provider for
transcription, analysis and chat, and a payment gateway (ZarinPal). This
directory models the parts of the backend whose correctness depends on what
several requests, workers and outside services do to each other. TLC checks the
models on small instances; TLAPS proves the central safety properties for
instances of any size.

## 1. Inventory

All durable state is in PostgreSQL tables (`src/app/core/models.py`). A request
has one database session (`get_db`, `src/app/core/db.py`), a worker iteration
has one (`db_session`). Sessions do not share memory; they interact through
committed rows, row locks and constraints.

| Component (code) | State | Operations | Interacts with | Hard behaviour | What makes it correct |
|---|---|---|---|---|---|
| Billing (`services/billing.py`, `routers/billing.py`, `services/zarinpal.py`) | `transactions`, `subscriptions`, `invoices`, `users.plan`, `users.plan_expires_at` | checkout, gateway callback, demo-pay, expiry sweep | gateway (request, redirect, verify), admin (`set_user_plan`) | two callbacks of one payment, answers of the gateway that get lost, a crash between settlement and commit, renewal against the sweep | one activation per payment; paid if and only if activated; terminal statuses are final; no running subscription is cut short or retired without a longer one |
| Speech service (`services/speech_service.py`, `routers/speech.py`) | `speeches`, `audio_assets`, `speech_analyses`, `processing_jobs` | submit text, upload audio, process inline, delete | usage quota, storage, AI provider, worker, account deletion | the request and a worker process one speech at once; deletion meanwhile; a failed flush that breaks the session | a completed speech has its analysis; files and rows go together |
| Worker (`worker.py`) | `processing_jobs` | claim, process, report, fail, poll | speech service | two workers, a crash after the claim, failed jobs | one worker per job, every queued job is taken up, a failed one is tried again |
| Storage (`services/storage.py`) | files | save, delete, local path | speech service | local files against S3 objects, errors swallowed | covered with the speech service |
| Usage quota (`services/usage.py`, `core/plans.py`) | `usage_counters` | `try_consume_speech` | speech service, plan changes, calendar | concurrent consumption, month boundary | exact counter, within the limit, denials explained |
| Chat (`services/chat_service.py`, `routers/chat.py`) | `conversations`, `messages` | create, send, delete | AI orchestration (shares its session), learning engine | deletion during the AI call, failed log commit | a link leads to a live conversation |
| Learning engine (`services/learning_engine.py`, `routers/learning.py`) | `user_scenario_progress`, curriculum | start, complete, list | chat | two starts at once, restart after deletion, completion racing both | completed means practised; what is open stays open |
| AI orchestration (`services/ai.py`, `services/ai_client.py`, prompts, pricing) | `ai_request_logs` | call with retry and fallback, parse, log | every caller's session | which provider is asked when and how often; `_log_request` commits or rolls back its caller's work | a call gives up last, is logged with what really answered, and does to its caller only what the caller expects |
| Auth sessions (`routers/auth.py`) | `users` (lockout), `refresh_tokens` | register, login, refresh, logout | rate limiter, privacy | two refreshes of a token, concurrent failed logins | a token is exchanged only by requests that read it before the first exchange; lost increments cannot put the lock off for ever |
| Rate limiter (`core/security.py`) | a sorted set in Redis, a list per process | `allow` | login and registration | Redis failing before or after it has executed a call; threads sharing a list | no more than the limit passes in a window; a refusal is earned |
| Privacy (`services/privacy_service.py`) | deletes or anonymises the rows of a user | export, delete account | every table | a callback, a worker, a login, a refresh or a `/start` on its way during the deletion | nobody begins anything for a deleted account |
| Admin (`routers/admin.py`, `services/admin_service.py`) | `users`, `audit_logs` | set plan, set active, reports | billing, quota | a plan set under running requests | covered where the written columns are |
| Eitaa webhook (`routers/eitaa.py`) | `eitaa_account_links` | link an account | privacy | a `/start` under way while the account is deleted | a deleted account is not linked again |
| Progress engine (`services/progress_engine.py`) | none (reads) | streak, summary, trend, weakest dimension | speeches | commits and midnight between its queries | the streak is the run of days it claims to be, also in a summary that is overtaken |
| Configuration, schemas, HTTP shell, migrations, scripts | settings | - | - | - | - |

`PROJECT.json` lists the components with their status and, under `hazards`,
the places in the code that are hard to test, each with the properties that
would catch it.

## 2. Modules

| Module | Models | Used by |
|---|---|---|
| `PaymentLedger` | abstract specification: what billing promises of a transaction | `Billing` (refinement) |
| `Billing` | checkout, callback, demo-pay, activation, sweep, plan grants, account deletion | `BillingProofs`, `MCBilling` |
| `BillingProofs` | theorems about `Billing` | |
| `SpeechPipeline` | speech service, worker and storage together, with account deletion | `SpeechProofs`, `MCSpeech` |
| `SpeechProofs` | theorems about `SpeechPipeline` | |
| `Usage` | `try_consume_speech` | `UsageProofs`, `MCUsage` |
| `UsageProofs` | theorems about `Usage` | |
| `Coaching` | chat and learning engine together | `CoachingProofs`, `MCCoaching` |
| `CoachingProofs` | theorems about `Coaching` | |
| `AuthSessions` | login, refresh, logout, account deletion, `set_user_active`, Eitaa links | `SessionsProofs`, `MCSessions` |
| `SessionsProofs` | theorems about `AuthSessions` | |
| `AIContract` | abstract specification: what a call of the AI service may do to its caller | `AICalls` (refinement) |
| `AICalls` | one call: retries, fallback, validation, log | `AICallsProofs` |
| `AICallsProofs` | theorems about `AICalls` | |
| `RateLimiter` | the Redis window and the lists in memory, for one key | `RateProofs`, `MCRate` |
| `RateProofs` | theorems about `RateLimiter` | |
| `Progress` | streak, summary and trend over the speeches of one user | `ProgressProofs`, `MCProgress` |
| `ProgressProofs` | theorems about `Progress` | |
| `MC*` | small instances for TLC | the `.cfg` files |

Conventions. A process of a model is a database session: an HTTP request or a
worker iteration, with a `pc` for where it stands and fields for what it has
read. A session is split into steps at every commit, at every call of an outside
service, and wherever another session can commit between its read and the
write based on that read. What has been flushed but not committed lives in the
session's record. The database is PostgreSQL as deployed (`docker-compose.yml`):
READ COMMITTED, foreign keys and unique constraints enforced. The SQLite mode
for development is not modelled. Three facts of the ORM matter and are modelled
by what they do: an object already loaded in a session is not refreshed by a
later query (`View` in `Billing`), an UPDATE carries only attributes that differ
from what was loaded (`NetWrite` in `Billing`, `run[e].seen` in `SpeechPipeline`,
the conditional writes of `Coaching` and `AuthSessions`), and
after a failed flush a session refuses everything until it is rolled back (pc
`broken` in `SpeechPipeline`).
A definition headed "Mutation of X" is a plausible mistake in X; no
specification uses it, and `PROJECT.json` names the property it breaks.

### Billing

| Variable | Code |
|---|---|
| `txn` | `transactions`: status, user, plan, created_at. `created` is the flushed row of a checkout; `callback_received` and `verifying` are set but never committed, so they do not appear |
| `gateway` | the provider's view of the authority: unknown, open, paid by the user, settled |
| `req` | sessions of `/callback` and `/demo-pay`: waiting for `FOR UPDATE`, holding the lock, activating |
| `sub`, `invoices` | `subscriptions` and `invoices`, one row each per activating request |
| `user` | `users.plan`, `users.plan_expires_at` |
| `sweep` | sessions of `expire_due_subscriptions` |
| `granted` | the audit rows of `admin_set_user_plan` |

`CheckoutBegin` is `create_checkout` up to its flush, with the search for an
open transaction; `CheckoutDemo`, `CheckoutIssued`, `CheckoutRefused` and
`CheckoutLost` are the answers of the gateway and a crash. `Arrive` and
`LockRow` are the routes and the `SELECT ... FOR UPDATE`; `Cancel`,
`VerifyFail`, `VerifyOk` + `Commit` are the three ways through
`process_callback` (`VerifyOk` reads, `Commit` commits), `Abort` is a crash or an
escaping exception, after which the provider may have settled the payment.
`SweepRead` and `SweepCommit` are the expiry sweep, which nothing in the
repository schedules: it may run at any time. Amounts, invoice numbers and IP
addresses are left out.
`EraseRead` and `EraseCommit` are what `delete_user_account` does to the plan: the
account loaded by `get_current_user` is compared with its new values, so a plan
read as free is not written at all, and one that an activation has written
meanwhile survives. The UPDATE changes the unique email, so it waits for a
checkout that has inserted a row for the user (`Inserting`). `Leavers` are the
users who do that; paid rows stay, as in the code.

### SpeechPipeline

`speech` holds the row of `speeches` with the fact whether `speech_analyses`
has one for it, `job` the row of `processing_jobs`, `file` the files in storage,
`run` where each request and worker stands and the status its session has loaded
or written (`seen`: a status that is set again is not sent again), `deleting` the delete requests
between storage and database. Requests and workers execute the same `Process`
actions: `Load` (the refresh after the upload, the worker's get), then
`_process_audio_speech` in `Begin` (the commit of "processing"), `Analyse` (from
there to the analysis, or to the commit of a failure) and `Store` (the commit of
analysis and status). `TextSubmit`, `TextRefused` and the same `Store` are
`create_text_speech`. `Claim`, `Report`, `Fail`, `GiveUp` are `process_one_job` and the
loop around it. The steps end where others can see them, at the commits: finding
the file and waiting for the provider touch no table and belong to the `Analyse`
that ends them (`Located`, `Provided`). What the provider may do is a constant for
each speech and kind of executor. A crash ends a request, or brings a worker back
idle; MaxCrashes bounds them.
`EraseAccount` is the one DELETE of `delete_user_account` over the owner's speeches:
rows and jobs go, files stay.

### Usage

`Start`, `EnsureRow`, `Grant`/`Deny` are the three transactions of
`try_consume_speech`; `NextMonth` and `PlanChanges` come between them.

### Coaching

One user's `conversations` (with counts of stored messages and replies) and
`user_scenario_progress`. `StartRead`/`StartCommit`/`StartDuplicate` are
`start_scenario`, `CompleteRead`/`CompleteCount`/`CompleteCommit` are
`complete_scenario`, `Post`/`Logged`/`LogLost`/`Apologise`/`Answer` are
`send_message` around its AI call. `Unlocked` and `Open` are what
`get_levels_with_progress` and `get_scenarios_for_level` compute.

### AuthSessions

One account (`user`: active, deleted, `failed_login_count`, `locked_until`), its
`refresh_tokens` (`token`, with the token it was given in exchange for as `parent`),
the `eitaa_account_links` row of one Eitaa account (`link`: absent, this user's or
another's) and the requests at work (`req`). `LoginRead` with `LoginFail` or
`LoginPass` is `login` around the slow password check; `RefreshRead` (the token),
`RefreshUser` (the account), `RotateRevoke` and `RotateCommit`, or for a revoked token
`RefreshRead`, `ReuseRead` and `ReuseCommit`, are `refresh`; `EraseRead`,
`EraseSelect`, `EraseRows`, `EraseLinks`, `EraseCommit` are `delete_my_account`,
whose DELETE may wait for a row (`Held`) that a rotation has changed and then
misses the token the rotation has inserted. `LinkRead` and `LinkCommit` are a
`/start` that names this user, `LinkOther` one that names another; a `/start` that
has found the row as the user's own does not send `user_id`, and the unique
`eitaa_user_id` refuses the second of two inserts. `Die` is a crash, an error or
the victim of a deadlock at any step.
`locked_until` is absent, ahead or past, and `failed_login_count` stops at
`MaxFailed`, beyond which the code compares no further. `tries` is a history
variable: failed logins committed since the account was last locked or entered.

### AIContract and AICalls

`AIContract` is what `SpeechPipeline` and `Coaching` assume of a call: it answers,
refuses, lets an unexpected error escape (not `analyze_speech`, which catches
everything) or dies; with an answer or a refusal the commit of the log row takes
the caller's flushed work along, or its failure rolls that work back (`work`).
`AICalls` is the code: `task` is the function called, `fallback` and `apiKey` the
settings, `provider` and `attempt` the loop of `_call_with_retry`, `row` the
arguments of `_log_request`, `replies` the answers so far (history). Each of
`Complete`, `Invalid`, `Unexpected`, `Retry`, `Exhausted`, `Rejected` is one request
with its answer, `NoKey` the refusal of `chat_completion` to ask without a key;
`LogCommit` and `LogFails` are the end of `_log_request` and the return. The answers
are the classes `chat_completion` tells apart.

### RateLimiter

`zset` and `ttl` are the sorted set of the key in Redis, `memory` the list each
process keeps, `req` the calls of `allow`. `Ask` reads the clock and chooses the
window (`connected`: the ping in `__init__` succeeded); `Execute` is the pipeline,
one step of the server, at any time after the clock was read; `Fail` is the
fallback, with the pipeline executed or not. `Visit`, `Assign`, `Check`, `Add` are the
accesses of `_allow_memory` to the list between which another thread may run
(the routes that ask are plain functions, which FastAPI runs in a thread pool).
Two requests with the very same time stamp, which would be one member of the
sorted set, are left out: it is a float.

### Progress

`speech` is what `SpeechPipeline` leaves of each speech: `completed_at` (its UTC
date) is read from the clock before the commit that shows it (`Finish`,
`FinishCommit`), a completed speech may be deleted (`Leave`) or set failed by the
slower executor (`Fail`). `Count`, `ReadDates`, `Answer` are the two queries and the
clock of `compute_summary`, whose session `summary` holds, with what was true
when it read as history (`day`, `practice`; `gained`, the speeches committed
between the queries, and `most`, all it may count); `Streak` over the sorted dates (`Descending`) with the
place where its loop breaks (`Run`), and `Rows`, `Recent`, `Previous` are the
algorithms, checked in every reachable state against a definition that neither
sorts nor loops. The rows of one date come in an order that the query does not
fix: `Rows` is any sequence sorted by date, and the theorems hold for all of them.

## 3. What the runs show

| Run | Instance | Shows |
|---|---|---|
| `billing_callbacks` | 1 user, 2 plans, 2 checkouts, 2 callbacks, 1 sweep, 1 grant, time 0..2 | `ActivatedOnce`, `PaidIffActivated`, `VerifiedBeforePaid`, `TerminalIsFinal`, `CoverageNeverShrinks`, refinement of `PaymentLedger` |
| `billing_demo` | 2 users (one deletes the account), 1 plan, 2 checkouts, 2 callbacks, 1 demo-pay, fair | with the demo provider, the stale read of demo-pay and a deletion, plans are still explained by purchases, and every waiting request is answered |
| `billing_demo_pay_race` | 1 checkout, 2 demo-pays | **violation**: the second demo-pay activates again |
| `speech_work` | 2 speeches, 2 workers, both backends, 1 crash, deletion of a speech and of the account; every answer of the provider for one speech, an outage that has ended when a worker comes for the other; fair | `OneWorkerPerJob`, `CompletedHasAnalysis`, `JobCompletedMeansAnalysed`, `PendingIsNotForgotten`, `FilesMatchRows`, `QueuedIsClaimed`, `WorkerRecovers` |
| `speech_retry` | 1 upload, 1 worker, 3 attempts, the provider down, no crash, fair | **violation**: a job that has failed once is `failed_retryable` for ever and no second attempt is made |
| `speech_stuck` | 1 upload, 1 worker, no failure at all, fair | **violation**: the worker runs the job of a speech that is already analysed and leaves it processing for ever |
| `usage_quota` | 1 user, 3 requests, 3 plans (one unlimited), 2 months | `CountIsExact`, `WithinTheLimit`, `DenialsAreExplained` |
| `coaching_curriculum` | 2 scenarios and the level behind them, 3 conversations, 2 requests, failing log | `CompletedMeansPractised`, `LinkIsLive`, `StartedOnce`, `FinishedUnlessDeleted`, `ClosesOnlyAfterDeletion` |
| `auth_sessions` | 3 tokens, 2 requests at a time, 3 failures lock, one Eitaa account | `ExchangedOncePerRequest`, `LockedInTheEnd`, `LockOutlivesOlderLogins`, `DeletedStaysClosed` |
| `ai_calls` | 3 tasks, with and without key and fallback, 2 retries, every answer, fair | `RetryDiscipline`, `GivesUpOnlyWhenAllFailed`, `LogNamesTheAnswer`, refinement of `AIContract`, `AlwaysReturns` |
| `rate_limiter` | 4 requests, 2 processes, 2 calls at a time, limit 2 in a window of 2 ticks, time 0..2 | `RedisWindow`, `MemoryWindow`, `RefusalsAreEarned` |
| `progress` | 4 speeches, 4 days, trends of 1 against 1 and 2 against 2 | `StreakIsTheRun`, `StreakBreaksByAMissedDay`, `SummaryIsConsistent`, `TrendComparesNeighbours` |

A violation run is a disagreement between the code and a sentence of the
repository; `PROJECT.json` quotes the sentence under `findings`.

More gaps show in the models and have no run of their own; the properties are
stated so that they say what holds next to them.

- A transaction whose user never returns stays `redirected` (there is no fairness
  on users).
- An upload whose inline processing succeeded still has its job in the queue,
  which is what makes `speech_stuck` possible. As no `failed_retryable` job is
  taken again (`speech_retry`), `dead_letter` is only reached where `max_attempts`
  is 1. A worker that dies after its claim leaves the job `processing`, and nobody
  takes it back either: `PendingIsNotForgotten` speaks of runs without a crash.
- Two activations of one user that overlap both start from the same day
  (`VerifyOk` reads the active rows before the other's `Commit`), so the days of one
  are lost, and a sweep may set the plan of a renewed account to free.
  `CoverageNeverShrinks` is about the rows that were running: none is cut short, or
  retired without a longer one.
- An upload to S3 is never settled (`Located`): `get_local_path` is None there, inline
  and in the worker. `WorkerRecovers` speaks of local storage only.
- A request that the month overtakes between the two computations of the period
  in `try_consume_speech` is denied with its quota untouched: `DenialsAreExplained`
  speaks of denials whose row exists.
- A commit of the AI log that fails rolls the user's chat message back (`LogLost`),
  and `send_message` saves the reply without it.
- An activation that commits between the read and the commit of a deletion
  leaves the deleted account with its plan (`EraseCommit` of `Billing`), a `/start`
  in the same place leaves it with its link, a rotation with a live token; none
  of them is of use while the account is inactive, which is what
  `DeletedStaysClosed` says (for a link: that no new one is begun). The files of its speeches stay in storage
  (`FilesMatchRows`).
- The list in memory is filtered, measured and appended to without a lock: threads
  that overlap can pass more than the limit, or be refused for an entry that is
  too old. `MemoryWindow` and the second half of `RefusalsAreEarned` speak of lists
  that calls worked on one by one. The windows of several processes add up, as the
  docstring of `RateLimiter` says.
- Failed calls are logged under the primary's name whoever failed (`Failure` of
  `AICalls`), so `LogNamesTheAnswer` is about successes.

### Bounds

- Two competing sessions per row are the smallest instance of every race here
  (lock holder and waiter, request and worker, reader and writer). The runs
  have two, or three, where a further one could profit from the first two's
  result. Two checkouts make two activations of one user compete; two users
  (`billing_demo`) tell "of this user" from "of any user".
- `MaxTime` counts subscription durations (`Duration` = 1): 0..2 contains "not
  expired", "on its last day", "lapsed", and a renewal on top of a running
  subscription. `Window` = 0 makes the duplicate-checkout window close with the
  next tick, so that both outcomes of the search occur.
- `SpeechLimit`, `SecondsLimit` 1, 2 and 3, 5 with uploads of 3 seconds: either
  limit can be the one that refuses, and three requests pass both.
- `LastMonth` = 1 has the one month boundary that matters.
- `MaxMessages` = `MinMessages` = 1 (the code: 3): enough or not enough.
  Both are parameters and nothing depends on the number.
- `MaxAttempts` is 1 for one speech and 3 (the default) for the other, so that
  both branches of a failure occur.
- `MaxCrashes` = 1: every session is hit at each of its steps, with all the
  others running on. Two crashes in one history are not covered.
- `speech_work` has one speech that meets all outcomes (but next to no text in a
  worker, which would be reported completed without an analysis) and one whose
  provider comes back: with every outcome everywhere `WorkerRecovers` would have
  nothing to say. The first is the one that may be deleted.
- Three tokens: a token and both its exchanges by two requests that have read
  it; or a token, its exchange and one issued by a login meanwhile.
- `MaxFailed` = 3 (the code: 5) with two requests: `LockedInTheEnd` bounds the
  failures by C(MaxFailed + R - 1, R), here 6 instead of 3, and the bound is
  reached; with three requests and `MaxFailed` = 4 it is 20, and reached too.
- `billing_demo` stops the clock (`MaxTime` = 0): a deletion does not look at the
  time, and `billing_callbacks` has it running.
- `MaxRetries` = 2 is the default of `ai_max_retries`; the theorems are for any.
- Four requests over a limit of two: two pass, a third is refused, a fourth finds
  the window that the third has or has not left. Time 0..2 with a window of 2 has
  entries that are inside, at the edge and out. Two threads are enough to
  interrupt each other.
- Four days and four speeches: a run of three, a gap, today missing, a day twice.
  Four rows are the least for which a trend of 2 against 2 exists; with trends of 1
  against 1 rows remain that are older than both ends. `RecentN` bounds the
  `recent_n` of a query.

Deadlock checking is off: requests, conversations, tokens, calls and time are
finite, so every behaviour ends in a state where all is served.

### Fairness

`Billing`: weak fairness of each `Handler(d)` and of the gateway's answer to a
checkout. The server's threads run on, `FOR UPDATE` ends when the holder
commits or its connection closes, and the HTTP client has a timeout, so a call
returns or raises. Users, time, sweeps and admins have none.
`SpeechPipeline`: weak fairness of each `RequestStep(s)` and `DeleteRow(s)`
(the same reason) and of each `WorkerStep(w)` (`main` polls in an endless
loop). Nobody has to upload or delete. A crash is never fair, and
`RequestStep` of a dead request is disabled.
`AICalls`: weak fairness of `Step`. A request ends at the timeout given to
`httpx.post`, the delay between two attempts is finite, and the commit of the log
returns or raises. `Die` has none.
`Usage`, `Coaching`, `AuthSessions`, `RateLimiter` and `Progress` have safety
properties only.

## 4. What is proved

The proofs hold for all values of the constants that meet the ASSUMEs of the
modules.

`BillingProofs`
- `BaseInvariant`: `BaseInv` is inductive whatever requests there are. It joins
  `TypeOK` with: a request that has arrived names a committed row (`Arrived`),
  one holder per row lock (`Mutex`), rows exist only for finished requests
  (`SubsAreDone`), an activation outlasts by `Duration` what it is about to
  retire (`SeenIsSuperseded`), a sweep retires only what has lapsed
  (`DueHasLapsed`), and `PlanIsExplained`. The two facts about sessions are the
  strengthening: they say what a session that has read may still rely on when it
  commits. `TypeCorrect` and `PlansExplained` follow.
- `CoverageKeeps`: `CoverageNeverShrinks`, from `BaseInv`.
- `PayInvariant`: under `DemoPays = {}` (nobody calls `/demo-pay`; with it the
  statement is false, see `billing_demo_pay_race`), `PayInv` is inductive over
  `BaseInv`: the lock holder works on an open row (`HolderSeesOpen`), an
  activation is settled (`ActivatingIsSettled`), a subscription's transaction is
  paid (`SubsArePaid`). It yields `AtMostOneActivation`,
  `ActivationMatchesPayment`, `PaidWasSettled`, `TerminalStatusIsFinal`, and
  `CodeImplementsLedger`: every step of the code maps to a step of
  `PaymentLedger` or to a stutter.

`UsageProofs`
- `QuotaInvariant`: `QuotaInv` is inductive. It joins the three properties with
  `PeriodsAreReal` (a missing row after `EnsureRow` belongs to a month that has
  ended), without which a later insert could give room to a denied request.
  `UsageTypeCorrect`, `CounterIsExact` (by cardinality of the granted requests,
  from the library's finite-set theorems), `LimitIsKept` and
  `DenialIsExplained` follow.

`AICallsProofs`
- `CallInvariant`: `CallInv` is inductive for every `MaxRetries`. It joins `TypeOK` and
  `RetryDiscipline` with: a call that is still out counts its own provider's
  answers, all of them busy; a provider without a key has answered nothing; the
  row to be logged is true of the answers (`Tells`, `AllFailed`); the log is empty or
  that row; what the caller sees is what the row says. Without the counting
  neither the bound nor the retries in the log could be carried through a step.
  `RetriesAreBounded`, `GivesUpLast` and `LogIsTrue` follow.
- `CallsKeepTheContract`: `ImplementsContract`, by the mapping of `catchesAll` to the
  task and of the log to its status; the steps of the loop are stutters.

`SpeechProofs`
- `SpeechInvariant`: `SpeechInv` is inductive for any number of speeches, workers and
  crashes. It joins `TypeOK` and the five invariants of `speech_work` with what
  they rest on: a request works on its own speech (`RequestsStayAtHome`), a row, a job
  or a busy worker means that the upload was committed (`RowsComeWithTheRequest`), and
  its file was there before (`FilesComeFirst`); a worker is only at work on such a
  speech (`WorkersTakeJobs`); who reports success has an analysis behind it
  (`ReportsAreEarned`), without which `JobCompletedMeansAnalysed` is not kept by a
  report; and a session that has loaded `processing` finds a row that is no longer
  pending (`LoadedIsPast`), so that the UPDATE it does not send is not
  missed. `OneWorker`, `CompletedIsAnalysed`, `CompletedJobs`, `PendingIsHeld` and
  `FilesAndRows` follow.

`SessionsProofs`
- `SessionsInvariant`: `SessionsInv` joins `TypeOK` and `ExchangedOncePerRequest` with: the
  parent of a token is revoked or erased (`ParentsAreSpent`), a row not inserted has
  no parent, what a request exchanges was presented (`ExchangedExist`), and a login at
  work has not read a lock that lasts (`LoginsSawNoLock`). `ExchangedOnce` counts a
  token's children and the requests still exchanging it; a rotation moves one from
  the second set to the first.
- `LockOutlives` and `DeletedStays` are action properties from the same invariant.
- `LockedAtLast`: `LockedInTheEnd` for any `MaxFailed` and any number of requests. The
  strengthening is `FailuresClimb`. A request `Reads` the count it will add one to:
  what it has read, or what the account has if that is less. A failure moves its
  request up by one at least and may bring others down, but to no less than that; so the
  failures since the count began anew are at most the sum, over each count v
  below `MaxFailed`, of what the requests now at v or above can have gained by getting
  there (`Gain`, a difference of binomial coefficients). `Ladder` says so with the partial
  sums as a witness, and a failure replaces all of them above its own step
  (`FailureClimbs`); `Climb` and `TheBound` add the differences up. They need Pascal's rule
  for `choose` (`Pascal`), and that the recursive factorial exists (`FactorialIs`).

`CoachingProofs`
- `CoachingInvariant`: `CoachingInv` joins `TypeOK` and the four safety properties with: no
  conversation has more messages than fit, one that was never made has none
  (`FreshConversations`), a scenario without a row has no conversation, and a row
  without one has seen a deletion (`RowsAndConversations`), and what a request relies on of
  what it has read still holds, or the scenario has had a deletion since
  (`RequestsKnow`): the stale reads of
  `start_scenario` and `complete_scenario` are harmless because of that. `Grows` says
  how conversations and completions may change in one step, and `ClosesOnDeletionOnly`
  follows from it.

`RateProofs`
- `RateInvariant`: `RateInv` joins `TypeOK` and the three properties with: times lie in the
  past, the requests that have asked are finite, a call executes after it was made
  (`CallsAreInOrder`), the members of the sorted set are requests, Redis still holds
  each that passed within the window (`RedisRemembers`), and a list on which calls
  worked one by one holds the requests that passed in its process, in the order of
  their times, and each of the last window (`ListsInTurn`). `RedisKeepsTheLimit` counts:
  the last to pass in a window found all the others in the set. The library's
  finite-set theorems are used throughout.

`ProgressProofs`
- `RunIsTheStreak` is about the algorithm alone: for every set of dates up to a day,
  `Streak` is the n for which the n days up to today (or yesterday) are in the set and
  the one before is not. `Sorted` and `Sortable` say that the dates and the rows can be
  sorted (an element's rank is a cardinality, and ranks that differ take every value);
  `RunStopsAtAGap` is the induction over the loop.
- `ProgressInvariant`: `ProgressInv` joins `TypeOK` with `DatesArePast`, `RowsWereRead`
  (what is completed was counted or has been committed since) and `DatesWereRead` (a
  summary that has read the dates holds those of a day up to today, and their streak
  is at most what it may count). `SummaryIsHonest` follows with two facts about the
  streak: read on a later day it is the same up to a certain day and none from then on
  (`StreakOnALaterDay`), and it has no more days than there are rows
  (`StreakIsOfRows`, by cardinality). `StreakIsTheLongest`, `StreakBreaks` and
  `TrendIsOfNeighbours` follow from the invariant and from `RunIsTheStreak`.

The assumptions are those of the modules: bounds are positive numbers, sets that
the proofs count (`Requests`, `Speeches`) are finite, "none" is not a member of what it
stands next to, and the scenarios of a level are a sequence
(`CurriculumIsSequence`). None of them says anything of the code's behaviour, but
for `DemoPays = {}` in the theorems of `PayInvariant`, which those state themselves.

Induction. The induction theorems of the library take an operator as a parameter,
which the installed provers cannot instantiate. `LeastOf` of `ProgressProofs` and of
`SessionsProofs` gets around it for predicates that are sets: a set of naturals that
is not empty has a least element, by the library's well-foundedness of the order. A
function defined by recursion cannot be unfolded even so without a proof that it
exists. `Progress` therefore has none, and the factorial of the community module, which
`choose` uses, is the one for which `SessionsProofs` gives that proof: the factorials up to
n exist for every n (`FactorialsBegin`) and agree (`FactorialsAgree`), and together they
are a function that satisfies the definition.

Only model-checked: everything temporal that needs fairness (`CallbackAnswered`,
`QueuedIsClaimed`, `WorkerRecovers`, `AlwaysReturns` and the two violations of the
speech pipeline), because the proof system has no ENABLED and no
liveness rules. The type invariants and the inductive invariants were
checked with TLC before they were proved; the runs keep the properties that say
something of the code.

## 5. Not modelled

Password hashing, token encoding and HMACs (cryptography); validation of request
shapes; logging, metrics, headers and health probes; prompts and texts; prices;
settings, which are read once; migrations and scripts. Reads that change nothing
are not actions: the lists and exports of every router, `link_status`, the daily
recommendation, `get_weakest_dimension` and the averages of the progress engine,
which are arithmetic on scores. `register` makes the account of `AuthSessions`'s Init;
two registrations of one email are left to the unique column. That a failed
upload does not give its quota back is visible from `Usage`, which has no such
action, and no text of the repository asks for it. `delete_user_account` deletes
conversations as `DeleteConversation` of `Coaching` does, all at once.

## 6. Plan

Every safety and action property that a passing run checks is proved. What is left:

1. Lemmas that `UsageProofs`, `RateProofs` and `SessionsProofs` share on counting could be
   stated once.
2. Abstract specifications for the speech pipeline (an upload is analysed at most
   once, or given up) and for the sessions (a family of tokens with one live member
   per request), with the refinements proved as for `PaymentLedger`.
