------------------------------ MODULE Billing ------------------------------
(***************************************************************************)
(* The payment state machine: app/services/billing.py, the billing router  *)
(* that calls it, and the gateway client app/services/zarinpal.py.         *)
(*                                                                         *)
(* Every HTTP request is a process with its own database session.  It is   *)
(* split where the code waits (the row lock, the gateway) or where another *)
(* session can commit between a read and the write based on it.  A commit  *)
(* is one step; what a session has flushed but not committed is visible to *)
(* nobody else (PostgreSQL, READ COMMITTED) and stays in its record req[d].*)
(* The row lock of SELECT ... FOR UPDATE is held by the requests whose pc  *)
(* is "locked" or "activating".                                            *)
(*                                                                         *)
(* A Transaction row is named by the checkout that inserts it, and a       *)
(* Subscription row (with its Invoice) by the delivery that inserts it.    *)
(***************************************************************************)
EXTENDS Integers

CONSTANTS
  Users,       \* user accounts
  Free,        \* PlanEnum.free
  PaidPlans,   \* the plans with a positive price
  Checkouts,   \* POST /checkout requests that reach the INSERT
  Callbacks,   \* GET /callback requests
  DemoPays,    \* GET /demo-pay requests
  Sweeps,      \* calls of expire_due_subscriptions
  Grants,      \* the <<user, plan>> pairs admins set by hand
  Leavers,     \* the users who delete their account
  NoTxn,       \* the transaction of a request that has not arrived
  Demo,        \* settings.payment_provider = "demo"
  Duration,    \* SUBSCRIPTION_DURATION_DAYS
  Window,      \* DUPLICATE_CHECKOUT_WINDOW_MINUTES
  MaxTime      \* bound: the clock stops here

Deliveries == Callbacks \cup DemoPays
Plans == PaidPlans \cup {Free}
Time == Nat

ASSUME FreeIsFree == Free \notin PaidPlans
ASSUME NoTxnAssumption == NoTxn \notin Checkouts
ASSUME DisjointRequests == Callbacks \cap DemoPays = {}
ASSUME GrantsAreTyped == Grants \subseteq Users \X Plans
ASSUME LeaversAreUsers == Leavers \subseteq Users
ASSUME DemoIsBoolean == Demo \in BOOLEAN
ASSUME TimesAreNatural == /\ Duration \in Nat \ {0}
                          /\ Window \in Nat
                          /\ MaxTime \in Nat

VARIABLES
  now,       \* the clock
  txn,       \* the transactions table
  gateway,   \* what the payment provider knows of a transaction's authority
  req,       \* the session of each callback or demo-pay request
  sub,       \* the subscriptions table
  invoices,  \* the deliveries whose Invoice row is committed
  user,      \* users.plan and users.plan_expires_at
  sweep,     \* the session of each run of expire_due_subscriptions
  granted,   \* the admin_set_user_plan rows of audit_logs
  closing    \* the session of each delete_user_account

vars == <<now, txn, gateway, req, sub, invoices, user, sweep, granted, closing>>

\* "created" is the row flushed by a checkout that has not committed yet;
\* the statuses callback_received and verifying are never committed.
OpenStatuses == {"pending", "redirected"}
TerminalStatuses == {"paid", "failed", "cancelled"}
Statuses == {"absent", "created"} \cup OpenStatuses \cup TerminalStatuses

Answers == {"OK", "NOK"}    \* the Status the provider puts in the callback's URL

NoExpiry == 0    \* plan_expires_at IS NULL
Account == [plan : Plans, expires : Time]
Transaction == [status : Statuses, user : Users, plan : PaidPlans, created : Time]
Subscription == [status : {"none", "active", "expired"}, expires : Time]
Request == [pc : {"idle", "waiting", "locked", "activating", "done"},
            txn : Checkouts \cup {NoTxn}, answer : Answers, view : Statuses,
            seen : SUBSET Deliveries, user : Account, expires : Time]
Sweep == [pc : {"idle", "read", "done"}, due : SUBSET Deliveries, user : [Users -> Account]]
Closing == [pc : {"idle", "read", "done"}, user : Account]

TypeOK ==
  /\ now \in Time
  /\ txn \in [Checkouts -> Transaction]
  /\ gateway \in [Checkouts -> {"none", "open", "paid", "verified"}]
  /\ req \in [Deliveries -> Request]
  /\ sub \in [Deliveries -> Subscription]
  /\ invoices \in SUBSET Deliveries
  /\ user \in [Users -> Account]
  /\ sweep \in [Sweeps -> Sweep]
  /\ granted \in SUBSET (Users \X Plans)
  /\ closing \in [Leavers -> Closing]

NewUser == [plan |-> Free, expires |-> NoExpiry]

Init ==
  /\ now = 0
  /\ \E u \in Users, p \in PaidPlans :
       txn = [c \in Checkouts |-> [status |-> "absent", user |-> u, plan |-> p, created |-> 0]]
  /\ gateway = [c \in Checkouts |-> "none"]
  /\ req = [d \in Deliveries |-> [pc |-> "idle", txn |-> NoTxn, answer |-> "NOK", view |-> "absent",
                                  seen |-> {}, user |-> NewUser, expires |-> 0]]
  /\ sub = [d \in Deliveries |-> [status |-> "none", expires |-> 0]]
  /\ invoices = {}
  /\ user = [u \in Users |-> NewUser]
  /\ sweep = [s \in Sweeps |-> [pc |-> "idle", due |-> {}, user |-> [u \in Users |-> NewUser]]]
  /\ granted = {}
  /\ closing = [u \in Leavers |-> [pc |-> "idle", user |-> NewUser]]

-----------------------------------------------------------------------------
Committed(t) == txn[t].status \notin {"absent", "created"}
Owner(d) == txn[req[d].txn].user
PlanOf(d) == txn[req[d].txn].plan
OpenedBy(t) == {d \in Deliveries : sub[d].status # "none" /\ req[d].txn = t}
Active(u) == {d \in Deliveries : sub[d].status = "active" /\ Owner(d) = u}
Holds(d, t) == req[d].pc \in {"locked", "activating"} /\ req[d].txn = t
Locked(t) == \E d \in Deliveries : Holds(d, t)

\* An attribute is written only if it differs from what the session loaded.
NetWrite(loaded, new, current) == IF new = loaded THEN current ELSE new

\* Mutation of Finish: the session is not closed and keeps the row lock.
FinishForgotten(d) == UNCHANGED req

Finish(d) == req' = [req EXCEPT ![d].pc = "done"]

-----------------------------------------------------------------------------
Tick == /\ now < MaxTime
        /\ now' = now + 1
        /\ UNCHANGED <<txn, gateway, req, sub, invoices, user, sweep, granted, closing>>

\* create_checkout up to the flush.  A request that finds an open transaction
\* of the same user and plan inside the window returns it and writes nothing.
Existing(u, p) == {c \in Checkouts : /\ txn[c].status \in OpenStatuses
                                     /\ txn[c].user = u /\ txn[c].plan = p
                                     /\ txn[c].created >= now - Window}

CheckoutBegin(c, u, p) ==
  /\ txn[c].status = "absent"
  /\ Existing(u, p) = {}
  /\ txn' = [txn EXCEPT ![c] = [status |-> "created", user |-> u, plan |-> p, created |-> now]]
  /\ UNCHANGED <<now, gateway, req, sub, invoices, user, sweep, granted, closing>>

\* Mutation of CheckoutDemo: the demo branch already gives the plan away.
CheckoutDemoGrants(c) ==
  /\ Demo /\ txn[c].status = "created"
  /\ txn' = [txn EXCEPT ![c].status = "pending"]
  /\ user' = [user EXCEPT ![txn[c].user].plan = txn[c].plan]
  /\ UNCHANGED <<now, gateway, req, sub, invoices, sweep, granted, closing>>

CheckoutDemo(c) ==
  /\ Demo /\ txn[c].status = "created"
  /\ txn' = [txn EXCEPT ![c].status = "pending"]
  /\ UNCHANGED <<now, gateway, req, sub, invoices, user, sweep, granted, closing>>

CheckoutIssued(c) ==
  /\ ~Demo /\ txn[c].status = "created"
  /\ txn' = [txn EXCEPT ![c].status = "redirected"]
  /\ gateway' = [gateway EXCEPT ![c] = "open"]
  /\ UNCHANGED <<now, req, sub, invoices, user, sweep, granted, closing>>

\* A refused row has no authority, so no callback finds it; a callback that
\* did would return at the terminal check.
CheckoutRefused(c) ==
  /\ ~Demo /\ txn[c].status = "created"
  /\ txn' = [txn EXCEPT ![c].status = "failed"]
  /\ UNCHANGED <<now, gateway, req, sub, invoices, user, sweep, granted, closing>>

\* The process dies, or the gateway's body is not JSON: the insert is undone.
CheckoutLost(c) ==
  /\ txn[c].status = "created"
  /\ txn' = [txn EXCEPT ![c].status = "absent"]
  /\ UNCHANGED <<now, gateway, req, sub, invoices, user, sweep, granted, closing>>

\* The user pays on the provider's page.
UserPays(c) ==
  /\ gateway[c] = "open"
  /\ gateway' = [gateway EXCEPT ![c] = "paid"]
  /\ UNCHANGED <<now, txn, req, sub, invoices, user, sweep, granted, closing>>

-----------------------------------------------------------------------------
\* The request comes in.  demo_pay loads the row here, without a lock, and
\* its session keeps that object.  An unknown authority answers 404 and is
\* left out: it changes nothing.
Arrive(d, c, answer) ==
  /\ req[d].pc = "idle"
  /\ Committed(c)
  /\ d \in DemoPays => answer = "OK"
  /\ req' = [req EXCEPT ![d].pc = "waiting", ![d].txn = c, ![d].answer = answer,
                        ![d].view = IF d \in DemoPays THEN txn[c].status ELSE "absent"]
  /\ UNCHANGED <<now, txn, gateway, sub, invoices, user, sweep, granted, closing>>

\* Mutation of View: the locked row does not refresh the session's object.
StaleView(d) == req[d].view

\* SELECT ... FOR UPDATE.  The status the code tests next is the one of the
\* session's object: what the row holds now, unless demo_pay loaded it before.
View(d) == IF d \in DemoPays THEN req[d].view ELSE txn[req[d].txn].status

\* Mutation of LockRow: an early return for paid rows only.
LockRowPaidOnly(d) ==
  /\ req[d].pc = "waiting"
  /\ ~Locked(req[d].txn)
  /\ req' = [req EXCEPT ![d].view = View(d), ![d].pc = IF View(d) = "paid" THEN "done" ELSE "locked"]
  /\ UNCHANGED <<now, txn, gateway, sub, invoices, user, sweep, granted, closing>>

LockRow(d) ==
  /\ req[d].pc = "waiting"
  /\ ~Locked(req[d].txn)
  /\ req' = [req EXCEPT ![d].view = View(d),
                        ![d].pc = IF View(d) \in TerminalStatuses THEN "done" ELSE "locked"]
  /\ UNCHANGED <<now, txn, gateway, sub, invoices, user, sweep, granted, closing>>

\* Mutation of Cancel: the answer is looked at before the row is locked.
CancelUnlocked(d) ==
  /\ req[d].pc \in {"waiting", "locked"} /\ req[d].answer = "NOK"
  /\ txn' = [txn EXCEPT ![req[d].txn].status = "cancelled"]
  /\ Finish(d)
  /\ UNCHANGED <<now, gateway, sub, invoices, user, sweep, granted, closing>>

Cancel(d) ==
  /\ req[d].pc = "locked" /\ req[d].answer = "NOK"
  /\ txn' = [txn EXCEPT ![req[d].txn].status = "cancelled"]
  /\ Finish(d)
  /\ UNCHANGED <<now, gateway, sub, invoices, user, sweep, granted, closing>>

\* verify_payment raises: the provider refuses, or cannot be reached, or it
\* settled the payment and the answer was lost.
VerifyFail(d) ==
  /\ ~Demo /\ req[d].pc = "locked" /\ req[d].answer = "OK"
  /\ txn' = [txn EXCEPT ![req[d].txn].status = "failed"]
  /\ \/ UNCHANGED gateway
     \/ /\ gateway[req[d].txn] = "paid"
        /\ gateway' = [gateway EXCEPT ![req[d].txn] = "verified"]
  /\ Finish(d)
  /\ UNCHANGED <<now, sub, invoices, user, sweep, granted, closing>>

\* Mutations of VerifyOk: the provider's code is not looked at, and a renewal
\* starts now instead of at the end of the running period.
VerifyOkUnchecked(d) ==
  /\ req[d].pc = "locked" /\ req[d].answer = "OK"
  /\ req' = [req EXCEPT ![d].pc = "activating", ![d].seen = Active(Owner(d)),
                        ![d].user = user[Owner(d)], ![d].expires = now + Duration]
  /\ UNCHANGED <<now, txn, gateway, sub, invoices, user, sweep, granted, closing>>

VerifyOkFromNow(d) ==
  /\ VerifyOkUnchecked(d)
  /\ gateway[req[d].txn] \in {"paid", "verified"}

\* The provider answers 100 (settled now) or 101 (settled before), and
\* _activate_subscription reads the owner's active subscriptions and account.
VerifyOk(d) ==
  LET t == req[d].txn
      seen == Active(Owner(d))
  IN /\ req[d].pc = "locked" /\ req[d].answer = "OK"
     /\ IF Demo THEN UNCHANGED gateway
                ELSE /\ gateway[t] \in {"paid", "verified"}
                     /\ gateway' = [gateway EXCEPT ![t] = "verified"]
     /\ \E start \in {now} \cup {sub[x].expires : x \in seen} :
          /\ start >= now
          /\ \A x \in seen : start >= sub[x].expires
          /\ req' = [req EXCEPT ![d].pc = "activating", ![d].seen = seen,
                                ![d].user = user[Owner(d)],
                                ![d].expires = start + Duration]
     /\ UNCHANGED <<now, txn, sub, invoices, user, sweep, granted, closing>>

\* The commit of process_callback: the status, the new subscription, the ones
\* it supersedes, the invoice and the account.
Commit(d) ==
  LET t == req[d].txn
      loaded == req[d].user
  IN /\ req[d].pc = "activating"
     /\ txn' = [txn EXCEPT ![t].status = "paid"]
     /\ sub' = [x \in Deliveries |->
                  IF x = d THEN [status |-> "active", expires |-> req[d].expires]
                  ELSE IF x \in req[d].seen THEN [sub[x] EXCEPT !.status = "expired"]
                  ELSE sub[x]]
     /\ invoices' = invoices \cup {d}
     /\ user' = [user EXCEPT ![Owner(d)] =
                   [plan |-> NetWrite(loaded.plan, PlanOf(d), @.plan),
                    expires |-> NetWrite(loaded.expires, req[d].expires, @.expires)]]
     /\ Finish(d)
     /\ UNCHANGED <<now, gateway, sweep, granted, closing>>

\* Mutation of Abort: the status was committed before the activation.
AbortAfterPaid(d) ==
  /\ req[d].pc = "activating"
  /\ txn' = [txn EXCEPT ![req[d].txn].status = "paid"]
  /\ Finish(d)
  /\ UNCHANGED <<now, gateway, sub, invoices, user, sweep, granted, closing>>

\* The process dies or an exception escapes: everything is rolled back, but
\* the provider may have settled the payment.
Abort(d) ==
  /\ req[d].pc \in {"waiting", "locked", "activating"}
  /\ \/ UNCHANGED gateway
     \/ /\ req[d].pc = "locked" /\ req[d].answer = "OK" /\ gateway[req[d].txn] = "paid"
        /\ gateway' = [gateway EXCEPT ![req[d].txn] = "verified"]
  /\ Finish(d)
  /\ UNCHANGED <<now, txn, sub, invoices, user, sweep, granted, closing>>

-----------------------------------------------------------------------------
\* expire_due_subscriptions: the reads, then the commit.
SweepRead(s) ==
  LET due == {d \in Deliveries : sub[d].status = "active" /\ sub[d].expires < now}
  IN /\ sweep[s].pc = "idle"
     /\ sweep' = [sweep EXCEPT ![s] = [pc |-> IF due = {} THEN "done" ELSE "read",
                                       due |-> due, user |-> user]]
     /\ UNCHANGED <<now, txn, gateway, req, sub, invoices, user, granted, closing>>

Lapsed(s, u) == \E d \in sweep[s].due : Owner(d) = u /\ PlanOf(d) = sweep[s].user[u].plan

SweepCommit(s) ==
  /\ sweep[s].pc = "read"
  /\ sub' = [d \in Deliveries |-> IF d \in sweep[s].due
                                  THEN [sub[d] EXCEPT !.status = "expired"] ELSE sub[d]]
  /\ user' = [u \in Users |->
                IF Lapsed(s, u)
                THEN [plan |-> Free,
                      expires |-> NetWrite(sweep[s].user[u].expires, NoExpiry, user[u].expires)]
                ELSE user[u]]
  /\ sweep' = [sweep EXCEPT ![s].pc = "done"]
  /\ UNCHANGED <<now, txn, gateway, req, invoices, granted, closing>>

\* The admin router's set_user_plan: the plan and its audit row, no expiry.
AdminSetPlan(u, p) ==
  /\ user' = [user EXCEPT ![u].plan = p]
  /\ granted' = granted \cup {<<u, p>>}
  /\ UNCHANGED <<now, txn, gateway, req, sub, invoices, sweep, closing>>

-----------------------------------------------------------------------------
(* delete_user_account, as far as billing goes: the account goes back to   *)
(* free; the transactions and subscriptions stay.                          *)

\* get_current_user loads the account into the request's session.
EraseRead(u) ==
  /\ closing[u].pc = "idle"
  /\ closing' = [closing EXCEPT ![u] = [pc |-> "read", user |-> user[u]]]
  /\ UNCHANGED <<now, txn, gateway, req, sub, invoices, user, sweep, granted>>

\* The UPDATE of users changes the unique email, so it waits for every insert
\* of a row that references the user.
Inserting(u) == \E c \in Checkouts : txn[c].status = "created" /\ txn[c].user = u

EraseCommit(u) ==
  LET loaded == closing[u].user
  IN /\ closing[u].pc = "read" /\ ~Inserting(u)
     /\ user' = [user EXCEPT ![u] = [plan |-> NetWrite(loaded.plan, Free, @.plan),
                                     expires |-> NetWrite(loaded.expires, NoExpiry, @.expires)]]
     /\ closing' = [closing EXCEPT ![u].pc = "done"]
     /\ UNCHANGED <<now, txn, gateway, req, sub, invoices, sweep, granted>>

-----------------------------------------------------------------------------
CheckoutStep(c) == \/ \E u \in Users, p \in PaidPlans : CheckoutBegin(c, u, p)
                   \/ CheckoutDemo(c) \/ CheckoutIssued(c) \/ CheckoutRefused(c)
                   \/ CheckoutLost(c)

Handler(d) == LockRow(d) \/ Cancel(d) \/ VerifyFail(d) \/ VerifyOk(d) \/ Commit(d)

Next == \/ Tick
        \/ \E c \in Checkouts : CheckoutStep(c) \/ UserPays(c)
        \/ \E d \in Deliveries, c \in Checkouts, answer \in Answers : Arrive(d, c, answer)
        \/ \E d \in Deliveries : Handler(d) \/ Abort(d)
        \/ \E s \in Sweeps : SweepRead(s) \/ SweepCommit(s)
        \/ \E g \in Grants : AdminSetPlan(g[1], g[2])
        \/ \E u \in Leavers : EraseRead(u) \/ EraseCommit(u)

Spec == Init /\ [][Next]_vars

\* A request that is being served takes its next step, unless it crashes; a
\* checkout in progress gets an answer.  Users, clocks and admins owe nothing.
Fairness == /\ \A d \in Deliveries : WF_vars(Handler(d))
            /\ \A c \in Checkouts :
                 WF_vars(CheckoutDemo(c) \/ CheckoutIssued(c) \/ CheckoutRefused(c))

FairSpec == Spec /\ Fairness

-----------------------------------------------------------------------------
(* Properties *)

\* billing.py's critical invariant: a transaction opens at most one
\* subscription and one invoice, whichever requests race to deliver it.
ActivatedOnce ==
  \A d, e \in Deliveries :
    /\ sub[d].status # "none"
    /\ sub[e].status # "none"
    /\ req[d].txn = req[e].txn
    => d = e

\* Exactly once: the rows are there if and only if the transaction is paid,
\* although status, subscription and invoice are written by different
\* functions and a crash can come between them.
PaidIffActivated ==
  \A t \in Checkouts :
    /\ txn[t].status = "paid" <=> OpenedBy(t) # {}
    /\ OpenedBy(t) = {d \in invoices : req[d].txn = t}

\* No transaction is paid before the provider settled it.
VerifiedBeforePaid ==
  \A t \in Checkouts : txn[t].status = "paid" => Demo \/ gateway[t] = "verified"

\* A user is on a paid plan only because a transaction of theirs bought that
\* plan or an admin granted it, even though an activation writes the account
\* from a copy that may be stale.
PlanIsExplained ==
  \A u \in Users :
    user[u].plan # Free =>
      \/ <<u, user[u].plan>> \in granted
      \/ \E d \in Deliveries : /\ sub[d].status # "none"
                               /\ Owner(d) = u /\ PlanOf(d) = user[u].plan

TerminalStep ==
  \A t \in Checkouts : txn[t].status \in TerminalStatuses => txn'[t].status = txn[t].status

\* Transaction's docstring: a terminal status is never left (the callback's
\* early return must see every status another request has committed).
TerminalIsFinal == [][TerminalStep]_vars

Unexpired(d) == sub[d].status = "active" /\ sub[d].expires >= now
CoverageStep ==
  \A d \in Deliveries :
    Unexpired(d) /\ sub'[d].status # "active" =>
      \E e \in Deliveries : /\ sub[e].status = "none" /\ sub'[e].status = "active"
                            /\ Owner(e) = Owner(d)
                            /\ sub'[e].expires >= sub[d].expires + Duration

\* A subscription that still has time left is retired only by one of the same
\* user that runs at least Duration longer: no interleaving of two payments,
\* or of a payment and a sweep, makes a retired row lose the days it had.
CoverageNeverShrinks == [][CoverageStep]_vars

\* A callback waiting for the row lock is answered: no holder keeps it.
CallbackAnswered == \A d \in Deliveries : req[d].pc = "waiting" ~> req[d].pc = "done"

-----------------------------------------------------------------------------
(* The inductive invariants behind the safety properties.                  *)

\* Who is being served names a committed row, and only one request at a time
\* holds its lock.
Arrived ==
  \A d \in Deliveries :
    req[d].pc # "idle" => /\ req[d].txn \in Checkouts
                          /\ Committed(req[d].txn)
Mutex == \A d, e \in Deliveries, t \in Checkouts : Holds(d, t) /\ Holds(e, t) => d = e

\* A subscription row and its invoice are committed by the last step of their
\* request.
SubsAreDone ==
  /\ \A d \in Deliveries : sub[d].status # "none" => req[d].pc = "done"
  /\ invoices = {d \in Deliveries : sub[d].status # "none"}

\* What an activation is about to retire, its own row outlasts by Duration.
SeenIsSuperseded ==
  \A d \in Deliveries : req[d].pc = "activating" =>
    \A x \in req[d].seen : /\ sub[x].status # "none"
                           /\ Owner(x) = Owner(d)
                           /\ req[d].expires >= sub[x].expires + Duration
\* What a sweep is about to retire has run out.
DueHasLapsed ==
  \A s \in Sweeps : sweep[s].pc = "read" =>
    \A x \in sweep[s].due : sub[x].status # "none" /\ sub[x].expires < now

\* Inductive whatever requests there are.
BaseInv == /\ TypeOK /\ Arrived /\ Mutex /\ SubsAreDone
           /\ SeenIsSuperseded /\ DueHasLapsed /\ PlanIsExplained

\* The holder of the lock works on an open row and pays it only when settled:
\* what the stale view of demo_pay breaks.
HolderSeesOpen ==
  \A d \in Deliveries : req[d].pc \in {"locked", "activating"} =>
    txn[req[d].txn].status \in OpenStatuses
ActivatingIsSettled ==
  \A d \in Deliveries : req[d].pc = "activating" => Demo \/ gateway[req[d].txn] = "verified"
SubsArePaid ==
  \A d \in Deliveries : sub[d].status # "none" => txn[req[d].txn].status = "paid"

\* Inductive, on top of BaseInv, when DemoPays = {}.
PayInv == /\ HolderSeesOpen /\ ActivatingIsSettled /\ SubsArePaid
          /\ ActivatedOnce /\ PaidIffActivated /\ VerifiedBeforePaid

-----------------------------------------------------------------------------
\* The refinement mapping to the ledger.
LedgerState(status) == CASE status \in {"absent", "created"} -> "absent"
                         [] status \in OpenStatuses -> "open"
                         [] status = "paid" -> "paid"
                         [] OTHER -> "closed"

Ledger == INSTANCE PaymentLedger
            WITH Txns <- Checkouts, Rows <- Deliveries,
                 state <- [t \in Checkouts |-> LedgerState(txn[t].status)],
                 activation <- [t \in Checkouts |-> OpenedBy(t)]

\* Without demo-pay requests the payment code implements the ledger.
ImplementsLedger == Ledger!Spec
=============================================================================
