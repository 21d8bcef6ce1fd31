------------------------------- MODULE AICalls -------------------------------
(***************************************************************************)
(* One call of analyze_speech, chat_iraqi_coach or translate of            *)
(* app/services/ai.py: the requests sent to the two providers with their   *)
(* retries, the validation of the answer and the row in ai_request_logs.   *)
(*                                                                         *)
(* A step is one request to a provider with its answer, or the commit of   *)
(* the log.  The answers are those chat_completion tells apart:            *)
(*   "ok"       a completion that the schema of the task accepts           *)
(*   "invalid"  a completion that it does not accept                       *)
(*   "odd"      a body that raises what no handler of the client expects   *)
(*              (a null content, a body that is no object)                 *)
(*   "busy"     timeout, network error, 429 or 5xx: retryable              *)
(*   "refused"  401, 403, another 4xx or a body without a completion       *)
(* The delays between retries, latencies, tokens and costs are left out.   *)
(***************************************************************************)
EXTENDS Integers, Sequences

CONSTANTS MaxRetries   \* settings.ai_max_retries

ASSUME MaxRetriesIsNatural == MaxRetries \in Nat

VARIABLES
  task,      \* which of the three functions was called
  fallback,  \* get_fallback_config is not None
  apiKey,    \* settings.ai_api_key is not empty
  pc,        \* "calling" a provider, "logging" or "done"
  provider,  \* the provider _call_with_retry works with
  attempt,   \* its loop variable
  replies,   \* what each provider has answered so far (history)
  row,       \* the arguments of _log_request
  log,       \* the committed row
  work,      \* what became of the work the caller has flushed
  outcome    \* what the caller sees

settings == <<task, fallback, apiKey>>
vars == <<settings, pc, provider, attempt, replies, row, log, work, outcome>>

Tasks == {"speech_analysis", "chat_reply", "translation"}
Providers == {"primary", "fallback"}
Answers == {"ok", "invalid", "odd", "busy", "refused"}
Statuses == {"success", "failed", "validation_failed"}

NoRow == [status |-> "none", by |-> "primary", retries |-> 0]
Row == [status : Statuses \cup {"none"}, by : Providers, retries : Nat]
\* Failures are logged with the primary's name, whoever has failed.
Failure(status) == [status |-> status, by |-> "primary", retries |-> 0]

Init == /\ task \in Tasks /\ fallback \in BOOLEAN /\ apiKey \in BOOLEAN
        /\ pc = "calling" /\ provider = "primary" /\ attempt = 0
        /\ replies = [p \in Providers |-> <<>>]
        /\ row = NoRow /\ log = NoRow
        /\ work = "flushed" /\ outcome = "none"

-----------------------------------------------------------------------------
(* chat_completion: one request; without a key the primary is not asked.   *)

HasKey(p) == p = "fallback" \/ apiKey
Asked(a) == /\ pc = "calling" /\ HasKey(provider)
            /\ replies' = [replies EXCEPT ![provider] = Append(@, a)]
            /\ UNCHANGED <<settings, log, work>>

ToLog(r) == /\ pc' = "logging" /\ row' = r
            /\ UNCHANGED <<provider, attempt, outcome>>

\* Mutation of NextProvider: the loop variable survives the change.
NextProviderKeepsCount ==
  IF provider = "primary" /\ fallback
    THEN /\ provider' = "fallback" /\ UNCHANGED <<pc, attempt, row, outcome>>
    ELSE ToLog(Failure("failed"))

\* _call_with_fallback, once _call_with_retry has raised.
NextProvider ==
  IF provider = "primary" /\ fallback
    THEN /\ provider' = "fallback" /\ attempt' = 0
         /\ UNCHANGED <<pc, row, outcome>>
    ELSE ToLog(Failure("failed"))

-----------------------------------------------------------------------------
Complete == /\ Asked("ok")
            /\ ToLog([status |-> "success", by |-> provider, retries |-> attempt])

\* _parse_structured: neither retried nor asked of the fallback.
Invalid == Asked("invalid") /\ ToLog(Failure("failed"))

\* Mutation of Unexpected: the error is swallowed.
UnexpectedSwallowed ==
  /\ Asked("odd")
  /\ IF task = "speech_analysis"
       THEN ToLog(Failure("validation_failed"))
       ELSE /\ pc' = "done"
            /\ UNCHANGED <<provider, attempt, row, outcome>>

Unexpected ==
  /\ Asked("odd")
  /\ IF task = "speech_analysis"
       THEN ToLog(Failure("validation_failed"))
       ELSE /\ pc' = "done" /\ outcome' = "escaped"
            /\ UNCHANGED <<provider, attempt, row>>

\* Mutation of Retry: one attempt too many.
RetryOnceMore == /\ Asked("busy") /\ attempt <= MaxRetries
                 /\ attempt' = attempt + 1
                 /\ UNCHANGED <<pc, provider, row, outcome>>

Retry == /\ Asked("busy") /\ attempt < MaxRetries
         /\ attempt' = attempt + 1
         /\ UNCHANGED <<pc, provider, row, outcome>>

Exhausted == Asked("busy") /\ attempt = MaxRetries /\ NextProvider

\* Mutation of Rejected: a refusal is taken for the end of the call.
RejectedForGood == Asked("refused") /\ ToLog(Failure("failed"))

Rejected == Asked("refused") /\ NextProvider

NoKey == /\ pc = "calling" /\ ~HasKey(provider)
         /\ NextProvider
         /\ UNCHANGED <<settings, replies, log, work>>

Call == Complete \/ Invalid \/ Unexpected \/ Retry \/ Exhausted \/ Rejected \/ NoKey

-----------------------------------------------------------------------------
(* _log_request and the return to the caller *)

Return == /\ pc' = "done"
          /\ outcome' = IF row.status = "success" THEN "answered" ELSE "refused"
          /\ UNCHANGED <<settings, provider, attempt, replies, row>>

LogCommit == /\ pc = "logging" /\ Return
             /\ log' = row /\ work' = "committed"

\* Mutation of LogFails: the session is not rolled back.
LogFailsQuietly == pc = "logging" /\ Return /\ UNCHANGED <<log, work>>

LogFails == /\ pc = "logging" /\ Return
            /\ work' = "lost" /\ UNCHANGED log

\* The process dies and the session with it.
Die == /\ pc # "done"
       /\ pc' = "done" /\ outcome' = "died" /\ work' = "lost"
       /\ UNCHANGED <<settings, provider, attempt, replies, row, log>>

Step == Call \/ LogCommit \/ LogFails
Next == Step \/ Die

Spec == Init /\ [][Next]_vars
\* A request ends at the client's timeout, a delay between retries is finite.
FairSpec == Spec /\ WF_vars(Step)

-----------------------------------------------------------------------------
(* Properties *)

TypeOK == /\ task \in Tasks /\ fallback \in BOOLEAN /\ apiKey \in BOOLEAN
          /\ pc \in {"calling", "logging", "done"}
          /\ provider \in Providers /\ attempt \in 0..MaxRetries
          /\ replies \in [Providers -> Seq(Answers)]
          /\ row \in Row /\ log \in Row
          /\ work \in {"flushed", "committed", "lost"}
          /\ outcome \in {"none", "answered", "refused", "escaped", "died"}

Busy(p, n) == \A i \in 1..n : replies[p][i] = "busy"
\* p has given all it could: _call_with_retry has raised for it.
SpentBy(p) == \/ ~HasKey(p) /\ replies[p] = <<>>
              \/ /\ replies[p] # <<>>
                 /\ replies[p][Len(replies[p])] \in {"busy", "refused"}
                 /\ replies[p][Len(replies[p])] = "busy" => Len(replies[p]) = MaxRetries + 1

\* Only a busy answer is followed by another request to the same provider, at
\* most MaxRetries times, and the fallback is asked only when it is configured
\* and the primary has given all it could.
RetryDiscipline ==
  /\ \A p \in Providers : /\ Len(replies[p]) <= MaxRetries + 1
                          /\ Busy(p, Len(replies[p]) - 1)
  /\ provider = "fallback" => fallback /\ SpentBy("primary")
  /\ replies["fallback"] # <<>> => provider = "fallback"

\* The user is told that the service is down only when every provider that is
\* configured has given all it could, or one of them has answered nonsense.
AllFailed ==
  \/ \E p \in Providers : \E i \in 1..Len(replies[p]) : replies[p][i] \in {"invalid", "odd"}
  \/ \A p \in Providers : (p = "fallback" /\ ~fallback) \/ SpentBy(p)
GivesUpOnlyWhenAllFailed == outcome = "refused" => AllFailed

\* ai_request_logs: a success names the provider whose last answer the caller
\* got and counts its retries alone, and no call is answered without an answer.
Tells(r) == r.status = "success" =>
              /\ r.retries + 1 = Len(replies[r.by])
              /\ replies[r.by][Len(replies[r.by])] = "ok"
LogNamesTheAnswer ==
  /\ Tells(log)
  /\ outcome = "answered" => \E p \in Providers : \E i \in 1..Len(replies[p]) : replies[p][i] = "ok"

\* What makes them inductive: a call that is still out has flushed its work
\* only, counts its own provider's answers, and returns what its row tells.
CallInv ==
  /\ TypeOK /\ RetryDiscipline
  /\ \A p \in Providers : ~HasKey(p) => replies[p] = <<>>
  /\ pc = "calling" => /\ attempt = Len(replies[provider])
                       /\ Busy(provider, attempt)
                       /\ row = NoRow
  /\ pc # "done" => outcome = "none" /\ work = "flushed" /\ log = NoRow
  /\ pc = "logging" => row.status \in Statuses
  /\ row.status = "validation_failed" => task = "speech_analysis"
  /\ row.status \in {"failed", "validation_failed"} => AllFailed
  /\ Tells(row)
  /\ log \in {NoRow, row}
  /\ outcome = "answered" => row.status = "success"
  /\ outcome = "refused" => row.status \in {"failed", "validation_failed"}

\* Every call that is not cut off by a crash comes back to its caller.
AlwaysReturns == <>(outcome # "none")

Contract == INSTANCE AIContract WITH catchesAll <- (task = "speech_analysis"), log <- log.status
\* Whatever the providers do, the caller sees what AIContract allows.
ImplementsContract == Contract!Spec
=============================================================================
