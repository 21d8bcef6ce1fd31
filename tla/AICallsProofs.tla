---------------------------- MODULE AICallsProofs ----------------------------
(***************************************************************************)
(* Theorems about AICalls, for every number of retries.                    *)
(***************************************************************************)
EXTENDS AICalls, TLAPS

\* A call starts with nothing asked, nothing logged and nothing returned.
LEMMA InitCallInv == Init => CallInv
  BY MaxRetriesIsNatural
     DEF Init, CallInv, TypeOK, RetryDiscipline, Busy, Tells, NoRow, Row, Providers, Statuses, Answers

-----------------------------------------------------------------------------
(* The answers of a provider *)

\* What one more answer does to the answers of the provider that gave it.
LEMMA OneMore ==
  ASSUME NEW s \in Seq(Answers), NEW a \in Answers
  PROVE  /\ Append(s, a) \in Seq(Answers)
         /\ Len(Append(s, a)) = Len(s) + 1
         /\ Append(s, a)[Len(s) + 1] = a
         /\ \A i \in 1..Len(s) : Append(s, a)[i] = s[i]
         /\ Len(s) \in Nat
  OBVIOUS

\* A request is sent only by a call that is out, and its answer is appended
\* to a run of busy answers.
LEMMA AskedFacts ==
  ASSUME CallInv, NEW a \in Answers, Asked(a)
  PROVE  /\ replies' \in [Providers -> Seq(Answers)]
         /\ \A p \in Providers : p # provider => replies'[p] = replies[p]
         /\ Len(replies'[provider]) = attempt + 1
         /\ replies'[provider][attempt + 1] = a
         /\ \A i \in 1..attempt : replies'[provider][i] = "busy"
         /\ attempt = Len(replies[provider])
         /\ HasKey(provider)
  <1>1. provider \in Providers /\ replies[provider] \in Seq(Answers)
    BY DEF CallInv, TypeOK
  <1>2. attempt = Len(replies[provider]) /\ \A i \in 1..attempt : replies[provider][i] = "busy"
    BY DEF CallInv, Asked, Busy
  <1>3. replies'[provider] = Append(replies[provider], a)
    BY <1>1 DEF Asked, CallInv, TypeOK
  <1>4. \A p \in Providers : p # provider => replies'[p] = replies[p]
    BY DEF Asked, CallInv, TypeOK
  <1>5. replies' \in [Providers -> Seq(Answers)]
    BY <1>1, OneMore DEF Asked, CallInv, TypeOK
  <1> QED BY <1>1, <1>2, <1>3, <1>4, <1>5, OneMore DEF Asked

\* What RetryDiscipline asks of the next state if q stays in charge.
Kept(q) ==
  /\ \A p \in Providers : /\ Len(replies'[p]) <= MaxRetries + 1
                          /\ Busy(p, Len(replies[p]) - 1)'
  /\ q = "fallback" => fallback' /\ SpentBy("primary")'
  /\ replies'["fallback"] # <<>> => q = "fallback"
  /\ \A p \in Providers : ~HasKey(p)' => replies'[p] = <<>>
  /\ replies' \in [Providers -> Seq(Answers)]

\* The discipline survives a request by the provider in charge.
LEMMA AskedKeepsDiscipline ==
  ASSUME CallInv, NEW a \in Answers, Asked(a)
  PROVE  Kept(provider)
  <1>a. TypeOK /\ RetryDiscipline
    BY DEF CallInv
  <1>b. attempt \in 0..MaxRetries /\ MaxRetries \in Nat
    BY <1>a, MaxRetriesIsNatural DEF TypeOK
  <1>1. \A p \in Providers : Len(replies'[p]) <= MaxRetries + 1 /\ Busy(p, Len(replies[p]) - 1)
    BY <1>a, <1>b, AskedFacts DEF RetryDiscipline
  <1>2. ASSUME NEW p \in Providers
        PROVE  Busy(p, Len(replies[p]) - 1)'
    <2>1. CASE p = provider
      BY <1>b, <2>1, AskedFacts DEF Busy
    <2>2. CASE p # provider
      BY <1>1, <2>2, AskedFacts DEF Busy
    <2> QED BY <2>1, <2>2
  <1>3. UNCHANGED settings /\ \A p : HasKey(p)' = HasKey(p)
    BY DEF Asked, HasKey, settings
  <1>4. provider = "fallback" => fallback' /\ SpentBy("primary")'
    <2>1. SUFFICES ASSUME provider = "fallback" PROVE fallback' /\ SpentBy("primary")'
      OBVIOUS
    <2>2. replies'["primary"] = replies["primary"]
      BY <2>1, AskedFacts DEF Providers
    <2> QED BY <1>a, <1>3, <2>1, <2>2 DEF RetryDiscipline, SpentBy, settings
  <1>5. replies'["fallback"] # <<>> => provider = "fallback"
    BY <1>a, AskedFacts DEF RetryDiscipline, Providers
  <1>6. \A p \in Providers : ~HasKey(p)' => replies'[p] = <<>>
    BY <1>3, AskedFacts DEF CallInv
  <1> QED BY <1>1, <1>2, <1>4, <1>5, <1>6, AskedFacts DEF Kept
-----------------------------------------------------------------------------
(* The steps of a call *)

\* _log_request is called with a row that is true of the answers.
LEMMA ToLogStep ==
  ASSUME CallInv, pc = "calling", NEW r \in Row, ToLog(r),
         UNCHANGED <<settings, log, work>>, Kept(provider), r.status \in Statuses,
         r.status = "validation_failed" => task = "speech_analysis",
         r.status \in {"failed", "validation_failed"} => AllFailed', Tells(r)'
  PROVE  CallInv'
  <1>1. TypeOK'
    BY DEF CallInv, TypeOK, ToLog, settings, Kept
  <1>2. RetryDiscipline' /\ \A p \in Providers : ~HasKey(p)' => replies'[p] = <<>>
    BY DEF Kept, ToLog, RetryDiscipline
  <1>3. Tells(row)'
    BY DEF Tells, ToLog
  <1> QED BY <1>1, <1>2, <1>3 DEF CallInv, ToLog, settings

\* The provider in charge has given all it could: the fallback is asked, or
\* the call fails because no provider is left.
LEMMA NextProviderStep ==
  ASSUME CallInv, pc = "calling", NextProvider, UNCHANGED <<settings, log, work>>,
         NEW q \in Providers, q = provider, Kept(q), SpentBy(q)'
  PROVE  CallInv'
  <1>a. TypeOK /\ provider \in Providers
    BY DEF CallInv, TypeOK
  <1>1. CASE provider = "primary" /\ fallback
    <2>1. provider' = "fallback" /\ attempt' = 0 /\ UNCHANGED <<pc, row, outcome>>
      BY <1>1 DEF NextProvider
    <2>2. replies'["fallback"] = <<>>
      BY <1>1 DEF Kept
    <2>3. TypeOK'
      BY <1>a, <2>1, MaxRetriesIsNatural DEF TypeOK, settings, Kept, Providers
    <2>4. RetryDiscipline' /\ \A p \in Providers : ~HasKey(p)' => replies'[p] = <<>>
      BY <1>1, <2>1, <2>2 DEF Kept, RetryDiscipline, settings
    <2>5. attempt' = Len(replies'[provider']) /\ Busy(provider, attempt)'
      BY <2>1, <2>2 DEF Busy
    <2>6. row = NoRow /\ Tells(row)'
      BY <2>1 DEF CallInv, Tells, NoRow
    <2> QED BY <2>1, <2>3, <2>4, <2>5, <2>6 DEF CallInv, settings, NoRow, Statuses
  <1>2. CASE ~(provider = "primary" /\ fallback)
    <2>1. AllFailed'
      BY <1>2, <1>a DEF Kept, AllFailed, Providers, settings
    <2>2. ToLog(Failure("failed"))
      BY <1>2 DEF NextProvider
    <2>3. Failure("failed") \in Row /\ Failure("failed").status = "failed"
      BY DEF Failure, Row, Statuses, Providers
    <2> QED BY <2>1, <2>2, <2>3, ToLogStep DEF Statuses, Tells
  <1> QED BY <1>1, <1>2

\* Every answer of a provider leads on within the discipline.
LEMMA CallKeepsInv == ASSUME CallInv, Call PROVE CallInv'
  <1>a. /\ TypeOK /\ provider \in Providers /\ attempt \in 0..MaxRetries
        /\ MaxRetries \in Nat
    BY MaxRetriesIsNatural DEF CallInv, TypeOK
  <1>b. ASSUME NEW a \in Answers, Asked(a)
        PROVE  /\ pc = "calling" /\ UNCHANGED <<settings, log, work>> /\ Kept(provider)
               /\ Len(replies'[provider]) = attempt + 1 /\ replies'[provider][attempt + 1] = a
               /\ replies'[provider] # <<>>
    <2>1. Len(replies'[provider]) = attempt + 1 /\ replies'[provider][attempt + 1] = a
      BY <1>b, AskedFacts
    <2>2. replies'[provider] # <<>>
      BY <1>a, <2>1
    <2>3. Kept(provider)
      BY <1>b, AskedKeepsDiscipline
    <2>4. pc = "calling" /\ UNCHANGED <<settings, log, work>>
      BY <1>b DEF Asked
    <2> QED BY <2>1, <2>2, <2>3, <2>4
  <1>c. Failure("failed") \in Row /\ Failure("validation_failed") \in Row
    BY DEF Failure, Row, Statuses, Providers
  <1>d. ASSUME NEW a \in {"invalid", "odd"}, Asked(a) PROVE AllFailed'
    BY <1>a, <1>b, <1>d DEF AllFailed, Answers
  <1>1. CASE Complete
    <2>a. attempt \in Nat
      BY <1>a
    <2>b. [status |-> "success", by |-> provider, retries |-> attempt] \in Row
      BY <1>a, <2>a DEF Row, Statuses
    <2>1. PICK r \in Row : r = [status |-> "success", by |-> provider, retries |-> attempt]
      BY <2>b
    <2>2. Asked("ok") /\ ToLog(r) /\ "ok" \in Answers /\ r.status \in Statuses
      BY <1>1, <2>1 DEF Complete, Answers, Statuses
    <2>3. Tells(r)'
      BY <1>b, <2>1, <2>2 DEF Tells, ToLog
    <2> QED BY <1>b, <2>1, <2>2, <2>3, ToLogStep
  <1>2. CASE Invalid
    <2>1. Asked("invalid") /\ ToLog(Failure("failed")) /\ "invalid" \in Answers
      BY <1>2 DEF Invalid, Answers
    <2> QED BY <1>b, <1>c, <1>d, <2>1, ToLogStep DEF Failure, Statuses, Tells
  <1>3. CASE Unexpected
    <2>1. Asked("odd") /\ "odd" \in Answers
      BY <1>3 DEF Unexpected, Answers
    <2>2. CASE task = "speech_analysis"
      <3>1. ToLog(Failure("validation_failed"))
        BY <1>3, <2>2 DEF Unexpected
      <3> QED BY <1>b, <1>c, <1>d, <2>1, <2>2, <3>1, ToLogStep DEF Failure, Statuses, Tells
    <2>3. CASE task # "speech_analysis"
      <3>1. /\ pc' = "done" /\ outcome' = "escaped"
            /\ UNCHANGED <<provider, attempt, row, settings, log, work>> /\ Kept(provider)
        BY <1>3, <1>b, <2>1, <2>3 DEF Unexpected
      <3>2. TypeOK'
        BY <1>a, <3>1 DEF TypeOK, settings, Kept
      <3>3. RetryDiscipline' /\ \A p \in Providers : ~HasKey(p)' => replies'[p] = <<>>
        BY <3>1 DEF Kept, RetryDiscipline
      <3>4. row = NoRow /\ log = NoRow
        BY <1>b, <2>1 DEF CallInv
      <3> QED BY <3>1, <3>2, <3>3, <3>4 DEF CallInv, settings, NoRow, Statuses, Tells
    <2> QED BY <2>2, <2>3
  <1>4. CASE Retry
    <2>1. /\ Asked("busy") /\ "busy" \in Answers
          /\ attempt < MaxRetries /\ attempt' = attempt + 1
          /\ UNCHANGED <<pc, provider, row, outcome>>
      BY <1>4 DEF Retry, Answers
    <2>2. UNCHANGED <<settings, log, work>> /\ Kept(provider) /\ pc = "calling"
      BY <1>b, <2>1
    <2>3. TypeOK'
      BY <1>a, <2>1, <2>2 DEF TypeOK, settings, Kept
    <2>4. RetryDiscipline' /\ \A p \in Providers : ~HasKey(p)' => replies'[p] = <<>>
      BY <2>1, <2>2 DEF Kept, RetryDiscipline
    <2>5. attempt' = Len(replies'[provider']) /\ Busy(provider, attempt)'
      BY <1>a, <1>b, <2>1, AskedFacts DEF Busy
    <2>6. row = NoRow /\ log = NoRow
      BY <2>2 DEF CallInv
    <2> QED BY <2>1, <2>2, <2>3, <2>4, <2>5, <2>6 DEF CallInv, settings, NoRow, Statuses, Tells
  <1>5. ASSUME NEW a \in {"busy", "refused"}, Asked(a), NextProvider, a = "busy" => attempt = MaxRetries
        PROVE  CallInv'
    <2>1. PICK q \in Providers : q = provider
      BY <1>a
    <2>2. SpentBy(q)'
      BY <1>a, <1>b, <1>5, <2>1 DEF SpentBy, Answers
    <2> QED BY <1>b, <1>5, <2>1, <2>2, NextProviderStep DEF Answers
  <1>6. CASE NoKey
    <2>1. PICK q \in Providers : q = provider
      BY <1>a
    <2>2. /\ pc = "calling" /\ NextProvider /\ UNCHANGED <<settings, log, work, replies>>
          /\ ~HasKey(q)
      BY <1>6, <2>1 DEF NoKey
    <2>3. \A p : HasKey(p)' = HasKey(p) /\ SpentBy(p)' = SpentBy(p)
      BY <2>2 DEF HasKey, SpentBy, settings
    <2>4. SpentBy(q)'
      BY <2>2, <2>3 DEF SpentBy, CallInv
    <2>5. Kept(q)
      BY <1>a, <2>1, <2>2, <2>3 DEF Kept, CallInv, RetryDiscipline, TypeOK, Busy, settings
    <2> QED BY <2>1, <2>2, <2>4, <2>5, NextProviderStep
  <1>7. Exhausted \/ Rejected => \E a \in {"busy", "refused"} :
          Asked(a) /\ NextProvider /\ (a = "busy" => attempt = MaxRetries)
    BY DEF Exhausted, Rejected
  <1> QED BY <1>1, <1>2, <1>3, <1>4, <1>5, <1>6, <1>7 DEF Call

\* Whether the commit of the log succeeds, fails or dies with the process, the
\* call returns what its row tells.
LEMMA ReturnKeepsInv ==
  ASSUME CallInv, LogCommit \/ LogFails \/ Die
  PROVE  CallInv'
  <1>1. UNCHANGED <<settings, provider, attempt, replies, row>> /\ pc' = "done" /\ pc # "done"
    BY DEF LogCommit, LogFails, Die, Return
  <1>2. /\ TypeOK' /\ log' \in {NoRow, row}
    BY <1>1 DEF CallInv, TypeOK, LogCommit, LogFails, Die, Return, settings
  <1>3. /\ outcome' = "answered" => row.status = "success"
        /\ outcome' = "refused" => row.status \in {"failed", "validation_failed"}
    BY DEF LogCommit, LogFails, Die, Return, CallInv, Statuses
  <1>4. RetryDiscipline' /\ AllFailed' = AllFailed /\ \A r : Tells(r)' = Tells(r)
    BY <1>1 DEF CallInv, RetryDiscipline, SpentBy, HasKey, Busy, AllFailed, Tells, settings
  <1>5. \A p \in Providers : ~HasKey(p)' => replies'[p] = <<>>
    BY <1>1 DEF CallInv, HasKey, settings
  <1> QED BY <1>1, <1>2, <1>3, <1>4, <1>5 DEF CallInv, settings

\* CallInv survives every step.
LEMMA NextCallInv == CallInv /\ [Next]_vars => CallInv'
  <1> SUFFICES ASSUME CallInv, [Next]_vars PROVE CallInv'
    OBVIOUS
  <1>1. CASE UNCHANGED vars
    BY <1>1 DEF vars, settings, CallInv, TypeOK, RetryDiscipline, SpentBy, HasKey, Busy,
       AllFailed, Tells
  <1> QED BY <1>1, CallKeepsInv, ReturnKeepsInv DEF Next, Step

-----------------------------------------------------------------------------
(* What holds of every call *)

\* CallInv is inductive.
THEOREM CallInvariant == Spec => []CallInv
  BY InitCallInv, NextCallInv, PTL DEF Spec

\* No provider is asked more than MaxRetries times again, and the fallback only
\* after the primary has given all it could.
THEOREM RetriesAreBounded == Spec => []RetryDiscipline
  <1>1. CallInv => RetryDiscipline
    BY DEF CallInv
  <1> QED BY <1>1, CallInvariant, PTL

\* No call gives up while a configured provider could still be asked.
THEOREM GivesUpLast == Spec => []GivesUpOnlyWhenAllFailed
  <1>1. CallInv => GivesUpOnlyWhenAllFailed
    BY DEF CallInv, GivesUpOnlyWhenAllFailed
  <1> QED BY <1>1, CallInvariant, PTL

\* The log names the provider whose answer the caller got.
THEOREM LogIsTrue == Spec => []LogNamesTheAnswer
  <1>1. ASSUME CallInv PROVE LogNamesTheAnswer
    <2>1. Tells(row) /\ log \in {NoRow, row} /\ row \in Row /\ replies \in [Providers -> Seq(Answers)]
      BY <1>1 DEF CallInv, TypeOK
    <2>2. Tells(log)
      BY <2>1 DEF Tells, NoRow
    <2>3. ASSUME outcome = "answered"
          PROVE  \E p \in Providers : \E i \in 1..Len(replies[p]) : replies[p][i] = "ok"
      <3>1. row.status = "success" /\ row.by \in Providers /\ row.retries \in Nat
        BY <1>1, <2>1, <2>3 DEF CallInv, Row
      <3>2. Len(replies[row.by]) \in 1..Len(replies[row.by])
        BY <2>1, <3>1 DEF Tells
      <3> QED BY <2>1, <3>1, <3>2 DEF Tells
    <2> QED BY <2>2, <2>3 DEF LogNamesTheAnswer
  <1> QED BY <1>1, CallInvariant, PTL

\* Every step of a call is a step of the contract or hidden from the caller.
LEMMA ContractStep == CallInv /\ [Next]_vars => [Contract!Next]_(Contract!vars)
  <1> SUFFICES ASSUME CallInv, [Next]_vars PROVE [Contract!Next]_(Contract!vars)
    OBVIOUS
  <1>a. pc # "done" => outcome = "none" /\ work = "flushed" /\ log = NoRow
    BY DEF CallInv
  <1>1. CASE Unexpected /\ task # "speech_analysis"
    <2>1. Contract!Escape
      BY <1>1, <1>a DEF Unexpected, Asked, settings, Contract!Escape, Contract!Open
    <2> QED BY <2>1 DEF Contract!Next
  <1>2. CASE Call /\ ~(Unexpected /\ task # "speech_analysis")
    BY <1>2 DEF Call, Complete, Invalid, Unexpected, Retry, Exhausted, Rejected, NoKey, NextProvider,
       ToLog, Asked, settings, Contract!vars
  <1>3. CASE LogCommit \/ LogFails
    <2>1. /\ Contract!Open /\ row.status \in Statuses
          /\ row.status = "validation_failed" => task = "speech_analysis"
          /\ outcome' = IF row.status = "success" THEN "answered" ELSE "refused"
      BY <1>3, <1>a DEF LogCommit, LogFails, Return, settings, Contract!Open, CallInv
    <2>2. Contract!Record(row.status)
      BY <1>3 DEF LogCommit, LogFails, Contract!Record
    <2> QED BY <2>1, <2>2 DEF Statuses, Contract!Next, Contract!Answer, Contract!Refuse
  <1>4. CASE Die
    <2>1. Contract!Die
      BY <1>4, <1>a DEF Die, settings, Contract!Die, Contract!Open
    <2> QED BY <2>1 DEF Contract!Next
  <1>5. CASE UNCHANGED vars
    BY <1>5 DEF vars, settings, Contract!vars
  <1> QED BY <1>1, <1>2, <1>3, <1>4, <1>5 DEF Next, Step

\* Whatever the providers answer, the caller sees what AIContract allows.
THEOREM CallsKeepTheContract == Spec => ImplementsContract
  <1>1. Init => Contract!Init
    BY DEF Init, NoRow, Contract!Init
  <1>2. Spec => [][Contract!Next]_(Contract!vars)
    BY CallInvariant, ContractStep, PTL DEF Spec
  <1> QED BY <1>1, <1>2, PTL DEF Spec, Contract!Spec, ImplementsContract
=============================================================================
