---------------------------- MODULE UsageProofs ----------------------------
(* Theorems about Usage, for all values of its constants. *)
EXTENDS Usage, FiniteSetTheorems, TLAPS

\* The counts of one row after a grant.
Counted(u, m, s) == /\ counter'[u][m].speech = counter[u][m].speech + 1
                    /\ counter'[u][m].seconds = counter[u][m].seconds + s
Uncounted(u, m) == /\ counter'[u][m].speech = counter[u][m].speech
                   /\ counter'[u][m].seconds = counter[u][m].seconds

GrantMade(r) ==
  /\ Grant(r)
  /\ Counted(req[r].user, req[r].start, req[r].seconds)
  /\ \A u \in Users, m \in Months :
       ~(u = req[r].user /\ m = req[r].start) => Uncounted(u, m)
  /\ req'[r] = [req[r] EXCEPT !.pc = "granted"]
  /\ \A x \in Requests : x # r => req'[x] = req[x]
NothingGranted ==
  /\ \A u \in Users, m \in Months : Uncounted(u, m)
  /\ \A x \in Requests : req'[x].pc = "granted" <=> req[x].pc = "granted"
  /\ \A x \in Requests : req[x].pc # "idle" =>
       /\ req'[x].user = req[x].user /\ req'[x].start = req[x].start
       /\ req'[x].plan = req[x].plan /\ req'[x].seconds = req[x].seconds

\* Nothing is counted in the initial state.
LEMMA InitQuota == Init => QuotaInv
  <1> SUFFICES ASSUME Init PROVE QuotaInv
    OBVIOUS
  <1>1. TypeOK
    BY LastMonthIsNatural DEF Init, TypeOK, Counter, Request, Months
  <1>2. \A r \in Requests : req[r].pc = "idle" /\ req[r].start = 0
    BY DEF Init
  <1>3. \A u \in Users, m \in Months : Granted(u, m) = {}
    BY <1>2 DEF Granted
  <1>4. CountIsExact
    BY <1>3, FS_EmptySet DEF CountIsExact, Init
  <1>5. PeriodsAreReal /\ WithinTheLimit /\ DenialsAreExplained
    BY <1>2, <1>3 DEF PeriodsAreReal, WithinTheLimit, DenialsAreExplained, Init
  <1> QED BY <1>1, <1>4, <1>5 DEF QuotaInv

\* Type correctness of one step.
LEMMA StepTypeOK == TypeOK /\ [Next]_vars => TypeOK'
  <1> SUFFICES ASSUME TypeOK, [Next]_vars PROVE TypeOK'
    OBVIOUS
  <1> USE DEF TypeOK
  <1>1. CASE NextMonth
    BY <1>1, LastMonthIsNatural DEF NextMonth, Months
  <1>2. ASSUME NEW u \in Users, NEW p \in Plans, PlanChanges(u, p) PROVE TypeOK'
    BY <1>2 DEF PlanChanges
  <1>3. ASSUME NEW r \in Requests, Start(r) PROVE TypeOK'
    BY <1>3 DEF Start, Request
  <1>4. ASSUME NEW r \in Requests, EnsureRow(r) PROVE TypeOK'
    <2>1. req[r].user \in Users
      BY DEF Request
    <2>2. counter[req[r].user] \in [Months -> Counter] /\ counter[req[r].user][month] \in Counter
      BY <2>1
    <2>3. [counter[req[r].user][month] EXCEPT !.exists = "yes"] \in Counter
      BY <2>2 DEF Counter
    <2>4. counter' \in [Users -> [Months -> Counter]]
      BY <1>4, <2>1, <2>2, <2>3 DEF EnsureRow
    <2> QED BY <1>4, <2>4 DEF EnsureRow, Request
  <1>5. ASSUME NEW r \in Requests, Grant(r) PROVE TypeOK'
    <2>1. req[r].user \in Users /\ req[r].start \in Months /\ req[r].seconds \in Nat
      BY SecondsAreNatural DEF Request
    <2>2. counter' \in [Users -> [Months -> Counter]]
      BY <1>5, <2>1 DEF Grant, Counter
    <2> QED BY <1>5, <2>2 DEF Grant, Request
  <1>6. ASSUME NEW r \in Requests, Deny(r) \/ Die(r) PROVE TypeOK'
    BY <1>6 DEF Deny, Die, Request
  <1>7. CASE UNCHANGED vars
    BY <1>7 DEF vars
  <1> QED BY <1>1, <1>2, <1>3, <1>4, <1>5, <1>6, <1>7 DEF Next

\* What a step does to the counts and to the set of granted requests: one
\* request is granted and its row counts it, or nothing is counted.
LEMMA GrantOrNot ==
  ASSUME TypeOK, [Next]_vars
  PROVE  \/ \E r \in Requests : GrantMade(r)
         \/ NothingGranted
  <1> USE DEF TypeOK
  <1>1. ASSUME NEW r \in Requests, Grant(r)
        PROVE  GrantMade(r)
    <2>1. req[r].user \in Users /\ req[r].start \in Months
      BY DEF Request
    <2> QED BY <1>1, <2>1 DEF Grant, GrantMade, Counted, Uncounted
  <1>2. ASSUME NEW r \in Requests, EnsureRow(r)
        PROVE  /\ \A u \in Users, m \in Months : Uncounted(u, m)
               /\ req' = [req EXCEPT ![r].pc = "ensured"] /\ req[r].pc # "granted"
    <2>1. req[r].user \in Users
      BY DEF Request
    <2>2. \A u \in Users, m \in Months :
            /\ counter'[u][m].speech = counter[u][m].speech
            /\ counter'[u][m].seconds = counter[u][m].seconds
      <3>1. ASSUME NEW u \in Users, NEW m \in Months
            PROVE  counter'[u][m] \in {counter[u][m], [counter[u][m] EXCEPT !.exists = "yes"]}
        BY <1>2, <2>1 DEF EnsureRow
      <3>2. \A c \in Counter : LET d == [c EXCEPT !.exists = "yes"]
                               IN d.speech = c.speech /\ d.seconds = c.seconds
        BY DEF Counter
      <3> QED BY <3>1, <3>2
    <2> QED BY <1>2, <2>2 DEF EnsureRow, Uncounted
  <1>3. ASSUME NEW r \in Requests, Start(r) \/ Deny(r) \/ Die(r)
        PROVE  NothingGranted
    <2>1. UNCHANGED counter
      BY <1>3 DEF Start, Deny, Die
    <2>2. CASE Start(r)
      BY <2>1, <2>2 DEF Start, NothingGranted, Uncounted, Request
    <2>3. CASE Deny(r)
      BY <2>1, <2>3 DEF Deny, NothingGranted, Uncounted, Request
    <2>4. CASE Die(r)
      BY <2>1, <2>4 DEF Die, NothingGranted, Uncounted, Request
    <2> QED BY <1>3, <2>2, <2>3, <2>4
  <1>4. CASE UNCHANGED <<counter, req>>
    BY <1>4 DEF NothingGranted, Uncounted
  <1>5. \/ \E r \in Requests : Grant(r) \/ EnsureRow(r) \/ Start(r) \/ Deny(r) \/ Die(r)
        \/ UNCHANGED <<counter, req>>
    BY DEF Next, vars, NextMonth, PlanChanges
  <1>6. ASSUME NEW r \in Requests, EnsureRow(r)
        PROVE  NothingGranted
    <2>1. \A u \in Users, m \in Months : Uncounted(u, m)
      BY <1>2, <1>6
    <2>2. req' = [req EXCEPT ![r].pc = "ensured"] /\ req[r].pc # "granted"
      BY <1>2, <1>6
    <2> QED BY <2>1, <2>2 DEF NothingGranted, Request
  <1> QED BY <1>1, <1>3, <1>4, <1>5, <1>6

\* The count goes up exactly when the set of granted requests grows.
LEMMA CountStep ==
  ASSUME TypeOK, CountIsExact, [Next]_vars
  PROVE  CountIsExact'
  <1>1. \A u \in Users, m \in Months : IsFiniteSet(Granted(u, m))
    BY RequestsAreFinite, FS_Subset DEF Granted
  <1>2. CASE \E r \in Requests : GrantMade(r)
    <2> PICK r \in Requests : GrantMade(r)
      BY <1>2
    <2>1. /\ req[r].pc = "ensured" /\ req'[r].pc = "granted"
          /\ req'[r].user = req[r].user /\ req'[r].start = req[r].start
      BY DEF Grant, GrantMade, TypeOK, Request
    <2> SUFFICES ASSUME NEW u \in Users, NEW m \in Months
                 PROVE  (counter[u][m].speech = Cardinality(Granted(u, m)))'
      BY DEF CountIsExact
    <2>2. CASE u = req[r].user /\ m = req[r].start
      <3>1. Granted(u, m)' = Granted(u, m) \cup {r} /\ r \notin Granted(u, m)
        BY <2>1, <2>2 DEF Granted, GrantMade
      <3>2. Cardinality(Granted(u, m)') = Cardinality(Granted(u, m)) + 1
        BY <1>1, <3>1, FS_AddElement
      <3>3. counter'[u][m].speech = counter[u][m].speech + 1
        BY <2>2 DEF Counted, GrantMade
      <3> QED BY <3>2, <3>3 DEF CountIsExact
    <2>3. CASE ~(u = req[r].user /\ m = req[r].start)
      <3>1. Granted(u, m)' = Granted(u, m)
        BY <2>1, <2>3 DEF Granted, GrantMade
      <3> QED BY <2>3, <3>1 DEF CountIsExact, Uncounted, GrantMade
    <2> QED BY <2>2, <2>3
  <1>3. CASE NothingGranted
    <2>1. \A u \in Users, m \in Months : Granted(u, m)' = Granted(u, m)
      BY <1>3 DEF Granted, NothingGranted, TypeOK, Request
    <2> QED BY <1>3, <2>1 DEF CountIsExact, Uncounted, NothingGranted
  <1> QED BY <1>2, <1>3, GrantOrNot

\* The request that is granted witnesses the limit of its period.
LEMMA LimitStep ==
  ASSUME TypeOK, WithinTheLimit, [Next]_vars
  PROVE  WithinTheLimit'
  <1>0. TypeOK'
    BY StepTypeOK
  <1>1. CASE NothingGranted
    <2>1. \A u \in Users, m \in Months : Granted(u, m)' = Granted(u, m)
      BY <1>1 DEF Granted, NothingGranted, TypeOK, Request
    <2>2. \A u \in Users, m \in Months : \A x \in Granted(u, m) : req'[x].plan = req[x].plan
      BY <1>1 DEF Granted, NothingGranted, TypeOK, Request
    <2> QED BY <1>1, <2>1, <2>2 DEF WithinTheLimit, Uncounted, NothingGranted
  <1>2. CASE \E r \in Requests : GrantMade(r)
    <2> PICK r \in Requests : GrantMade(r)
      BY <1>2
    <2>1. /\ req[r].pc = "ensured" /\ req'[r].pc = "granted" /\ req'[r].user = req[r].user
          /\ req'[r].start = req[r].start /\ req'[r].plan = req[r].plan
          /\ req[r].user \in Users /\ req[r].start \in Months /\ req[r].plan \in Plans
          /\ req[r].seconds \in Nat
      BY SecondsAreNatural DEF Grant, GrantMade, TypeOK, Request
    <2>2. Row(r).speech \in Nat /\ Row(r).seconds \in Nat
      BY <2>1 DEF Row, TypeOK, Counter
    <2> SUFFICES ASSUME NEW u \in Users, NEW m \in Months
                 PROVE  (\/ Granted(u, m) = {}
                         \/ \E x \in Granted(u, m) :
                              \/ req[x].plan \in UnlimitedPlans
                              \/ /\ counter[u][m].speech <= SpeechLimit[req[x].plan]
                                 /\ counter[u][m].seconds <= SecondsLimit[req[x].plan])'
      BY DEF WithinTheLimit
    <2>3. CASE u = req[r].user /\ m = req[r].start
      <3>1. r \in Granted(u, m)'
        BY <2>1, <2>3 DEF Granted
      <3>2. CASE req[r].plan \in UnlimitedPlans
        BY <2>1, <3>1, <3>2
      <3>3. CASE req[r].plan \notin UnlimitedPlans
        <4>1. /\ Row(r).speech < SpeechLimit[req[r].plan]
              /\ Row(r).seconds + req[r].seconds <= SecondsLimit[req[r].plan]
          BY <3>3 DEF Grant, GrantMade, Room
        <4>2. SpeechLimit[req[r].plan] \in Nat /\ SecondsLimit[req[r].plan] \in Nat
          BY <2>1, <3>3, LimitsAreNatural DEF LimitedPlans
        <4>3. /\ counter'[u][m].speech <= SpeechLimit[req[r].plan]
              /\ counter'[u][m].seconds <= SecondsLimit[req[r].plan]
          BY <2>1, <2>2, <2>3, <4>1, <4>2 DEF Counted, Row, GrantMade
        <4> QED BY <2>1, <3>1, <4>3
      <3> QED BY <3>2, <3>3
    <2>4. CASE ~(u = req[r].user /\ m = req[r].start)
      <3>1. Granted(u, m)' = Granted(u, m)
        BY <2>1, <2>4 DEF Granted, GrantMade
      <3>2. \A x \in Granted(u, m) : req'[x].plan = req[x].plan
        BY <2>1 DEF Granted, GrantMade
      <3> QED BY <2>4, <3>1, <3>2 DEF WithinTheLimit, Uncounted, GrantMade
    <2> QED BY <2>3, <2>4
  <1> QED BY <1>1, <1>2, GrantOrNot

\* Rows are never deleted, and the calendar never goes back: whoever has passed
\* EnsureRow keeps its row, or its period is over.
LEMMA PeriodStep ==
  ASSUME TypeOK, PeriodsAreReal, [Next]_vars
  PROVE  PeriodsAreReal'
  <1> USE DEF TypeOK
  <1>1. CASE NextMonth
    BY <1>1 DEF NextMonth, PeriodsAreReal, Row, Months, Request
  <1>2. ASSUME NEW r \in Requests, Start(r) PROVE PeriodsAreReal'
    BY <1>2 DEF Start, PeriodsAreReal, Row, Months, Request
  <1>3. ASSUME NEW r \in Requests, EnsureRow(r) PROVE PeriodsAreReal'
    <2>1. req[r].user \in Users /\ req[r].start \in Months
      BY DEF Request
    <2>2. \A u \in Users, m \in Months :
            /\ counter[u][m].exists = "yes" => counter'[u][m].exists = "yes"
            /\ u = req[r].user /\ m = month => counter'[u][m].exists = "yes"
      BY <1>3, <2>1 DEF EnsureRow, Counter
    <2>3. /\ req'[r] = [req[r] EXCEPT !.pc = "ensured"] /\ month' = month
          /\ \A x \in Requests : x # r => req'[x] = req[x]
      BY <1>3 DEF EnsureRow
    <2> QED BY <2>1, <2>2, <2>3 DEF PeriodsAreReal, Row, Months, Request
  <1>4. ASSUME NEW r \in Requests, Grant(r) PROVE PeriodsAreReal'
    <2>1. req[r].user \in Users /\ req[r].start \in Months
      BY DEF Request
    <2>2. \A u \in Users, m \in Months :
            counter[u][m].exists = "yes" => counter'[u][m].exists = "yes"
      BY <1>4, <2>1 DEF Grant, Row
    <2>3. /\ req[r].pc = "ensured" /\ req'[r] = [req[r] EXCEPT !.pc = "granted"]
          /\ month' = month /\ \A x \in Requests : x # r => req'[x] = req[x]
      BY <1>4 DEF Grant
    <2> QED BY <2>1, <2>2, <2>3 DEF PeriodsAreReal, Row, Months, Request
  <1>5. ASSUME NEW r \in Requests, Deny(r) \/ Die(r) PROVE PeriodsAreReal'
    BY <1>5 DEF Deny, Die, PeriodsAreReal, Row, Months, Request
  <1>6. CASE UNCHANGED <<month, counter, req>>
    BY <1>6 DEF PeriodsAreReal, Row
  <1> QED BY <1>1, <1>2, <1>3, <1>4, <1>5, <1>6 DEF Next, vars, PlanChanges

\* The room of a period that has a row only shrinks, and a period that had no row
\* when the request was denied never gets one.
LEMMA DenialStep ==
  ASSUME TypeOK, PeriodsAreReal, DenialsAreExplained, [Next]_vars
  PROVE  DenialsAreExplained'
  <1> USE DEF TypeOK
  <1>1. CASE UNCHANGED <<counter, req>>
    BY <1>1 DEF DenialsAreExplained, Row, Room
  <1>2. ASSUME NEW r \in Requests, Start(r) PROVE DenialsAreExplained'
    BY <1>2 DEF Start, DenialsAreExplained, Row, Room
  <1>3. ASSUME NEW r \in Requests, EnsureRow(r) PROVE DenialsAreExplained'
    <2> SUFFICES ASSUME NEW d \in Requests, req'[d].pc = "denied", Row(d)'.exists = "yes"
                 PROVE  ~Room(d)'
      BY DEF DenialsAreExplained
    <2>1. d # r /\ req'[d] = req[d] /\ req[d].pc = "denied" /\ req[d].user \in Users
          /\ req[d].start \in Months /\ req[r].user \in Users
      BY <1>3 DEF EnsureRow, Request
    <2>2. \/ req[d].user = req[r].user /\ req[d].start = month
          \/ Row(d)' = Row(d)
      BY <1>3, <2>1 DEF EnsureRow, Row
    <2>3. Row(d).exists = "yes" \/ req[d].start < month
      BY <2>1 DEF PeriodsAreReal
    <2>4. req[d].start < month => Row(d)' = Row(d)
      BY <2>2 DEF Months
    <2>5. Row(d).exists = "yes"
      BY <2>3, <2>4
    <2>6. Row(d)'.speech = Row(d).speech /\ Row(d)'.seconds = Row(d).seconds
      BY <1>3, <2>1 DEF EnsureRow, Row, Counter
    <2> QED BY <2>1, <2>5, <2>6 DEF DenialsAreExplained, Room
  <1>4. ASSUME NEW r \in Requests, Grant(r) PROVE DenialsAreExplained'
    <2> SUFFICES ASSUME NEW d \in Requests, req'[d].pc = "denied", Row(d)'.exists = "yes"
                 PROVE  ~Room(d)'
      BY DEF DenialsAreExplained
    <2>1. d # r /\ req'[d] = req[d] /\ req[d].pc = "denied" /\ req[d] \in Request
          /\ req[r] \in Request
      BY <1>4 DEF Grant, Request
    <2>2. Row(d) \in Counter /\ Row(r) \in Counter /\ req[d].seconds \in Nat
          /\ req[r].seconds \in Nat
      BY <2>1, SecondsAreNatural DEF Row, Request
    <2>3. /\ Row(r).exists = "yes"
          /\ Row(d)' \in {Row(d), [exists |-> "yes", speech |-> Row(r).speech + 1,
                                    seconds |-> Row(r).seconds + req[r].seconds]}
          /\ Row(d)' # Row(d) => Row(d) = Row(r)
      BY <1>4, <2>1 DEF Grant, Row, Request
    <2>4. Row(d).exists = "yes" /\ Row(d)'.speech >= Row(d).speech
          /\ Row(d)'.seconds >= Row(d).seconds /\ Row(d)'.speech \in Nat
          /\ Row(d)'.seconds \in Nat
      BY <2>2, <2>3 DEF Counter
    <2>5. ~Room(d)
      BY <2>1, <2>4 DEF DenialsAreExplained
    <2>6. req[d].plan \notin UnlimitedPlans /\ SpeechLimit[req[d].plan] \in Nat
          /\ SecondsLimit[req[d].plan] \in Nat
      BY <2>1, <2>5, LimitsAreNatural DEF Room, LimitedPlans, Request
    <2>7. ~(/\ Row(d)'.speech < SpeechLimit[req[d].plan]
            /\ Row(d)'.seconds + req[d].seconds <= SecondsLimit[req[d].plan])
      BY <2>2, <2>4, <2>5, <2>6 DEF Room, Counter
    <2> QED BY <2>1, <2>6, <2>7 DEF Room
  <1>5. ASSUME NEW r \in Requests, Deny(r) PROVE DenialsAreExplained'
    BY <1>5 DEF Deny, DenialsAreExplained, Row, Room
  <1>6. ASSUME NEW r \in Requests, Die(r) PROVE DenialsAreExplained'
    BY <1>6 DEF Die, DenialsAreExplained, Row, Room
  <1> QED BY <1>1, <1>2, <1>3, <1>4, <1>5, <1>6 DEF Next, vars, NextMonth, PlanChanges

\* The inductive invariant is preserved by every step.
LEMMA QuotaStep == QuotaInv /\ [Next]_vars => QuotaInv'
  BY StepTypeOK, PeriodStep, CountStep, LimitStep, DenialStep DEF QuotaInv

\* The quota's inductive invariant holds in every reachable state.
THEOREM QuotaInvariant == Spec => []QuotaInv
  BY InitQuota, QuotaStep, PTL DEF Spec

\* The usage_counters rows keep their types.
THEOREM UsageTypeCorrect == Spec => []TypeOK
  <1>1. QuotaInv => TypeOK
    BY DEF QuotaInv
  <1> QED BY <1>1, QuotaInvariant, PTL

\* However many requests race, the counter is the number of requests granted.
THEOREM CounterIsExact == Spec => []CountIsExact
  <1>1. QuotaInv => CountIsExact
    BY DEF QuotaInv
  <1> QED BY <1>1, QuotaInvariant, PTL

\* No race of requests, months and plan changes passes the limit it was checked against.
THEOREM LimitIsKept == Spec => []WithinTheLimit
  <1>1. QuotaInv => WithinTheLimit
    BY DEF QuotaInv
  <1> QED BY <1>1, QuotaInvariant, PTL

\* A denied request whose row is there had no room, and never gets room again.
THEOREM DenialIsExplained == Spec => []DenialsAreExplained
  <1>1. QuotaInv => DenialsAreExplained
    BY DEF QuotaInv
  <1> QED BY <1>1, QuotaInvariant, PTL
=============================================================================
