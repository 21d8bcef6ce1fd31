--------------------------- MODULE ProgressProofs ---------------------------
(***************************************************************************)
(* What Progress promises of the streak, the summary and the trend, for    *)
(* every number of speeches and of days and every recent_n.                *)
(*                                                                         *)
(* The lemmas first say what sorting and the loop of _compute_streak give, *)
(* whatever the dates are: RunIsTheStreak characterises the streak by the  *)
(* days in a row, without the sequence that the code walks through.  The   *)
(* invariant then needs no more than that dates are past, that the rows    *)
(* counted and those committed since are all there are, and that a summary *)
(* under way holds the dates of the day it read them on.                   *)
(***************************************************************************)
EXTENDS Progress, FiniteSetTheorems, SequenceTheorems, WellFoundedInduction, TLAPS

-----------------------------------------------------------------------------
(* Lemmas on numbers, sets and sequences *)

\* A set of naturals has a least element, which serves for induction.
LEMMA LeastOf ==
  ASSUME NEW T \in SUBSET Nat, T # {}
  PROVE  \E n \in T : \A m \in T : n <= m
  <1> DEFINE R == {ss \in Nat \X Nat : ss[1] < ss[2]}
  <1>1. IsWellFoundedOn(R, Nat)
    BY NatLessThanWellFounded DEF OpToRel
  <1> HIDE DEF R
  <1>2. PICK n \in T : \A m \in T : ~(<<m, n>> \in R)
    BY <1>1, WFMin
  <1>3. \A m \in T : ~(m < n)
    BY <1>2 DEF R
  <1> QED BY <1>2, <1>3

\* Ranks that differ and stay in 1..n take every value.
LEMMA RanksAreAllTaken ==
  ASSUME NEW S, IsFiniteSet(S), NEW rank \in [S -> 1..Cardinality(S)],
         \A a, b \in S : rank[a] = rank[b] => a = b
  PROVE  \A i \in 1..Cardinality(S) : \E a \in S : rank[a] = i
  <1>1. Cardinality(S) \in Nat
    BY FS_CardinalityType
  <1>2. IsFiniteSet(1..Cardinality(S)) /\ Cardinality(1..Cardinality(S)) = Cardinality(S)
    BY <1>1, FS_Interval
  <1>3. rank \in Injection(S, 1..Cardinality(S))
    BY DEF Injection, IsInjective
  <1>4. rank \in Surjection(S, 1..Cardinality(S))
    BY <1>2, <1>3, FS_Injection
  <1> QED BY <1>4 DEF Surjection

\* A part of a finite set that leaves something out is smaller.
LEMMA FewerIn ==
  ASSUME NEW T, IsFiniteSet(T), NEW S \in SUBSET T, NEW x \in T, x \notin S
  PROVE  Cardinality(S) < Cardinality(T)
  <1>1. Cardinality(S) <= Cardinality(T) /\ Cardinality(S) # Cardinality(T)
    BY FS_Subset
  <1>2. Cardinality(S) \in Nat /\ Cardinality(T) \in Nat
    BY FS_Subset, FS_CardinalityType
  <1> QED BY <1>1, <1>2

-----------------------------------------------------------------------------
(* sorted(..., reverse=True) *)

LaterIn(days, d) == {x \in days : x >= d}

\* The dates come in descending order, each of them once.
LEMMA Sorted ==
  ASSUME NEW days \in SUBSET Int, IsFiniteSet(days)
  PROVE  /\ Cardinality(days) \in Nat
         /\ Descending(days) \in Seq(days)
         /\ Len(Descending(days)) = Cardinality(days)
         /\ \A i \in 1..Len(Descending(days)) : Descending(days)[i] \in days
         /\ \A i, j \in 1..Len(Descending(days)) : i < j => Descending(days)[j] < Descending(days)[i]
         /\ \A d \in days : \E i \in 1..Len(Descending(days)) : Descending(days)[i] = d
  <1> DEFINE n == Cardinality(days)
             rank == [d \in days |-> Cardinality(LaterIn(days, d))]
             dates == Descending(days)
  <1>1. n \in Nat
    BY FS_CardinalityType
  <1>2. \A d \in days : /\ LaterIn(days, d) \in SUBSET days
                        /\ IsFiniteSet(LaterIn(days, d))
                        /\ Cardinality(LaterIn(days, d)) \in 1..n
    <2> SUFFICES ASSUME NEW d \in days
                 PROVE  /\ LaterIn(days, d) \in SUBSET days
                        /\ IsFiniteSet(LaterIn(days, d))
                        /\ Cardinality(LaterIn(days, d)) \in 1..n
      OBVIOUS
    <2>1. LaterIn(days, d) \in SUBSET days /\ d \in LaterIn(days, d)
      BY DEF LaterIn
    <2>2. IsFiniteSet(LaterIn(days, d)) /\ Cardinality(LaterIn(days, d)) <= n
      BY <2>1, FS_Subset
    <2>3. Cardinality(LaterIn(days, d)) \in Nat /\ Cardinality(LaterIn(days, d)) # 0
      BY <2>1, <2>2, FS_CardinalityType, FS_EmptySet
    <2> QED BY <1>1, <2>1, <2>2, <2>3
  <1>3. \A a, b \in days : a < b => rank[b] < rank[a]
    <2> SUFFICES ASSUME NEW a \in days, NEW b \in days, a < b
                 PROVE  Cardinality(LaterIn(days, b)) < Cardinality(LaterIn(days, a))
      OBVIOUS
    <2>1. a \in Int /\ b \in Int /\ \A x \in days : x \in Int
      OBVIOUS
    <2>2. \A x \in days : x >= b => x >= a
      BY <2>1
    <2>3. LaterIn(days, b) \in SUBSET LaterIn(days, a)
      BY <2>2 DEF LaterIn
    <2>4. a \in LaterIn(days, a) /\ a \notin LaterIn(days, b)
      BY <2>1 DEF LaterIn
    <2> QED BY <1>2, <2>3, <2>4, FewerIn
  <1>4. rank \in [days -> 1..n]
    BY <1>2
  <1>5. \A i \in 1..n : \E d \in days : rank[d] = i
    <2>1. \A a, b \in days : rank[a] \in Int /\ rank[b] \in Int
      BY <1>4
    <2>2. \A a, b \in days : rank[a] = rank[b] => a = b
      BY <1>3, <2>1
    <2> HIDE DEF rank, n
    <2>3. rank \in [days -> 1..Cardinality(days)]
      BY <1>4 DEF n
    <2>4. \A i \in 1..Cardinality(days) : \E a \in days : rank[a] = i
      BY <2>2, <2>3, RanksAreAllTaken
    <2> QED BY <2>4 DEF n
  <1>6. \A d \in days : rank[d] = Cardinality({x \in days : x >= d})
    BY DEF LaterIn
  <1>7. \A i \in 1..n : dates[i] \in days /\ rank[dates[i]] = i
    <2> HIDE DEF rank
    <2>1. \A i \in 1..n : \E d \in days : Cardinality({x \in days : x >= d}) = i
      BY <1>5, <1>6
    <2>2. \A i \in 1..n : dates[i] \in days /\ Cardinality({x \in days : x >= dates[i]}) = i
      BY <2>1 DEF Descending
    <2> QED BY <1>6, <2>2
  <1>8. dates \in [1..n -> days]
    BY <1>7 DEF Descending
  <1>9. dates \in Seq(days) /\ Len(dates) = n
    <2>1. dates \in Seq(days)
      BY <1>1, <1>8, SeqDef
    <2>2. DOMAIN dates = 1..n /\ DOMAIN dates = 1..Len(dates) /\ Len(dates) \in Nat
      BY <1>8, <2>1, LenProperties
    <2> QED BY <1>1, <2>1, <2>2
  <1>10. \A i, j \in 1..n : i < j => dates[j] < dates[i]
    <2> SUFFICES ASSUME NEW i \in 1..n, NEW j \in 1..n, i < j
                 PROVE  dates[j] < dates[i]
      OBVIOUS
    <2> HIDE DEF dates, rank, n
    <2>1. dates[i] \in Int /\ dates[j] \in Int /\ dates[i] \in days /\ dates[j] \in days
          /\ rank[dates[i]] = i /\ rank[dates[j]] = j
      BY <1>7
    <2>2. dates[i] < dates[j] => rank[dates[j]] < rank[dates[i]]
      BY <1>3, <2>1
    <2>3. dates[i] # dates[j]
      BY <2>1, <1>1
    <2> QED BY <1>1, <2>1, <2>2, <2>3
  <1>11. \A d \in days : \E i \in 1..n : dates[i] = d
    <2> SUFFICES ASSUME NEW d \in days
                 PROVE  dates[rank[d]] = d /\ rank[d] \in 1..n
      OBVIOUS
    <2> HIDE DEF dates, rank, n
    <2>1. rank[d] \in 1..n
      BY <1>4
    <2>2. dates[rank[d]] \in days /\ rank[dates[rank[d]]] = rank[d]
      BY <1>7, <2>1
    <2>3. \A a, b \in days : rank[a] = rank[b] => a = b
      <3>1. \A a, b \in days : rank[a] \in Int /\ rank[b] \in Int
        BY <1>1, <1>4
      <3> QED BY <1>3, <3>1
    <2> QED BY <2>1, <2>2, <2>3
  <1> QED BY <1>1, <1>7, <1>9, <1>10, <1>11
-----------------------------------------------------------------------------
(* _compute_streak *)

\* The loop stops after the days that follow each other, at the first gap.
LEMMA RunStopsAtAGap ==
  ASSUME NEW days \in SUBSET Int, IsFiniteSet(days), days # {}
  PROVE  LET dates == Descending(days)
             n == Run(dates)
         IN /\ n \in 1..Len(dates)
            /\ \A i \in 1..n : dates[i] = dates[1] - i + 1
            /\ dates[1] - n \notin days
  <1> DEFINE dates == Descending(days)
             Ends == {i \in 1..Len(dates) : i = Len(dates) \/ dates[i + 1] # dates[i] - 1}
             n == Run(dates)
             Off == {i \in 1..n : dates[i] # dates[1] - i + 1}
  <1>1. /\ Len(dates) \in Nat
        /\ \A i \in 1..Len(dates) : dates[i] \in days /\ dates[i] \in Int
        /\ \A i, j \in 1..Len(dates) : i < j => dates[j] < dates[i]
        /\ \A d \in days : \E i \in 1..Len(dates) : dates[i] = d
    BY Sorted
  <1>2. Len(dates) >= 1
    <2>1. PICK d \in days : TRUE
      OBVIOUS
    <2>2. PICK i \in 1..Len(dates) : dates[i] = d
      BY <1>1, <2>1
    <2> QED BY <1>1, <2>2
  <1>3. n \in Ends /\ \A m \in Ends : n <= m
    <2>1. Ends \in SUBSET Nat
      OBVIOUS
    <2>2. Ends # {}
      BY <1>1, <1>2
    <2> HIDE DEF Ends
    <2>3. \E m \in Ends : \A l \in Ends : m <= l
      BY <2>1, <2>2, LeastOf
    <2>4. n = Min(Ends)
      BY DEF Run, Ends
    <2> QED BY <2>3, <2>4 DEF Min
  <1> HIDE DEF dates, n
  <1>4. n \in 1..Len(dates) /\ (n = Len(dates) \/ dates[n + 1] # dates[n] - 1)
    BY <1>3
  <1>5. \A i \in 1..Len(dates) : i < n => i # Len(dates) /\ dates[i + 1] = dates[i] - 1
    BY <1>1, <1>3, <1>4
  <1>6. Off = {}
    <2> SUFFICES ASSUME Off # {} PROVE FALSE
      OBVIOUS
    <2>1. Off \in SUBSET Nat
      BY <1>1, <1>4
    <2>2. PICK k \in Off : \A m \in Off : k <= m
      <3> HIDE DEF Off
      <3> QED BY <2>1, LeastOf
    <2>3. k \in 1..n /\ k # 1 /\ k - 1 \in 1..n /\ k - 1 \in 1..Len(dates) /\ k - 1 < n
      BY <1>1, <1>4, <2>2
    <2>4. k - 1 \notin Off
      BY <2>1, <2>2, <2>3
    <2>5. dates[k - 1] = dates[1] - (k - 1) + 1
      BY <2>3, <2>4
    <2>6. dates[k] = dates[k - 1] - 1
      BY <1>5, <2>3
    <2>7. dates[1] \in Int
      BY <1>1, <1>2
    <2> QED BY <2>2, <2>3, <2>5, <2>6, <2>7
  <1>7. \A i \in 1..n : dates[i] = dates[1] - i + 1
    BY <1>6
  <1>8. dates[1] - n \notin days
    <2> SUFFICES ASSUME NEW i \in 1..Len(dates), dates[i] = dates[1] - n PROVE FALSE
      BY <1>1
    <2>1. dates[1] \in Int /\ dates[i] \in Int /\ dates[n] = dates[1] - n + 1 /\ n \in Nat
      BY <1>1, <1>2, <1>4, <1>7
    <2>2. i > n
      <3> SUFFICES ASSUME i <= n PROVE FALSE
        BY <1>1, <1>4
      <3>1. dates[i] = dates[1] - i + 1
        BY <1>7
      <3> QED BY <1>1, <2>1, <3>1
    <2>3. n + 1 \in 1..Len(dates) /\ dates[n + 1] \in Int /\ dates[n + 1] < dates[n]
          /\ dates[n + 1] # dates[n] - 1
      BY <1>1, <1>4, <2>2
    <2>4. dates[n + 1] < dates[1] - n
      BY <2>1, <2>3
    <2>5. i = n + 1 \/ n + 1 < i
      BY <2>1, <2>2
    <2>6. n + 1 < i => dates[i] < dates[n + 1]
      BY <1>1, <2>3
    <2> QED BY <2>1, <2>3, <2>4, <2>5, <2>6
  <1> QED BY <1>4, <1>7, <1>8 DEF dates, n

\* n practice days in a row, no more.
InARowUpTo(days, day, n) == /\ n \in Nat
                            /\ (day - n + 1)..day \subseteq days
                            /\ day - n \notin days

\* What _compute_streak returns, without the sequence it walks through.
LEMMA RunIsTheStreak ==
  ASSUME NEW day \in Nat, NEW days \in SUBSET 0..day
  PROVE  /\ InARowUpTo(days, StreakEnd(days, day), Streak(days, day))
         /\ Streak(days, day) <= StreakEnd(days, day) + 1
  <1> DEFINE dates == Descending(days)
             n == Run(dates)
             end == StreakEnd(days, day)
  <1>1. days \in SUBSET Int /\ IsFiniteSet(days)
    <2>1. IsFiniteSet(0..day)
      BY FS_Interval
    <2>2. IsFiniteSet(days)
      BY <2>1, FS_Subset
    <2>3. \A d \in 0..day : d \in Int
      OBVIOUS
    <2> QED BY <2>2, <2>3
  <1>2. /\ Len(dates) \in Nat
        /\ \A i \in 1..Len(dates) : dates[i] \in days /\ dates[i] \in Nat
        /\ \A i, j \in 1..Len(dates) : i < j => dates[j] < dates[i]
        /\ \A d \in days : \E i \in 1..Len(dates) : dates[i] = d
    <2>1. \A d \in days : d \in Nat
      OBVIOUS
    <2>2. Len(dates) = Cardinality(days) /\ Cardinality(days) \in Nat
      BY <1>1, Sorted
    <2>3. \A i \in 1..Len(dates) : dates[i] \in days
      BY <1>1, Sorted
    <2>4. \A i, j \in 1..Len(dates) : i < j => dates[j] < dates[i]
      BY <1>1, Sorted
    <2>5. \A d \in days : \E i \in 1..Len(dates) : dates[i] = d
      BY <1>1, Sorted
    <2> QED BY <2>1, <2>2, <2>3, <2>4, <2>5
  <1>3. CASE days = {}
    <2>1. Streak(days, day) = 0 /\ end = day - 1
      BY <1>3 DEF Streak, StreakEnd
    <2> QED BY <1>3, <2>1 DEF InARowUpTo
  <1>4. CASE days # {}
    <2>1. 1 \in 1..Len(dates) /\ dates[1] \in days /\ dates[1] \in 0..day
      <3>1. PICK d \in days : TRUE
        BY <1>4
      <3>2. PICK i \in 1..Len(dates) : dates[i] = d
        BY <1>2, <3>1
      <3>3. 1 \in 1..Len(dates)
        BY <1>2, <3>2
      <3> QED BY <1>2, <3>3
    <2>2. \A d \in days : d <= dates[1]
      <3> SUFFICES ASSUME NEW i \in 1..Len(dates) PROVE dates[i] <= dates[1]
        BY <1>2
      <3>1. i = 1 \/ 1 < i
        OBVIOUS
      <3> QED BY <1>2, <2>1, <3>1
    <2>3. CASE dates[1] \notin {day, day - 1}
      <3>1. day \notin days /\ day - 1 \notin days
        BY <2>1, <2>2, <2>3
      <3>2. Streak(days, day) = 0 /\ end = day - 1
        BY <2>3, <3>1 DEF Streak, StreakEnd
      <3> QED BY <3>1, <3>2 DEF InARowUpTo
    <2>4. CASE dates[1] \in {day, day - 1}
      <3>1. end = dates[1]
        BY <2>1, <2>2, <2>4 DEF StreakEnd
      <3>2. Streak(days, day) = n
        BY <1>4, <2>4 DEF Streak
      <3>3. /\ n \in 1..Len(dates)
            /\ \A i \in 1..n : dates[i] = dates[1] - i + 1
            /\ dates[1] - n \notin days
        BY <1>1, <1>4, RunStopsAtAGap
      <3> HIDE DEF dates, n, end
      <3>4. ASSUME NEW d \in (dates[1] - n + 1)..dates[1] PROVE d \in days
        <4>1. dates[1] - d + 1 \in 1..n
          BY <2>1, <3>3, <1>2
        <4>2. dates[dates[1] - d + 1] = d
          BY <2>1, <3>3, <4>1
        <4>3. dates[1] - d + 1 \in 1..Len(dates)
          BY <1>2, <3>3, <4>1
        <4> QED BY <1>2, <4>2, <4>3
      <3>5. n <= dates[1] + 1
        <4>1. dates[1] - n + 1 \in (dates[1] - n + 1)..dates[1]
          BY <2>1, <3>3, <1>2
        <4>2. dates[1] - n + 1 \in 0..day
          BY <3>4, <4>1
        <4> QED BY <2>1, <3>3, <1>2, <4>2
      <3>6. n \in Nat
        BY <1>2, <3>3
      <3>7. InARowUpTo(days, end, n)
        BY <3>1, <3>3, <3>4, <3>6 DEF InARowUpTo
      <3> QED BY <3>1, <3>2, <3>5, <3>7 DEF end
    <2> QED BY <2>3, <2>4
  <1> QED BY <1>3, <1>4
\* The days in a row up to a day are of one length.
LEMMA OneRow ==
  ASSUME NEW days, NEW end \in Int, NEW m, InARowUpTo(days, end, m),
         NEW n, InARowUpTo(days, end, n)
  PROVE  m = n
  <1>1. m \in Nat /\ n \in Nat
    BY DEF InARowUpTo
  <1>2. ~(m < n)
    <2> SUFFICES ASSUME m < n PROVE FALSE
      OBVIOUS
    <2>1. end - m \in (end - n + 1)..end
      BY <1>1
    <2> QED BY <2>1 DEF InARowUpTo
  <1>3. ~(n < m)
    <2> SUFFICES ASSUME n < m PROVE FALSE
      OBVIOUS
    <2>1. end - n \in (end - m + 1)..end
      BY <1>1
    <2> QED BY <2>1 DEF InARowUpTo
  <1> QED BY <1>1, <1>2, <1>3

\* A streak is positive exactly when the day it ends on was practised.
LEMMA StreakOrNone ==
  ASSUME NEW day \in Nat, NEW days \in SUBSET 0..day
  PROVE  /\ Streak(days, day) \in Nat
         /\ Streak(days, day) = 0 <=> StreakEnd(days, day) \notin days
  <1>1. InARowUpTo(days, StreakEnd(days, day), Streak(days, day))
    BY RunIsTheStreak
  <1>2. Streak(days, day) \in Nat /\ StreakEnd(days, day) \in Int
    BY <1>1 DEF InARowUpTo, StreakEnd
  <1>3. CASE Streak(days, day) = 0
    BY <1>1, <1>2, <1>3 DEF InARowUpTo
  <1>4. CASE Streak(days, day) # 0
    <2>1. StreakEnd(days, day)
            \in (StreakEnd(days, day) - Streak(days, day) + 1)..StreakEnd(days, day)
      BY <1>2, <1>4
    <2> QED BY <1>1, <1>4, <2>1 DEF InARowUpTo
  <1> QED BY <1>2, <1>3, <1>4

\* Read on a later day, the same dates give the same streak until a day without
\* practice has ended, and none from then on.
LEMMA StreakOnALaterDay ==
  ASSUME NEW day \in Nat, NEW later \in Nat, day <= later, NEW days \in SUBSET 0..day
  PROVE  LET last == IF day \in days THEN day + 1 ELSE day
         IN Streak(days, later) = IF later <= last THEN Streak(days, day) ELSE 0
  <1>1. days \in SUBSET 0..later
    OBVIOUS
  <1>2. CASE later = day
    BY <1>2
  <1>3. CASE later = day + 1 /\ day \in days
    <2>1. StreakEnd(days, later) = day /\ StreakEnd(days, day) = day
      BY <1>3 DEF StreakEnd
    <2>2. InARowUpTo(days, day, Streak(days, later)) /\ InARowUpTo(days, day, Streak(days, day))
      BY <1>1, <2>1, RunIsTheStreak
    <2>3. Streak(days, later) = Streak(days, day)
      BY <2>2, OneRow
    <2> QED BY <1>3, <2>3
  <1>4. CASE later > day + 1 \/ (later = day + 1 /\ day \notin days)
    <2>1. StreakEnd(days, later) = later - 1 /\ later - 1 \notin days
      BY <1>4 DEF StreakEnd
    <2>2. Streak(days, later) = 0
      BY <1>1, <2>1, StreakOrNone
    <2> QED BY <1>4, <2>2
  <1> QED BY <1>2, <1>3, <1>4

\* As long as the days of the run are all there, the streak of the same day is no
\* shorter, whatever else comes or goes.
LEMMA StreakHolds ==
  ASSUME NEW day \in Nat, NEW days \in SUBSET 0..day, NEW other \in SUBSET 0..day,
         RunDays(days, day) \subseteq other
  PROVE  Streak(days, day) <= Streak(other, day)
  <1> DEFINE m == Streak(other, day)
             n == Streak(days, day)
             end == StreakEnd(days, day)
  <1>1. /\ m \in Nat /\ n \in Nat /\ end \in Int
        /\ InARowUpTo(other, StreakEnd(other, day), m)
        /\ (end - n + 1)..end \subseteq other
    BY StreakOrNone, RunIsTheStreak DEF RunDays, StreakEnd
  <1> SUFFICES ASSUME m < n PROVE FALSE
    BY <1>1
  <1>2. end \in other
    BY <1>1
  <1>3. end \in {day, day - 1}
    BY DEF StreakEnd
  <1> HIDE DEF m, n, end
  <1>4. CASE StreakEnd(other, day) = end
    <2>1. end - m \in (end - n + 1)..end
      BY <1>1
    <2> QED BY <1>1, <1>4, <2>1 DEF InARowUpTo
  <1>5. CASE StreakEnd(other, day) # end
    <2>1. StreakEnd(other, day) = day /\ end = day - 1 /\ day \in other
      BY <1>2, <1>3, <1>5 DEF StreakEnd
    <2>2. m # 0
      BY <1>1, <2>1 DEF InARowUpTo
    <2>3. day - m \in (end - n + 1)..end
      BY <1>1, <2>1, <2>2
    <2> QED BY <1>1, <2>1, <2>3 DEF InARowUpTo
  <1> QED BY <1>4, <1>5

\* A streak has no more days than there are dates.
LEMMA StreakIsOfDates ==
  ASSUME NEW day \in Nat, NEW days \in SUBSET 0..day
  PROVE  Streak(days, day) <= Cardinality(days)
  <1>1. days \in SUBSET Int /\ IsFiniteSet(days)
    <2>1. IsFiniteSet(0..day) /\ 0..day \subseteq Int
      BY FS_Interval
    <2> QED BY <2>1, FS_Subset
  <1>2. Cardinality(days) \in Nat /\ Len(Descending(days)) = Cardinality(days)
    BY <1>1, Sorted
  <1>3. days # {} => Run(Descending(days)) \in 1..Len(Descending(days))
    BY <1>1, RunStopsAtAGap
  <1> QED BY <1>2, <1>3 DEF Streak

-----------------------------------------------------------------------------
(* The invariant *)

\* completed_at was read from the clock.
DatesArePast == \A s \in Speeches : speech[s].date <= today

\* What is completed was among the rows counted or has been committed since.
RowsWereRead ==
  summary.pc = "counted" => Cardinality(Completed \ summary.gained) <= summary.count

\* The dates of a summary are the practice dates of a day up to today.
DatesWereRead ==
  summary.pc = "dated" =>
    /\ summary.day \in 0..today
    /\ summary.practice \subseteq 0..summary.day
    /\ summary.dates = summary.practice
    /\ Streak(summary.practice, summary.day) <= summary.most

ProgressInv == TypeOK /\ DatesArePast /\ RowsWereRead /\ DatesWereRead

\* What is practised is practised up to today.
LEMMA PracticeIsPast ==
  ASSUME TypeOK, DatesArePast
  PROVE  today \in Nat /\ PracticeDates \in SUBSET 0..today
  BY NumbersArePositive DEF TypeOK, DatesArePast, Dates, Speech, PracticeDates, Completed

\* The rows and what can be counted of them are finite.
LEMMA RowsAreFinite ==
  ASSUME TypeOK
  PROVE  /\ \A S \in SUBSET Speeches : IsFiniteSet(S) /\ Cardinality(S) \in Nat
         /\ Completed \in SUBSET Speeches /\ summary.gained \in SUBSET Speeches
  BY SpeechesAreFinite, FS_Subset, FS_CardinalityType DEF TypeOK, Summary, Completed

\* No more practice dates than completed speeches.
LEMMA DatesOfRows ==
  ASSUME TypeOK
  PROVE  Cardinality(PracticeDates) <= Cardinality(Completed)
  <1> DEFINE date == [s \in Completed |-> speech[s].date]
  <1>1. date \in Surjection(Completed, PracticeDates)
    BY DEF Surjection, PracticeDates
  <1>2. IsFiniteSet(Completed)
    BY RowsAreFinite
  <1> QED BY <1>1, <1>2, FS_Surjection

\* The streak of the dates is bounded by the rows counted and those gained.
LEMMA StreakIsOfRows ==
  ASSUME ProgressInv, summary.pc = "counted"
  PROVE  Streak(PracticeDates, today) <= summary.count + Cardinality(summary.gained)
  <1> DEFINE gained == summary.gained
             kept == Completed \ gained
  <1>1. /\ IsFiniteSet(kept) /\ IsFiniteSet(gained) /\ IsFiniteSet(Completed)
        /\ Cardinality(kept) \in Nat /\ Cardinality(gained) \in Nat /\ Cardinality(Completed) \in Nat
        /\ summary.count \in Nat
    <2>1. kept \in SUBSET Speeches /\ gained \in SUBSET Speeches /\ Completed \in SUBSET Speeches
      BY RowsAreFinite DEF ProgressInv
    <2> QED BY <2>1, RowsAreFinite DEF ProgressInv, TypeOK, Summary
  <1>2. Cardinality(kept) <= summary.count
    BY DEF ProgressInv, RowsWereRead
  <1>3. Cardinality(Completed) <= Cardinality(kept) + Cardinality(gained)
    <2>1. /\ IsFiniteSet(kept \cup gained)
          /\ Cardinality(kept \cup gained) = Cardinality(kept) + Cardinality(gained)
                                              - Cardinality(kept \cap gained)
      BY <1>1, FS_Union
    <2>2. kept \cap gained = {} /\ Completed \subseteq kept \cup gained
      OBVIOUS
    <2>3. Cardinality(Completed) <= Cardinality(kept \cup gained)
      BY <2>1, <2>2, FS_Subset
    <2> QED BY <1>1, <2>1, <2>2, <2>3, FS_EmptySet
  <1>4. Cardinality(PracticeDates) <= Cardinality(Completed)
    BY DatesOfRows DEF ProgressInv
  <1>5. /\ Streak(PracticeDates, today) <= Cardinality(PracticeDates)
        /\ Streak(PracticeDates, today) \in Nat /\ Cardinality(PracticeDates) \in Nat
    <2>1. today \in Nat /\ PracticeDates \in SUBSET 0..today
      BY PracticeIsPast DEF ProgressInv
    <2>2. IsFiniteSet(0..today)
      BY <2>1, FS_Interval
    <2>3. IsFiniteSet(PracticeDates)
      BY <2>1, <2>2, FS_Subset
    <2>4. Cardinality(PracticeDates) \in Nat
      BY <2>3, FS_CardinalityType
    <2>5. Streak(PracticeDates, today) <= Cardinality(PracticeDates) /\ Streak(PracticeDates, today) \in Nat
      BY <2>1, StreakIsOfDates, StreakOrNone
    <2> QED BY <2>4, <2>5
  <1> HIDE DEF kept, gained
  <1>6. Streak(PracticeDates, today) <= summary.count + Cardinality(gained)
    BY <1>1, <1>2, <1>3, <1>4, <1>5
  <1> QED BY <1>6 DEF gained

LEMMA InitProgress == Init => ProgressInv
  <1> SUFFICES ASSUME Init PROVE ProgressInv
    OBVIOUS
  <1>1. 0 \in Dates
    BY NumbersArePositive DEF Dates
  <1>2. NoSpeech \in Speech /\ Idle \in Summary
    BY <1>1 DEF NoSpeech, Speech, Idle, Summary
  <1>3. TypeOK /\ DatesArePast
    BY <1>1, <1>2 DEF Init, TypeOK, DatesArePast, NoSpeech
  <1> QED BY <1>3 DEF Init, ProgressInv, RowsWereRead, DatesWereRead, Idle

LEMMA NextType == ProgressInv /\ [Next]_vars => TypeOK'
  <1> SUFFICES ASSUME ProgressInv, [Next]_vars PROVE TypeOK'
    OBVIOUS
  <1>1. TypeOK /\ today \in Nat /\ PracticeDates \in SUBSET 0..today
    BY PracticeIsPast DEF ProgressInv
  <1>2. 0 \in Dates /\ today \in Dates /\ \A d \in 0..today : d \in Dates
    BY <1>1, NumbersArePositive DEF TypeOK, Dates
  <1>3. CASE NextDay
    BY <1>1, <1>3, NumbersArePositive DEF NextDay, TypeOK, Dates
  <1>4. ASSUME NEW s \in Speeches, Finish(s) \/ FinishCommit(s) \/ Fail(s) \/ Leave(s)
        PROVE  TypeOK'
    <2>1. PICK x \in Speech : speech' = [speech EXCEPT ![s] = x]
      <3>1. speech[s] \in Speech /\ speech[s].date \in Dates
        BY <1>1 DEF TypeOK, Speech
      <3>2. CASE Finish(s)
        <4>1. [status |-> "finishing", date |-> today] \in Speech
          BY <1>2 DEF Speech
        <4> QED BY <3>2, <4>1 DEF Finish
      <3>3. CASE FinishCommit(s)
        <4>1. [speech[s] EXCEPT !.status = "completed"] \in Speech
          BY <3>1 DEF Speech
        <4> QED BY <3>3, <4>1 DEF FinishCommit
      <3>4. CASE Fail(s)
        <4>1. [speech[s] EXCEPT !.status = "failed"] \in Speech
          BY <3>1 DEF Speech
        <4> QED BY <3>4, <4>1 DEF Fail
      <3>5. CASE Leave(s)
        <4>1. NoSpeech \in Speech
          BY <1>2 DEF Speech, NoSpeech
        <4> QED BY <3>5, <4>1 DEF Leave
      <3> QED BY <1>4, <3>2, <3>3, <3>4, <3>5
    <2>2. today' = today /\ summary' \in Summary
      <3>1. [summary EXCEPT !.gained = @ \cup {s}] \in Summary
        BY <1>1 DEF TypeOK, Summary
      <3> QED BY <1>1, <1>4, <3>1 DEF Finish, FinishCommit, Fail, Leave, TypeOK
    <2> QED BY <1>1, <2>1, <2>2 DEF TypeOK
  <1>5. CASE Count
    <2>1. Cardinality(Completed) \in Nat
      BY <1>1, RowsAreFinite
    <2> QED BY <1>1, <1>2, <1>5, <2>1 DEF Count, TypeOK, Summary, Idle
  <1>6. CASE ReadDates
    <2>1. summary.count + Cardinality(summary.gained) \in Nat
      BY <1>1, RowsAreFinite DEF TypeOK, Summary
    <2>2. PracticeDates \in SUBSET Dates
      BY <1>1, <1>2
    <2>3. DatesRead \in Summary
      BY <1>1, <2>1, <2>2 DEF DatesRead, TypeOK, Summary
    <2> QED BY <1>1, <1>6, <2>3 DEF ReadDates, TypeOK
  <1>7. CASE Answer
    <2>1. summary.dates \in SUBSET 0..today
      BY <1>1, <1>7 DEF ProgressInv, DatesWereRead, Answer
    <2>2. Streak(summary.dates, today) \in Nat
      BY <1>1, <2>1, StreakOrNone
    <2>3. summary.count \in Nat
      BY <1>1 DEF TypeOK, Summary
    <2> QED BY <1>1, <1>2, <1>7, <2>2, <2>3 DEF Answer, TypeOK, Summary, Idle
  <1>8. CASE Close
    BY <1>1, <1>2, <1>8 DEF Close, TypeOK, Summary, Idle
  <1>9. CASE UNCHANGED vars
    BY <1>1, <1>9 DEF vars, TypeOK
  <1> QED BY <1>3, <1>4, <1>5, <1>6, <1>7, <1>8, <1>9 DEF Next

\* What a step does to the summary.
LEMMA SummarySteps ==
  ASSUME TypeOK, [Next]_vars
  PROVE  \/ UNCHANGED summary
         \/ summary.pc = "counted" /\ summary'.pc = "counted" /\ \E s \in Speeches : FinishCommit(s)
         \/ Count /\ summary'.pc \in {"answered", "counted"}
         \/ ReadDates /\ summary'.pc = "dated"
         \/ Answer /\ summary'.pc = "answered"
         \/ Close /\ summary'.pc = "idle"
  <1>1. ASSUME NEW s \in Speeches, Finish(s) \/ FinishCommit(s) \/ Fail(s) \/ Leave(s)
        PROVE  \/ UNCHANGED summary
               \/ summary.pc = "counted" /\ summary'.pc = "counted" /\ FinishCommit(s)
    BY <1>1 DEF Finish, FinishCommit, Fail, Leave, TypeOK, Summary
  <1>2. Count => summary'.pc \in {"answered", "counted"}
    BY DEF Count, Idle
  <1>3. ReadDates => summary'.pc = "dated"
    BY DEF ReadDates, DatesRead, TypeOK, Summary
  <1>4. Answer => summary'.pc = "answered"
    <2> DEFINE streak == Streak(summary.dates, today)
    <2>1. Answer => summary' = [Idle EXCEPT !.pc = "answered", !.count = summary.count, !.streak = streak]
      BY DEF Answer
    <2> HIDE DEF streak
    <2> QED BY <2>1 DEF Idle
  <1>5. Close => summary'.pc = "idle"
    BY DEF Close, Idle
  <1>6. NextDay \/ UNCHANGED vars => UNCHANGED summary
    BY DEF NextDay, vars
  <1> QED BY <1>1, <1>2, <1>3, <1>4, <1>5, <1>6 DEF Next

LEMMA NextProgress == ProgressInv /\ [Next]_vars => ProgressInv'
  <1> SUFFICES ASSUME ProgressInv, [Next]_vars PROVE ProgressInv'
    OBVIOUS
  <1>1. TypeOK /\ TypeOK' /\ today \in Nat /\ PracticeDates \in SUBSET 0..today
    BY NextType, PracticeIsPast DEF ProgressInv
  <1>2. today' \in Nat /\ today <= today'
    BY <1>1 DEF TypeOK, Next, NextDay, Finish, FinishCommit, Fail, Leave, Count, ReadDates,
                Answer, Close, vars
  <1>3. DatesArePast'
    <2>1. \A s \in Speeches : speech'[s].date \in {speech[s].date, today, 0}
      BY <1>1 DEF Next, NextDay, Finish, FinishCommit, Fail, Leave, Count, ReadDates,
                  Answer, Close, vars, TypeOK, Speech, NoSpeech
    <2>2. \A s \in Speeches : speech[s].date <= today /\ speech[s].date \in Nat
      BY <1>1, NumbersArePositive DEF ProgressInv, DatesArePast, TypeOK, Speech, Dates
    <2> QED BY <1>1, <1>2, <2>1, <2>2 DEF DatesArePast
  <1>4. RowsWereRead'
    <2> SUFFICES ASSUME summary'.pc = "counted"
                 PROVE  Cardinality(Completed' \ summary'.gained) <= summary'.count
      BY DEF RowsWereRead
    <2>1. CASE Count
      <3>1. summary'.gained = {} /\ summary'.count = Cardinality(Completed) /\ Completed' = Completed
        BY <2>1 DEF Count, Idle, Completed
      <3>2. Cardinality(Completed) \in Nat
        BY <1>1, RowsAreFinite
      <3> QED BY <3>1, <3>2
    <2>2. CASE summary.pc = "counted" /\ ~Count
      <3>1. summary'.count = summary.count /\ Completed' \ summary'.gained \subseteq Completed \ summary.gained
        <4>1. CASE UNCHANGED summary /\ Completed' \subseteq Completed
          BY <4>1
        <4>2. ASSUME NEW s \in Speeches, FinishCommit(s)
              PROVE  summary' = [summary EXCEPT !.gained = @ \cup {s}] /\ Completed' \subseteq Completed \cup {s}
          BY <1>1, <2>2, <4>2 DEF FinishCommit, Completed, TypeOK
        <4>3. CASE \E s \in Speeches : FinishCommit(s)
          <5>1. PICK s \in Speeches : FinishCommit(s)
            BY <4>3
          <5>2. summary'.gained = summary.gained \cup {s} /\ summary'.count = summary.count
            BY <1>1, <4>2, <5>1 DEF TypeOK, Summary
          <5> QED BY <4>2, <5>1, <5>2
        <4>4. CASE NextDay \/ UNCHANGED vars
          BY <4>1, <4>4 DEF NextDay, vars, Completed
        <4>5. ASSUME NEW s \in Speeches, Finish(s) \/ Fail(s) \/ Leave(s)
              PROVE  UNCHANGED summary /\ Completed' \subseteq Completed
          BY <1>1, <4>5 DEF Finish, Fail, Leave, NoSpeech, Completed, TypeOK
        <4>6. CASE ReadDates \/ Answer \/ Close
          BY <1>1, <2>2, <4>6 DEF ReadDates, DatesRead, Answer, Close, Idle, TypeOK, Summary
        <4> QED BY <2>2, <4>1, <4>3, <4>4, <4>5, <4>6 DEF Next
      <3>2. /\ IsFiniteSet(Completed \ summary.gained)
            /\ Cardinality(Completed \ summary.gained) \in Nat
            /\ summary.count \in Nat
        BY <1>1, RowsAreFinite DEF TypeOK, Summary
      <3>3. /\ Cardinality(Completed' \ summary'.gained) <= Cardinality(Completed \ summary.gained)
            /\ Cardinality(Completed' \ summary'.gained) \in Nat
        BY <3>1, <3>2, FS_Subset, FS_CardinalityType
      <3>4. Cardinality(Completed \ summary.gained) <= summary.count
        BY <2>2 DEF ProgressInv, RowsWereRead
      <3> QED BY <3>1, <3>2, <3>3, <3>4
    <2>3. CASE summary.pc # "counted" /\ ~Count
      BY <1>1, <2>3, SummarySteps
    <2> QED BY <2>1, <2>2, <2>3
  <1>5. DatesWereRead'
    <2> SUFFICES ASSUME summary'.pc = "dated" PROVE DatesWereRead'
      BY DEF DatesWereRead
    <2>1. CASE ReadDates
      <3>1. /\ summary' = DatesRead /\ summary.pc = "counted" /\ today' = today
        BY <2>1 DEF ReadDates
      <3>2. /\ summary'.day = today /\ summary'.practice = PracticeDates /\ summary'.dates = PracticeDates
            /\ summary'.most = summary.count + Cardinality(summary.gained)
        BY <1>1, <3>1 DEF DatesRead, TypeOK, Summary
      <3>3. Streak(PracticeDates, today) <= summary.count + Cardinality(summary.gained)
        BY <3>1, StreakIsOfRows
      <3> QED BY <1>1, <3>1, <3>2, <3>3 DEF DatesWereRead
    <2>2. CASE UNCHANGED summary
      <3>1. \A day \in 0..today : day \in 0..today'
        BY <1>1, <1>2
      <3> QED BY <2>2, <3>1 DEF ProgressInv, DatesWereRead
    <2>3. CASE summary' # summary /\ ~ReadDates
      BY <1>1, <2>3, SummarySteps
    <2> QED BY <2>1, <2>2, <2>3
  <1> QED BY <1>1, <1>3, <1>4, <1>5 DEF ProgressInv

-----------------------------------------------------------------------------
(* The theorems on the streak and the summary *)

\* The invariant holds throughout; what the other theorems follow from.
THEOREM ProgressInvariant == Spec => []ProgressInv
  <1>1. Init => ProgressInv
    BY InitProgress
  <1>2. ProgressInv /\ [Next]_vars => ProgressInv'
    BY NextProgress
  <1> QED BY <1>1, <1>2, PTL DEF Spec

\* The clock, the rows and the summary stay well formed: in particular no
\* date and no streak gets out of its range.
THEOREM ProgressTypeCorrect == Spec => []TypeOK
  <1>1. ProgressInv => TypeOK
    BY DEF ProgressInv
  <1> QED BY <1>1, ProgressInvariant, PTL

\* The step that answers a summary.
LEMMA NextAnswer ==
  ProgressInv /\ [Next]_vars =>
    (summary.pc = "dated" /\ summary'.pc = "answered" =>
       /\ summary'.streak = IF today <= LastStanding
                            THEN Streak(summary.practice, summary.day) ELSE 0
       /\ summary'.streak <= summary.most)
  <1> SUFFICES ASSUME ProgressInv, [Next]_vars, summary.pc = "dated", summary'.pc = "answered"
               PROVE  /\ summary'.streak = IF today <= LastStanding
                                            THEN Streak(summary.practice, summary.day) ELSE 0
                      /\ summary'.streak <= summary.most
    OBVIOUS
  <1>1. /\ today \in Nat /\ summary.day \in Nat /\ summary.day <= today /\ summary.most \in Nat
        /\ summary.practice \in SUBSET 0..summary.day /\ summary.dates = summary.practice
        /\ Streak(summary.practice, summary.day) <= summary.most
    <2>1. today \in Nat /\ summary.most \in Nat
      BY NumbersArePositive DEF ProgressInv, TypeOK, Summary, Dates
    <2> QED BY <2>1 DEF ProgressInv, DatesWereRead
  <1>2. summary'.streak = Streak(summary.dates, today)
    BY DEF Next, NextDay, Finish, FinishCommit, Fail, Leave, Count, ReadDates, Answer, Close, vars, Idle
  <1>3. Streak(summary.dates, today) = IF today <= LastStanding
                                       THEN Streak(summary.practice, summary.day) ELSE 0
    BY <1>1, StreakOnALaterDay DEF LastStanding
  <1>4. Streak(summary.practice, summary.day) \in Nat
    BY <1>1, StreakOrNone
  <1> QED BY <1>1, <1>2, <1>3, <1>4

\* Whatever happens around the two queries of compute_summary and however late it
\* reads the clock, it answers with the streak of the moment the dates were read
\* as long as no day without practice has ended since, and with none from then on;
\* the streak is no longer than the practice_count beside it and the speeches
\* committed between the queries.
THEOREM SummaryIsHonest == Spec => SummaryIsConsistent
  <1> QED BY NextAnswer, ProgressInvariant, PTL DEF Spec, SummaryIsConsistent

LEMMA TheRun == ProgressInv => StreakIsTheRun
  <1> SUFFICES ASSUME ProgressInv PROVE StreakIsTheRun
    OBVIOUS
  <1> DEFINE days == PracticeDates
             end == StreakEnd(days, today)
             n == Streak(days, today)
  <1>1. today \in Nat /\ days \in SUBSET 0..today
    BY PracticeIsPast DEF ProgressInv
  <1>2. InARowUpTo(days, end, n) /\ n <= end + 1 /\ n \in Nat /\ end \in Int
    BY <1>1, RunIsTheStreak, StreakOrNone DEF StreakEnd
  <1> HIDE DEF days, n, end
  <1>3. n \in InARow(days, end)
    BY <1>2 DEF InARow, InARowUpTo
  <1>4. ASSUME NEW k \in InARow(days, end) PROVE k <= n
    <2>1. k \in 0..end + 1 /\ (end - k + 1)..end \subseteq days
      BY DEF InARow
    <2>2. n < k => end - n \in (end - k + 1)..end
      BY <1>2, <2>1
    <2> QED BY <1>2, <2>1, <2>2 DEF InARowUpTo
  <1>5. \A k \in InARow(days, end) : k \in Int
    BY DEF InARow
  <1>6. n = Max(InARow(days, end))
    <2> DEFINE max == Max(InARow(days, end))
    <2>1. n >= n /\ \A k \in InARow(days, end) : n >= k
      BY <1>2, <1>4, <1>5
    <2>2. max \in InARow(days, end) /\ \A k \in InARow(days, end) : max >= k
      BY <1>3, <2>1 DEF Max
    <2>3. max \in Int /\ n >= max /\ max >= n
      BY <1>3, <1>5, <2>1, <2>2
    <2> HIDE DEF max
    <2>4. n = max
      BY <1>2, <2>3
    <2> QED BY <2>4 DEF max
  <1> QED BY <1>6 DEF StreakIsTheRun, days, n, end, StreakEnd

\* _compute_streak finds the longest run of practice days that ends today or
\* yesterday, for every set of dates that the rows can make up.
THEOREM StreakIsTheLongest == Spec => []StreakIsTheRun
  <1> QED BY TheRun, ProgressInvariant, PTL

LEMMA NextStreak ==
  ProgressInv /\ [Next]_vars =>
    (Streak(PracticeDates, today)' < Streak(PracticeDates, today) =>
       \/ ~(RunDays(PracticeDates, today) \subseteq PracticeDates')
       \/ today' = today + 1 /\ today - 1 \in PracticeDates /\ today \notin PracticeDates)
  <1> SUFFICES ASSUME ProgressInv, [Next]_vars,
                      Streak(PracticeDates', today') < Streak(PracticeDates, today),
                      RunDays(PracticeDates, today) \subseteq PracticeDates'
               PROVE  today' = today + 1 /\ today - 1 \in PracticeDates /\ today \notin PracticeDates
    OBVIOUS
  <1>1. ProgressInv'
    BY NextProgress
  <1>2. today \in Nat /\ PracticeDates \in SUBSET 0..today
    BY PracticeIsPast DEF ProgressInv
  <1>3. today' \in Nat /\ PracticeDates' \in SUBSET 0..today'
    BY <1>1, NumbersArePositive
    DEF ProgressInv, TypeOK, DatesArePast, Dates, Speech, PracticeDates, Completed
  <1>4. today' = today \/ (today' = today + 1 /\ PracticeDates' = PracticeDates)
    BY DEF Next, NextDay, Finish, FinishCommit, Fail, Leave, Count, ReadDates, Answer, Close,
           vars, PracticeDates, Completed
  <1>5. /\ Streak(PracticeDates, today) \in Nat
        /\ Streak(PracticeDates', today') \in Nat
    BY <1>2, <1>3, StreakOrNone
  <1>6. today' # today
    <2> SUFFICES ASSUME today' = today PROVE FALSE
      OBVIOUS
    <2>1. Streak(PracticeDates, today) <= Streak(PracticeDates', today)
      BY <1>2, <1>3, StreakHolds
    <2> QED BY <1>5, <2>1
  <1>7. today' = today + 1 /\ PracticeDates' = PracticeDates
    BY <1>4, <1>6
  <1>8. Streak(PracticeDates, today + 1) \in {0, Streak(PracticeDates, today)}
    <2>1. today + 1 \in Nat /\ today <= today + 1
      BY <1>2
    <2> QED BY <1>2, <2>1, StreakOnALaterDay
  <1>9. Streak(PracticeDates, today + 1) = 0 /\ Streak(PracticeDates, today) # 0
    BY <1>5, <1>7, <1>8
  <1>10. today \notin PracticeDates
    <2>1. today + 1 \notin PracticeDates
      BY <1>2
    <2>2. StreakEnd(PracticeDates, today + 1) = today
      BY <1>2, <2>1 DEF StreakEnd
    <2> QED BY <1>2, <1>3, <1>7, <1>9, <2>2, StreakOrNone
  <1>11. today - 1 \in PracticeDates
    <2>1. StreakEnd(PracticeDates, today) = today - 1
      BY <1>10 DEF StreakEnd
    <2> QED BY <1>2, <1>9, <2>1, StreakOrNone
  <1> QED BY <1>7, <1>10, <1>11

\* A step makes the streak shorter only by taking a day of the run away, or by
\* ending a day without practice: a commit, on whatever day it comes, never does,
\* nor does the loss of a speech of any other day.
THEOREM StreakBreaks == Spec => StreakBreaksByAMissedDay
  <1> QED BY NextStreak, ProgressInvariant, PTL DEF Spec, StreakBreaksByAMissedDay
-----------------------------------------------------------------------------
(* compute_dimension_trends *)

\* A finite set can be laid out by any key, whatever the ties.
LEMMA Sortable ==
  ASSUME NEW S, IsFiniteSet(S), NEW key \in [S -> Int]
  PROVE  \E rows \in SetToSeqs(S) :
           /\ rows \in Seq(S) /\ Len(rows) = Cardinality(S)
           /\ \A i, j \in 1..Len(rows) : i < j => key[rows[i]] <= key[rows[j]]
  <1> DEFINE n == Cardinality(S)
  <1>1. n \in Nat /\ ExistsBijection(1..n, S)
    BY FS_CardinalityType
  <1>2. PICK b \in [1..n -> S] : /\ \A i, j \in 1..n : b[i] = b[j] => i = j
                                 /\ \A x \in S : \E i \in 1..n : b[i] = x
    BY <1>1 DEF ExistsBijection, Bijection, Injection, IsInjective, Surjection
  <1>3. IsFiniteSet(1..n) /\ Cardinality(1..n) = n
    BY <1>1, FS_Interval
  <1> DEFINE c == [i \in 1..n |-> key[b[i]]]
             Before(i) == {j \in 1..n : c[j] < c[i] \/ (c[j] = c[i] /\ j <= i)}
             rank == [i \in 1..n |-> Cardinality(Before(i))]
  <1>4. c \in [1..n -> Int]
    BY <1>2
  <1>5. \A i \in 1..n : c[i] = key[b[i]]
    OBVIOUS
  <1> HIDE DEF c, n
  <1>6. ASSUME NEW i \in 1..n, NEW j \in 1..n, c[i] < c[j] \/ (c[i] = c[j] /\ i < j)
        PROVE  rank[i] < rank[j]
    <2>1. i \in Nat /\ j \in Nat /\ c[i] \in Int /\ c[j] \in Int /\ \A k \in 1..n : c[k] \in Int
      BY <1>1, <1>4
    <2>2. Before(i) \in SUBSET Before(j)
      <3> SUFFICES ASSUME NEW k \in 1..n, c[k] < c[i] \/ (c[k] = c[i] /\ k <= i)
                   PROVE  c[k] < c[j] \/ (c[k] = c[j] /\ k <= j)
        OBVIOUS
      <3>1. c[k] \in Int /\ k \in Nat
        BY <1>1, <1>4
      <3> QED BY <1>6, <2>1, <3>1
    <2>3. j \in Before(j) /\ j \notin Before(i)
      BY <1>6, <2>1
    <2>4. IsFiniteSet(Before(j))
      BY <1>3, FS_Subset
    <2> HIDE DEF Before
    <2>5. Cardinality(Before(i)) < Cardinality(Before(j))
      BY <2>2, <2>3, <2>4, FewerIn
    <2> QED BY <2>5
  <1>7. \A i \in 1..n : Cardinality(Before(i)) \in 1..n
    <2> SUFFICES ASSUME NEW i \in 1..n PROVE Cardinality(Before(i)) \in 1..n
      OBVIOUS
    <2>1. Before(i) \in SUBSET (1..n) /\ i \in Before(i)
      BY <1>1, <1>4
    <2> HIDE DEF Before
    <2>2. PICK T \in SUBSET (1..n) : T = Before(i) /\ i \in T
      BY <2>1
    <2>3. IsFiniteSet(T) /\ Cardinality(T) <= Cardinality(1..n)
      BY <1>3, FS_Subset
    <2>4. Cardinality(T) \in Nat /\ Cardinality(T) # 0
      BY <2>2, <2>3, FS_CardinalityType, FS_EmptySet
    <2> QED BY <1>1, <1>3, <2>2, <2>3, <2>4
  <1>8. rank \in [1..n -> 1..n]
    BY <1>7
  <1> HIDE DEF rank
  <1>9. \A i, j \in 1..n : rank[i] = rank[j] => i = j
    <2> SUFFICES ASSUME NEW i \in 1..n, NEW j \in 1..n, i # j PROVE rank[i] # rank[j]
      OBVIOUS
    <2>1. i \in Nat /\ j \in Nat /\ c[i] \in Int /\ c[j] \in Int
      BY <1>1, <1>4
    <2>3. rank[i] \in 1..n /\ rank[j] \in 1..n
      BY <1>8
    <2>4. rank[i] \in Nat /\ rank[j] \in Nat
      BY <1>1, <2>3
    <2>2. \/ c[i] < c[j] \/ (c[i] = c[j] /\ i < j)
          \/ c[j] < c[i] \/ (c[j] = c[i] /\ j < i)
      BY <2>1
    <2>5. rank[i] < rank[j] \/ rank[j] < rank[i]
      BY <1>6, <2>2
    <2> QED BY <2>4, <2>5
  <1>10. \A r \in 1..n : \E i \in 1..n : rank[i] = r
    <2>1. rank \in [1..n -> 1..Cardinality(1..n)]
      BY <1>3, <1>8
    <2>2. \A r \in 1..Cardinality(1..n) : \E i \in 1..n : rank[i] = r
      BY <1>3, <1>9, <2>1, RanksAreAllTaken
    <2> QED BY <1>3, <2>2
  <1> DEFINE at == [r \in 1..n |-> CHOOSE i \in 1..n : rank[i] = r]
             rows == [r \in 1..n |-> b[at[r]]]
  <1>11. \A r \in 1..n : at[r] \in 1..n /\ rank[at[r]] = r
    BY <1>10
  <1> HIDE DEF at
  <1>12. rows \in [1..n -> S] /\ \A r \in 1..n : rows[r] = b[at[r]]
    BY <1>2, <1>11
  <1>13. rows \in Seq(S) /\ Len(rows) = n
    <2> HIDE DEF rows
    <2>1. rows \in Seq(S)
      BY <1>1, <1>12, SeqDef
    <2>2. DOMAIN rows = 1..n /\ DOMAIN rows = 1..Len(rows) /\ Len(rows) \in Nat
      BY <1>12, <2>1, LenProperties
    <2> QED BY <1>1, <2>1, <2>2
  <1> HIDE DEF rows
  <1>14. \A r, q \in 1..n : r # q => rows[r] # rows[q]
    BY <1>2, <1>11, <1>12
  <1>15. \A r, q \in 1..n : r < q => key[rows[r]] <= key[rows[q]]
    <2> SUFFICES ASSUME NEW r \in 1..n, NEW q \in 1..n, r < q PROVE key[rows[r]] <= key[rows[q]]
      OBVIOUS
    <2>1. c[at[r]] \in Int /\ c[at[q]] \in Int /\ at[r] \in 1..n /\ at[q] \in 1..n
      BY <1>4, <1>11
    <2>2. ~(c[at[q]] < c[at[r]])
      <3> SUFFICES ASSUME c[at[q]] < c[at[r]] PROVE FALSE
        OBVIOUS
      <3>1. rank[at[q]] < rank[at[r]]
        BY <1>6, <2>1
      <3>2. q < r
        BY <1>11, <3>1
      <3> QED BY <1>1, <3>2
    <2> QED BY <1>5, <1>12, <2>1, <2>2
  <1>16. rows \in SetToSeqs(S)
    BY <1>12, <1>14 DEF SetToSeqs, n
  <1> QED BY <1>13, <1>15, <1>16 DEF n

\* The query returns every completed row once, in the order of the dates.
LEMMA RowsAreSorted ==
  ASSUME TypeOK
  PROVE  LET n == Cardinality(Completed)
         IN /\ n \in Nat
            /\ Rows \in Seq(Completed) /\ Len(Rows) = n
            /\ \A i \in 1..n : Rows[i] \in Completed
            /\ \A i, j \in 1..n : Rows[i] = Rows[j] => i = j
            /\ \A s \in Completed : \E i \in 1..n : Rows[i] = s
            /\ \A i, j \in 1..n : i < j => speech[Rows[i]].date <= speech[Rows[j]].date
  <1> DEFINE n == Cardinality(Completed)
             key == [s \in Completed |-> speech[s].date]
             Sorts(rows) == \A i, j \in 1..Len(rows) :
                              i < j => speech[rows[i]].date <= speech[rows[j]].date
  <1>1. IsFiniteSet(Completed) /\ n \in Nat
    BY SpeechesAreFinite, FS_Subset, FS_CardinalityType DEF Completed
  <1>2. key \in [Completed -> Int]
    BY NumbersArePositive DEF TypeOK, Speech, Dates, Completed
  <1>3. \A s \in Completed : key[s] = speech[s].date
    OBVIOUS
  <1> HIDE DEF key, n
  <1>4. PICK rows \in SetToSeqs(Completed) :
          /\ rows \in Seq(Completed) /\ Len(rows) = Cardinality(Completed)
          /\ \A i, j \in 1..Len(rows) : i < j => key[rows[i]] <= key[rows[j]]
    BY <1>1, <1>2, Sortable
  <1>5. Sorts(rows)
    <2>1. \A i \in 1..Len(rows) : rows[i] \in Completed
      BY <1>4, ElementOfSeq
    <2> QED BY <1>3, <1>4, <2>1
  <1>6. Rows \in SetToSeqs(Completed) /\ Sorts(Rows)
    BY <1>4, <1>5 DEF Rows
  <1>7. /\ Rows \in [1..n -> Completed]
        /\ \A i, j \in 1..n : i # j => Rows[i] # Rows[j]
    BY <1>6 DEF SetToSeqs, n
  <1>8. Rows \in Seq(Completed) /\ Len(Rows) = n
    <2>1. Rows \in Seq(Completed)
      BY <1>1, <1>7, SeqDef
    <2>2. DOMAIN Rows = 1..n /\ DOMAIN Rows = 1..Len(Rows) /\ Len(Rows) \in Nat
      BY <1>7, <2>1, LenProperties
    <2> QED BY <1>1, <2>1, <2>2
  <1>9. \A s \in Completed : \E i \in 1..n : Rows[i] = s
    <2>1. IsFiniteSet(1..n) /\ Cardinality(1..n) = n
      BY <1>1, FS_Interval
    <2>2. Rows \in Injection(1..n, Completed)
      BY <1>7 DEF Injection, IsInjective
    <2>3. Rows \in Surjection(1..n, Completed)
      BY <1>1, <2>1, <2>2, FS_Injection DEF n
    <2> QED BY <2>3 DEF Surjection
  <1> QED BY <1>1, <1>6, <1>7, <1>8, <1>9 DEF n

\* A slice of rows that are all different has as many as it is long.
LEMMA SliceOf ==
  ASSUME NEW S, NEW rows \in Seq(S), \A i, j \in 1..Len(rows) : rows[i] = rows[j] => i = j,
         NEW a \in 1..Len(rows), NEW b \in a..Len(rows)
  PROVE  /\ ToSet(SubSeq(rows, a, b)) = {rows[i] : i \in a..b}
         /\ Cardinality(ToSet(SubSeq(rows, a, b))) = b - a + 1
  <1> DEFINE slice == SubSeq(rows, a, b)
             T == {rows[i] : i \in a..b}
             f == [i \in a..b |-> rows[i]]
  <1>1. Len(rows) \in Nat /\ a \in Nat /\ b \in Nat /\ a <= b /\ \A i \in a..b : i \in 1..Len(rows)
    BY LenProperties
  <1>2. \A i \in a..b : rows[i] \in S
    BY <1>1, ElementOfSeq
  <1>3. /\ slice \in Seq(S) /\ Len(slice) = b - a + 1
        /\ \A i \in 1..b - a + 1 : slice[i] = rows[a + i - 1]
    BY <1>1, <1>2, SubSeqProperties
  <1>4. DOMAIN slice = 1..b - a + 1
    BY <1>3, LenProperties
  <1> HIDE DEF slice
  <1>5. ToSet(slice) = T
    <2>1. ASSUME NEW i \in 1..b - a + 1 PROVE slice[i] \in T
      <3>1. a + i - 1 \in a..b
        BY <1>1
      <3> QED BY <1>3, <3>1
    <2>2. ASSUME NEW i \in a..b PROVE \E j \in 1..b - a + 1 : slice[j] = rows[i]
      <3>1. i \in Nat /\ a <= i /\ i <= b
        BY <1>1
      <3>2. i - a + 1 \in 1..b - a + 1 /\ a + (i - a + 1) - 1 = i
        BY <1>1, <3>1
      <3>3. slice[i - a + 1] = rows[a + (i - a + 1) - 1]
        BY <1>3, <3>2
      <3> QED BY <3>2, <3>3
    <2>3. ToSet(slice) = {slice[i] : i \in 1..b - a + 1}
      BY <1>4 DEF ToSet
    <2>4. \A x \in ToSet(slice) : x \in T
      BY <2>1, <2>3
    <2>5. \A x \in T : x \in ToSet(slice)
      BY <2>2, <2>3
    <2> HIDE DEF T
    <2> QED BY <2>4, <2>5
  <1>6. IsFiniteSet(a..b) /\ Cardinality(a..b) = b - a + 1
    BY <1>1, FS_Interval
  <1>7. f \in Bijection(a..b, T)
    <2>1. f \in [a..b -> T] /\ \A t \in T : \E i \in a..b : f[i] = t
      OBVIOUS
    <2>2. \A i, j \in a..b : f[i] = f[j] => i = j
      BY <1>1
    <2> QED BY <2>1, <2>2 DEF Bijection, Injection, IsInjective, Surjection
  <1>8. Cardinality(T) = Cardinality(a..b)
    BY <1>6, <1>7, FS_Bijection DEF ExistsBijection
  <1> QED BY <1>5, <1>6, <1>8 DEF slice

\* The slices are neighbours in every state of the invariant.
LEMMA TheNeighbours == ProgressInv => TrendComparesNeighbours
  <1> SUFFICES ASSUME ProgressInv, NEW k \in 1..RecentN, Enough(k)
               PROVE  LET recent == ToSet(Recent(k))
                          previous == ToSet(Previous(k))
                      IN /\ recent \cap previous = {}
                         /\ Cardinality(recent) = k /\ Cardinality(previous) = k
                         /\ \A s \in Completed \ recent : \A r \in recent : speech[s].date <= speech[r].date
                         /\ \A s \in Completed \ (recent \cup previous) : \A p \in previous :
                              speech[s].date <= speech[p].date
    BY DEF TrendComparesNeighbours
  <1> DEFINE n == Cardinality(Completed)
             recent == ToSet(Recent(k))
             previous == ToSet(Previous(k))
  <1>1. /\ n \in Nat
        /\ Rows \in Seq(Completed) /\ Len(Rows) = n
        /\ \A i \in 1..n : Rows[i] \in Completed
        /\ \A i, j \in 1..n : Rows[i] = Rows[j] => i = j
        /\ \A s \in Completed : \E i \in 1..n : Rows[i] = s
        /\ \A i, j \in 1..n : i < j => speech[Rows[i]].date <= speech[Rows[j]].date
    BY RowsAreSorted DEF ProgressInv
  <1>2. n >= 2 * k /\ k \in Nat /\ k >= 1
    BY NumbersArePositive DEF Enough
  <1> HIDE DEF n
  <1>3. \A a \in 1..Len(Rows) : \A b \in a..Len(Rows) :
          /\ ToSet(SubSeq(Rows, a, b)) = {Rows[i] : i \in a..b}
          /\ Cardinality(ToSet(SubSeq(Rows, a, b))) = b - a + 1
    <2>1. \A i, j \in 1..Len(Rows) : Rows[i] = Rows[j] => i = j
      BY <1>1
    <2> QED BY <1>1, <2>1, SliceOf
  <1>4. /\ recent = {Rows[i] : i \in (n - k + 1)..n}
        /\ Cardinality(recent) = k
    <2>1. n - k + 1 \in 1..Len(Rows) /\ n \in (n - k + 1)..Len(Rows)
      BY <1>1, <1>2
    <2>2. recent = ToSet(SubSeq(Rows, n - k + 1, n))
      BY <1>1 DEF Recent
    <2>3. /\ ToSet(SubSeq(Rows, n - k + 1, n)) = {Rows[i] : i \in (n - k + 1)..n}
          /\ Cardinality(ToSet(SubSeq(Rows, n - k + 1, n))) = n - (n - k + 1) + 1
      BY <1>3, <2>1
    <2>4. n - (n - k + 1) + 1 = k
      BY <1>1, <1>2
    <2> QED BY <2>2, <2>3, <2>4
  <1>5. /\ previous = {Rows[i] : i \in (n - 2 * k + 1)..(n - k)}
        /\ Cardinality(previous) = k
    <2>1. n - 2 * k + 1 \in 1..Len(Rows)
          /\ n - k \in (n - 2 * k + 1)..Len(Rows)
      BY <1>1, <1>2
    <2>2. previous = ToSet(SubSeq(Rows, n - 2 * k + 1, n - k))
      BY <1>1 DEF Previous
    <2>3. /\ ToSet(SubSeq(Rows, n - 2 * k + 1, n - k))
               = {Rows[i] : i \in (n - 2 * k + 1)..(n - k)}
          /\ Cardinality(ToSet(SubSeq(Rows, n - 2 * k + 1, n - k)))
               = n - k - (n - 2 * k + 1) + 1
      BY <1>3, <2>1
    <2>4. n - k - (n - 2 * k + 1) + 1 = k
      BY <1>1, <1>2
    <2> QED BY <2>2, <2>3, <2>4
  <1> HIDE DEF recent, previous
  <1>6. \A i \in (n - k + 1)..n : i \in 1..n
    BY <1>1, <1>2
  <1>7. \A i \in (n - 2 * k + 1)..(n - k) : i \in 1..n /\ i < n - k + 1
    BY <1>1, <1>2
  <1>8. recent \cap previous = {}
    <2> SUFFICES ASSUME NEW i \in (n - k + 1)..n,
                        NEW j \in (n - 2 * k + 1)..(n - k), Rows[i] = Rows[j]
                 PROVE  FALSE
      BY <1>4, <1>5
    <2>1. i = j
      BY <1>1, <1>6, <1>7
    <2> QED BY <1>1, <1>2, <1>7, <2>1
  <1>9. ASSUME NEW s \in Completed \ recent, NEW r \in recent
        PROVE  speech[s].date <= speech[r].date
    <2>1. PICK i \in 1..n : Rows[i] = s
      BY <1>1
    <2>2. PICK j \in (n - k + 1)..n : Rows[j] = r
      BY <1>4
    <2>3. i \notin (n - k + 1)..n
      BY <1>4, <2>1
    <2>4. i < j /\ j \in 1..n
      BY <1>1, <1>2, <2>3
    <2> QED BY <1>1, <2>1, <2>2, <2>4
  <1>10. ASSUME NEW s \in Completed \ (recent \cup previous), NEW p \in previous
        PROVE  speech[s].date <= speech[p].date
    <2>1. PICK i \in 1..n : Rows[i] = s
      BY <1>1
    <2>2. PICK j \in (n - 2 * k + 1)..(n - k) : Rows[j] = p
      BY <1>5
    <2>3. i \notin (n - k + 1)..n /\ i \notin (n - 2 * k + 1)..(n - k)
      BY <1>4, <1>5, <2>1
    <2>4. i < j /\ j \in 1..n
      BY <1>1, <1>2, <2>3
    <2> QED BY <1>1, <2>1, <2>2, <2>4
  <1> QED BY <1>4, <1>5, <1>8, <1>9, <1>10 DEF recent, previous

\* A trend is of the recent_n newest rows and of as many just before them, for
\* every recent_n and however the rows of one date are ordered.
THEOREM TrendIsOfNeighbours == Spec => []TrendComparesNeighbours
  <1> QED BY TheNeighbours, ProgressInvariant, PTL
=============================================================================
