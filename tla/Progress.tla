------------------------------ MODULE Progress ------------------------------
(***************************************************************************)
(* The progress of one user, app/services/progress_engine.py: the streak   *)
(* of practice days, the summary that two queries and the clock make up,   *)
(* and the rows that the trend of a dimension compares.                    *)
(*                                                                         *)
(* The speeches are what SpeechPipeline leaves: completed_at is read from  *)
(* the clock before the commit that shows it, a completed speech may be    *)
(* deleted, and a slower executor may set it failed afterwards.  Only the  *)
(* UTC date of completed_at is kept; rows of one date come in any fixed    *)
(* order.  The scores and their averages are left out.                     *)
(***************************************************************************)
EXTENDS Integers, Sequences, FiniteSets, SequencesExt

CONSTANTS
  Speeches,  \* rows of the user: a bound
  LastDay,   \* bound: the calendar stops here
  RecentN    \* bound: the largest recent_n asked of compute_dimension_trends

ASSUME SpeechesAreFinite == IsFiniteSet(Speeches)
ASSUME NumbersArePositive == LastDay \in Nat \ {0} /\ RecentN \in Nat \ {0}

VARIABLES
  today,    \* the UTC date
  speech,   \* the rows, as far as the progress engine looks at them
  summary   \* a request for the summary

vars == <<today, speech, summary>>

Dates == 0..LastDay
Speech == [status : {"open", "finishing", "completed", "failed"}, date : Dates]
Summary == [pc : {"idle", "counted", "dated", "answered"},
            count : Nat,              \* practice_count, the length of the rows read
            dates : SUBSET Dates,     \* the dates read
            streak : Nat,             \* current_streak_days, once answered
            \* history:
            gained : SUBSET Speeches, \* committed since the rows were read
            most : Nat,               \* count, and those gained up to the dates
            day : Dates,              \* the day on which the dates were read ...
            practice : SUBSET Dates]  \* ... and the practice dates of then

TypeOK == /\ today \in Dates
          /\ speech \in [Speeches -> Speech]
          /\ summary \in Summary

NoSpeech == [status |-> "open", date |-> 0]
Idle == [pc |-> "idle", count |-> 0, dates |-> {}, streak |-> 0,
         gained |-> {}, most |-> 0, day |-> 0, practice |-> {}]

Init == /\ today = 0
        /\ speech = [s \in Speeches |-> NoSpeech]
        /\ summary = Idle

-----------------------------------------------------------------------------
(* _compute_streak *)

Completed == {s \in Speeches : speech[s].status = "completed"}
PracticeDates == {speech[s].date : s \in Completed}

\* sorted(..., reverse=True): the i-th is the one that i dates are not before.
Descending(days) ==
  [i \in 1..Cardinality(days) |-> CHOOSE d \in days : Cardinality({x \in days : x >= d}) = i]

\* The loop over the dates counts up to the first that the day before does not follow.
Run(dates) == Min({i \in 1..Len(dates) : i = Len(dates) \/ dates[i + 1] # dates[i] - 1})

\* Mutation of Streak: yesterday's practice does not count before today's.
StreakTodayOnly(days, day) ==
  LET dates == Descending(days) IN
  IF days = {} \/ dates[1] # day THEN 0 ELSE Run(dates)

\* Mutation of Streak: the latest run counts however old it is.
StreakOfTheLatest(days, day) == IF days = {} THEN 0 ELSE Run(Descending(days))

Streak(days, day) ==
  LET dates == Descending(days) IN
  IF days = {} \/ dates[1] \notin {day, day - 1} THEN 0 ELSE Run(dates)

-----------------------------------------------------------------------------
NextDay == /\ today < LastDay
           /\ today' = today + 1
           /\ UNCHANGED <<speech, summary>>

Finish(s) == /\ speech[s].status \in {"open", "failed"}
             /\ speech' = [speech EXCEPT ![s] = [status |-> "finishing", date |-> today]]
             /\ UNCHANGED <<today, summary>>

FinishCommit(s) == /\ speech[s].status = "finishing"
                   /\ speech' = [speech EXCEPT ![s].status = "completed"]
                   /\ summary' = IF summary.pc = "counted"
                                  THEN [summary EXCEPT !.gained = @ \cup {s}] ELSE summary
                   /\ UNCHANGED today

\* The slower executor reports its failure; completed_at stays.
Fail(s) == /\ speech[s].status = "completed"
           /\ speech' = [speech EXCEPT ![s].status = "failed"]
           /\ UNCHANGED <<today, summary>>

\* The commit does not come about, or the speech is deleted.
Leave(s) == /\ speech[s].status # "open"
            /\ speech' = [speech EXCEPT ![s] = NoSpeech]
            /\ UNCHANGED <<today, summary>>

-----------------------------------------------------------------------------
(* compute_summary: the rows, then the dates, then the clock *)

Count == /\ summary.pc = "idle"
         /\ summary' = [Idle EXCEPT !.pc = IF Completed = {} THEN "answered" ELSE "counted",
                                    !.count = Cardinality(Completed)]
         /\ UNCHANGED <<today, speech>>

\* What is known once the dates have been read.
DatesRead == [summary EXCEPT !.pc = "dated", !.dates = PracticeDates,
                             !.gained = {}, !.most = summary.count + Cardinality(summary.gained),
                             !.day = today, !.practice = PracticeDates]

\* Mutation of ReadDates: a speech that was set failed keeps its completed_at.
ReadDatesUnfiltered ==
  /\ summary.pc = "counted"
  /\ summary' = [DatesRead EXCEPT
                   !.dates = {speech[s].date : s \in {x \in Speeches : speech[x].status \in {"completed", "failed"}}}]
  /\ UNCHANGED <<today, speech>>

ReadDates == /\ summary.pc = "counted"
             /\ summary' = DatesRead
             /\ UNCHANGED <<today, speech>>

Answer == /\ summary.pc = "dated"
          /\ summary' = [Idle EXCEPT !.pc = "answered", !.count = summary.count,
                                     !.streak = Streak(summary.dates, today)]
          /\ UNCHANGED <<today, speech>>

Close == /\ summary.pc = "answered"
         /\ summary' = Idle
         /\ UNCHANGED <<today, speech>>

Next == \/ NextDay
        \/ \E s \in Speeches : Finish(s) \/ FinishCommit(s) \/ Fail(s) \/ Leave(s)
        \/ Count \/ ReadDates \/ Answer \/ Close

Spec == Init /\ [][Next]_vars

-----------------------------------------------------------------------------
(* compute_dimension_trends: the two ends of rows[-2n:-n] and rows[-n:] *)

Rows == CHOOSE rows \in SetToSeqs(Completed) :
          \A i, j \in 1..Len(rows) : i < j => speech[rows[i]].date <= speech[rows[j]].date
Enough(n) == Cardinality(Completed) >= 2 * n
Recent(n) == LET rows == Rows IN SubSeq(rows, Len(rows) - n + 1, Len(rows))

\* Mutation of Previous: one row off.
PreviousOverlaps(n) ==
  LET rows == Rows IN SubSeq(rows, Len(rows) - 2 * n + 2, Len(rows) - n + 1)

Previous(n) == LET rows == Rows IN SubSeq(rows, Len(rows) - 2 * n + 1, Len(rows) - n)

-----------------------------------------------------------------------------
(* Properties *)

\* The days of practice in a row up to the given one.
InARow(days, day) == {n \in 0..day + 1 : (day - n + 1)..day \subseteq days}

\* Where a streak ends: today, or yesterday as long as nothing was practised today.
StreakEnd(days, day) == IF day \in days THEN day ELSE day - 1

\* _compute_streak finds the longest run of practice days that ends there.
StreakIsTheRun ==
  Streak(PracticeDates, today) = Max(InARow(PracticeDates, StreakEnd(PracticeDates, today)))

\* The days that the streak counts.
RunDays(days, day) == (StreakEnd(days, day) - Streak(days, day) + 1)..StreakEnd(days, day)

\* The streak gets shorter only when a day of the run itself loses its last
\* speech, or when a day ends that has no committed practice; completing never
\* shortens it, even if the commit comes on a later day, nor does what happens
\* to older speeches.
StreakBreaksByAMissedDay ==
  [][Streak(PracticeDates, today)' < Streak(PracticeDates, today) =>
       \/ ~(RunDays(PracticeDates, today) \subseteq PracticeDates')
       \/ today' = today + 1 /\ today - 1 \in PracticeDates /\ today \notin PracticeDates]_vars

\* The last day on which the streak read by a summary still stands.
LastStanding == IF summary.day \in summary.practice THEN summary.day + 1 ELSE summary.day

\* compute_summary makes two queries and reads the clock last.  Whatever is
\* completed, deleted or failed around them and however late the clock is read,
\* the streak it answers is the one of the moment the dates were read, or none
\* if by now a day without practice has ended since; and it is no longer than
\* the practice_count beside it, but for the speeches committed between the two
\* queries.
SummaryIsConsistent ==
  [][summary.pc = "dated" /\ summary'.pc = "answered" =>
       /\ summary'.streak = IF today <= LastStanding
                            THEN Streak(summary.practice, summary.day) ELSE 0
       /\ summary'.streak <= summary.most]_vars

\* A trend compares the newest rows with the ones just before them, and the
\* older ones with neither.
TrendComparesNeighbours ==
  \A n \in 1..RecentN : Enough(n) =>
    LET recent == ToSet(Recent(n))
        previous == ToSet(Previous(n))
    IN /\ recent \cap previous = {}
       /\ Cardinality(recent) = n /\ Cardinality(previous) = n
       /\ \A s \in Completed \ recent : \A r \in recent : speech[s].date <= speech[r].date
       /\ \A s \in Completed \ (recent \cup previous) : \A p \in previous :
            speech[s].date <= speech[p].date
=============================================================================
