------------------------------- MODULE Usage -------------------------------
(***************************************************************************)
(* The monthly quota: app/services/usage.py, called by every speech        *)
(* request before any work is done.                                        *)
(*                                                                         *)
(* try_consume_speech works in three transactions: it computes the period  *)
(* and the limits of the plan it has loaded, makes sure the counter row    *)
(* exists (computing the period again), and counts with one conditional    *)
(* UPDATE.  Other requests, the calendar and changes of plan come between. *)
(***************************************************************************)
EXTENDS Integers, FiniteSets

CONSTANTS
  Users,           \* user accounts
  Requests,        \* speech submissions
  Plans,           \* PlanEnum
  UnlimitedPlans,  \* the plans whose PlanLimits are None
  SpeechLimit,     \* max_speech_per_month of the other plans
  SecondsLimit,    \* max_audio_seconds_per_month of the other plans
  AudioSeconds,    \* the estimated durations of an upload (0: a text)
  LastMonth        \* bound: the calendar stops here

Months == 0..LastMonth
LimitedPlans == Plans \ UnlimitedPlans

ASSUME RequestsAreFinite == IsFiniteSet(Requests)
ASSUME LimitsAreNatural == /\ SpeechLimit \in [LimitedPlans -> Nat]
                           /\ SecondsLimit \in [LimitedPlans -> Nat]
ASSUME SecondsAreNatural == AudioSeconds \subseteq Nat
ASSUME LastMonthIsNatural == LastMonth \in Nat

VARIABLES
  month,    \* the calendar
  plan,     \* users.plan (written by the billing and admin routers)
  counter,  \* the usage_counters table: one row per user and period
  req       \* the sessions of the requests

vars == <<month, plan, counter, req>>

Counter == [exists : {"no", "yes"}, speech : Nat, seconds : Nat]
Request == [pc : {"idle", "started", "ensured", "granted", "denied", "dead"},
            user : Users, plan : Plans, start : Months, seconds : AudioSeconds]

TypeOK == /\ month \in Months
          /\ plan \in [Users -> Plans]
          /\ counter \in [Users -> [Months -> Counter]]
          /\ req \in [Requests -> Request]

Init == /\ month = 0
        /\ plan \in [Users -> Plans]
        /\ counter = [u \in Users |-> [m \in Months |-> [exists |-> "no", speech |-> 0, seconds |-> 0]]]
        /\ req \in [Requests -> {r \in Request : /\ r.pc = "idle" /\ r.start = 0
                                               /\ r.plan = plan[r.user]}]

-----------------------------------------------------------------------------
NextMonth == /\ month < LastMonth
             /\ month' = month + 1
             /\ UNCHANGED <<plan, counter, req>>

\* The plan changes under the feet of the requests that have loaded it.
PlanChanges(u, p) == /\ plan' = [plan EXCEPT ![u] = p]
                     /\ UNCHANGED <<month, counter, req>>

\* The session has loaded the user; limits and start are computed.
Start(r) == /\ req[r].pc = "idle"
            /\ req' = [req EXCEPT ![r].pc = "started", ![r].start = month,
                                  ![r].plan = plan[req[r].user]]
            /\ UNCHANGED <<month, plan, counter>>

\* Mutation of EnsureRow: ON CONFLICT DO UPDATE with the fresh row's zeros.
EnsureRowResets(r) ==
  /\ req[r].pc = "started"
  /\ counter' = [counter EXCEPT ![req[r].user][month] = [exists |-> "yes", speech |-> 0, seconds |-> 0]]
  /\ req' = [req EXCEPT ![r].pc = "ensured"]
  /\ UNCHANGED <<month, plan>>

\* INSERT ... ON CONFLICT DO NOTHING, for the period it is by now.
EnsureRow(r) == /\ req[r].pc = "started"
                /\ counter' = [counter EXCEPT ![req[r].user][month].exists = "yes"]
                /\ req' = [req EXCEPT ![r].pc = "ensured"]
                /\ UNCHANGED <<month, plan>>

Row(r) == counter[req[r].user][req[r].start]
\* Mutation of Room: <= where the count must stay below the limit.
RoomOffByOne(r) == req[r].plan \notin UnlimitedPlans =>
                     /\ Row(r).speech <= SpeechLimit[req[r].plan]
                     /\ Row(r).seconds + req[r].seconds <= SecondsLimit[req[r].plan]

Room(r) == req[r].plan \notin UnlimitedPlans =>
             /\ Row(r).speech < SpeechLimit[req[r].plan]
             /\ Row(r).seconds + req[r].seconds <= SecondsLimit[req[r].plan]

\* UPDATE ... WHERE the row exists and has room, RETURNING the new counts.
Grant(r) ==
  /\ req[r].pc = "ensured"
  /\ Row(r).exists = "yes" /\ Room(r)
  /\ counter' = [counter EXCEPT ![req[r].user][req[r].start] =
                   [exists |-> "yes", speech |-> @.speech + 1,
                    seconds |-> @.seconds + req[r].seconds]]
  /\ req' = [req EXCEPT ![r].pc = "granted"]
  /\ UNCHANGED <<month, plan>>

\* Mutation of Deny: the seconds that exactly fill the limit are refused.
DenyAtTheLimit(r) ==
  /\ req[r].pc = "ensured" /\ req[r].plan \notin UnlimitedPlans
  /\ Row(r).seconds + req[r].seconds >= SecondsLimit[req[r].plan]
  /\ req' = [req EXCEPT ![r].pc = "denied"]
  /\ UNCHANGED <<month, plan, counter>>

\* The UPDATE matched nothing: 402, "this month's quota is exhausted".
Deny(r) ==
  /\ req[r].pc = "ensured"
  /\ ~(Row(r).exists = "yes" /\ Room(r))
  /\ req' = [req EXCEPT ![r].pc = "denied"]
  /\ UNCHANGED <<month, plan, counter>>

\* The process dies between two transactions.
Die(r) == /\ req[r].pc \in {"started", "ensured"}
          /\ req' = [req EXCEPT ![r].pc = "dead"]
          /\ UNCHANGED <<month, plan, counter>>

Next == \/ NextMonth
        \/ \E u \in Users, p \in Plans : PlanChanges(u, p)
        \/ \E r \in Requests : Start(r) \/ EnsureRow(r) \/ Grant(r) \/ Deny(r) \/ Die(r)

Spec == Init /\ [][Next]_vars

-----------------------------------------------------------------------------
(* Properties *)

Granted(u, m) == {r \in Requests : req[r].pc = "granted" /\ req[r].user = u /\ req[r].start = m}

\* models.py: increments are atomic.  No race of two requests loses or doubles
\* one: the count is the number of requests that were let through.
CountIsExact ==
  \A u \in Users, m \in Months : counter[u][m].speech = Cardinality(Granted(u, m))

\* A month never counts more than the largest limit some request of that month
\* was checked against, however many requests and plan changes race.
WithinTheLimit ==
  \A u \in Users, m \in Months :
    \/ Granted(u, m) = {}
    \/ \E r \in Granted(u, m) : \/ req[r].plan \in UnlimitedPlans
                                \/ /\ counter[u][m].speech <= SpeechLimit[req[r].plan]
                                   /\ counter[u][m].seconds <= SecondsLimit[req[r].plan]

\* speech_service.py answers a denial with "this month's quota is exhausted":
\* where the row is there a denied request had no room in its period.  (A row
\* that was missing at the denial is for a month that has ended: see EnsureRow.)
DenialsAreExplained ==
  \A r \in Requests : req[r].pc = "denied" /\ Row(r).exists = "yes" => ~Room(r)

-----------------------------------------------------------------------------
\* The inductive invariant behind the three.

\* A period is one that was current, and a request whose row is missing after
\* EnsureRow has seen the month turn.
PeriodsAreReal ==
  \A r \in Requests :
    /\ req[r].start <= month
    /\ req[r].pc \in {"ensured", "granted", "denied"} =>
         Row(r).exists = "yes" \/ req[r].start < month

QuotaInv == TypeOK /\ PeriodsAreReal /\ CountIsExact /\ WithinTheLimit /\ DenialsAreExplained
=============================================================================
