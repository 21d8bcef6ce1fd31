----------------------------- MODULE RateProofs -----------------------------
(***************************************************************************)
(* Theorems about RateLimiter, for any number of requests, processes and   *)
(* threads, any limit and any window.                                      *)
(***************************************************************************)
EXTENDS RateLimiter, FiniteSetTheorems, SequenceTheorems, TLAPS

(* The inductive invariant *)

Started == {r \in Requests : ~At(r, "idle")}

\* No time lies ahead, and the key lives for one window after its last use.
TimesArePast == ttl <= now + Window /\ \A r \in Requests : req[r].at <= now

FiniteSoFar == IsFiniteSet(zset) /\ IsFiniteSet(Started)

\* A call knows which window it asks, and has kept nothing before it lists.
CallsAreInOrder ==
  \A r \in Requests :
    /\ req[r].pc \in {"idle", "sending"} => req[r].i = 0 /\ req[r].kept = <<>>
    /\ req[r].pc = "sending" => req[r].via = "redis"
    /\ req[r].pc \in {"listing", "checking", "appending"} => req[r].via = "memory"

\* A request is in the sorted set once at most, and only after it was sent.
EntriesAreRequests ==
  /\ \A e \in zset : req[e.by].pc \notin {"idle", "sending"} /\ e.at <= req[e.by].at
  /\ \A e, f \in zset : e.by = f.by => e = f

\* Redis still has every request that passed, for a window after it read the clock
\* and was executed.
RedisRemembers ==
  \A r \in Requests :
    At(r, "passed") /\ req[r].via = "redis" =>
      /\ req[r].done + Window <= ttl
      /\ now < req[r].at + Window /\ now < req[r].done + Window => Mine(r) \in zset

\* The entries of a list, and that no request is in it twice.
Entries(list) == {list[j] : j \in DOMAIN list}
Distinct(list) == \A j, k \in DOMAIN list : list[j].by = list[k].by => j = k

PassedIn(p) == {r \in Requests : At(r, "passed") /\ req[r].via = "memory" /\ req[r].process = p}

\* The list of a process holds requests that passed there, each once.
ListIsOfPassed(p) ==
  /\ \A e \in Entries(memory[p]) : e.by \in PassedIn(p) /\ e = Mine(e.by)
  /\ Distinct(memory[p])

\* It has all those that are still in the window: of the clock when nobody
\* works on it, of the request that does otherwise.
ListRemembers(p) ==
  \A q \in PassedIn(p) :
    /\ Listing(p) = {} /\ now < req[q].at + Window => Mine(q) \in Entries(memory[p])
    /\ \A r \in Listing(p) : req[r].at < req[q].at + Window => Mine(q) \in Entries(memory[p])

\* The comprehension has kept the recent ones of those it has visited; after the
\* assignment there are no others, and after the check there is room.
Works(r) ==
  /\ At(r, "listing") =>
       /\ req[r].i <= Len(List(r))
       /\ Distinct(req[r].kept)
       /\ \A e \in Entries(req[r].kept) : Recent(r, e) /\ \E j \in 1..req[r].i : e = List(r)[j]
       /\ \A j \in 1..req[r].i : Recent(r, List(r)[j]) => List(r)[j] \in Entries(req[r].kept)
  /\ req[r].pc \in {"checking", "appending"} => \A e \in Entries(List(r)) : Recent(r, e)
  /\ At(r, "appending") => Len(List(r)) < MaxAllowed

\* A process whose calls have come one by one.
InTurn(p) ==
  /\ \A x, y \in Listing(p) : x = y
  /\ ListIsOfPassed(p)
  /\ ListRemembers(p)
  /\ \A r \in Listing(p) : Works(r)

ListsInTurn == \A p \in Processes \ shared : InTurn(p)

RateInv ==
  /\ TypeOK
  /\ TimesArePast
  /\ FiniteSoFar
  /\ CallsAreInOrder
  /\ EntriesAreRequests
  /\ RedisRemembers
  /\ ListsInTurn
  /\ RedisWindow
  /\ MemoryWindow
  /\ RefusalsAreEarned
-----------------------------------------------------------------------------
(* What each step does *)

\* A step of one call: everybody else stands still.
Only(r) == \A q \in Requests \ {r} : req'[q] = req[q]

LEMMA CallMoves ==
  ASSUME TypeOK, NEW r \in Requests
  PROVE  /\ req[r] \in Call /\ req[r].process \in Processes
         /\ \A x \in Call : req' = [req EXCEPT ![r] = x] =>
              req' \in [Requests -> Call] /\ req'[r] = x /\ Only(r)
  BY DEF TypeOK, Call, Only

\* The times the code adds and compares.
LEMMA Times ==
  ASSUME TypeOK
  PROVE  /\ now \in Nat /\ ttl \in Nat /\ Window \in Nat \ {0} /\ MaxTime \in Nat /\ MaxAllowed \in Nat
         /\ now \in 0..MaxTime /\ now + Window \in 0..MaxTime + Window
         /\ \A r \in Requests : /\ req[r].at \in Nat /\ req[r].done \in Nat
                                /\ req[r].at \in 0..MaxTime /\ req[r].done \in 0..MaxTime
         /\ \A e \in Stamp : e.at \in Nat /\ e.by \in Requests
  BY NumbersAreNatural DEF TypeOK, Call, Stamp

\* The entry of a request tells what it is and when it read the clock.
LEMMA MineIs ==
  ASSUME TypeOK, NEW r \in Requests
  PROVE  Mine(r) \in Stamp /\ Mine(r).by = r /\ Mine(r).at = req[r].at
  BY Times DEF Mine, Stamp

\* The list of a process, and what a call has kept of it.
LEMMA ListTypes ==
  ASSUME TypeOK
  PROVE  /\ \A p \in Processes : /\ memory[p] \in Seq(Stamp) /\ Len(memory[p]) \in Nat
                                 /\ DOMAIN memory[p] = 1..Len(memory[p])
                                 /\ Entries(memory[p]) \subseteq Stamp
         /\ \A r \in Requests : /\ req[r].kept \in Seq(Stamp) /\ req[r].i \in Nat
                                /\ DOMAIN req[r].kept = 1..Len(req[r].kept)
                                /\ Entries(req[r].kept) \subseteq Stamp
                                /\ List(r) \in Seq(Stamp)
  BY DEF TypeOK, Call, Entries, List

LEMMA AskEffect ==
  ASSUME TypeOK, NEW r \in Requests, NEW p \in Processes, Ask(r, p)
  PROVE  /\ req[r].pc = "idle" /\ Only(r) /\ req' \in [Requests -> Call]
         /\ req'[r].pc \in {"sending", "listing"} /\ req'[r].process = p /\ req'[r].at = now
         /\ req'[r].i = req[r].i /\ req'[r].kept = req[r].kept
         /\ req'[r].pc = "sending" => req'[r].via = "redis" /\ shared' = shared
         /\ req'[r].pc = "listing" => req'[r].via = "memory" /\ Share(p)
         /\ UNCHANGED <<now, connected, zset, ttl, memory>>
  <1>1. req[r] \in Call /\ now \in 0..MaxTime
    BY CallMoves, Times
  <1> DEFINE x == [req[r] EXCEPT !.process = p, !.at = now,
                                 !.pc = IF p \in connected THEN "sending" ELSE "listing",
                                 !.via = IF p \in connected THEN "redis" ELSE "memory"]
  <1>2. x \in Call /\ req' = [req EXCEPT ![r] = x]
    BY <1>1 DEF Ask, Call, TypeOK
  <1>3. req' \in [Requests -> Call] /\ req'[r] = x /\ Only(r)
    BY <1>2, CallMoves
  <1> QED BY <1>1, <1>3 DEF Ask, At, Call

\* The commands of the pipeline, and whether the call passes.
LEMMA ExecuteEffect ==
  ASSUME TypeOK, NEW r \in Requests, Execute(r)
  PROVE  /\ req[r].pc = "sending" /\ Only(r) /\ req' \in [Requests -> Call]
         /\ req'[r].pc = IF Cardinality(Slid(r)) <= MaxAllowed THEN "passed" ELSE "refused"
         /\ req'[r].process = req[r].process /\ req'[r].via = req[r].via /\ req'[r].at = req[r].at
         /\ req'[r].i = req[r].i /\ req'[r].kept = req[r].kept /\ req'[r].done = now
         /\ zset' = Slid(r) /\ ttl' = now + Window
         /\ UNCHANGED <<now, connected, memory, shared>>
  <1>1. req[r] \in Call /\ now \in 0..MaxTime
    BY CallMoves, Times
  <1> DEFINE x == [req[r] EXCEPT !.done = now,
                     !.pc = IF Cardinality(Slid(r)) <= MaxAllowed THEN "passed" ELSE "refused"]
  <1>2. x \in Call /\ req' = [req EXCEPT ![r] = x]
    BY <1>1 DEF Execute, Call, TypeOK
  <1>3. req' \in [Requests -> Call] /\ req'[r] = x /\ Only(r)
    BY <1>2, CallMoves
  <1> QED BY <1>1, <1>3 DEF Execute, At, Call

LEMMA FailEffect ==
  ASSUME TypeOK, NEW r \in Requests, Fail(r)
  PROVE  /\ req[r].pc = "sending" /\ Only(r) /\ req' \in [Requests -> Call]
         /\ req'[r].pc = "listing" /\ req'[r].via = "memory" /\ req'[r].at = now
         /\ req'[r].process = req[r].process
         /\ req'[r].i = req[r].i /\ req'[r].kept = req[r].kept
         /\ \/ UNCHANGED <<zset, ttl>>
            \/ zset' = Slid(r) /\ ttl' = now + Window
         /\ Share(req[r].process)
         /\ UNCHANGED <<now, connected, memory>>
  <1>1. req[r] \in Call /\ now \in 0..MaxTime
    BY CallMoves, Times
  <1> DEFINE x == [req[r] EXCEPT !.pc = "listing", !.via = "memory", !.at = now]
  <1>2. x \in Call /\ req' = [req EXCEPT ![r] = x]
    BY <1>1 DEF Fail, Call, TypeOK
  <1>3. req' \in [Requests -> Call] /\ req'[r] = x /\ Only(r)
    BY <1>2, CallMoves
  <1> QED BY <1>1, <1>3 DEF Fail, At, Call

\* The comprehension visits one element.
LEMMA VisitEffect ==
  ASSUME TypeOK, NEW r \in Requests, Visit(r)
  PROVE  /\ req[r].pc = "listing" /\ Only(r) /\ req' \in [Requests -> Call]
         /\ req'[r].pc = "listing" /\ req'[r].via = req[r].via /\ req'[r].at = req[r].at
         /\ req'[r].process = req[r].process /\ req'[r].done = req[r].done
         /\ req[r].i < Len(List(r)) /\ req'[r].i = req[r].i + 1
         /\ LET e == List(r)[req[r].i + 1] IN
              /\ e \in Stamp
              /\ req'[r].kept = IF Recent(r, e) THEN Append(req[r].kept, e) ELSE req[r].kept
         /\ UNCHANGED <<now, connected, zset, ttl, memory, shared>>
  <1>1. req[r] \in Call /\ req[r].i \in Nat /\ req[r].kept \in Seq(Stamp) /\ List(r) \in Seq(Stamp)
    BY CallMoves, ListTypes
  <1>2. req[r].i < Len(List(r))
    BY DEF Visit
  <1>3. PICK e \in Stamp : e = List(r)[req[r].i + 1]
    BY <1>1, <1>2
  <1>4. PICK list \in Seq(Stamp) : list = IF Recent(r, e) THEN Append(req[r].kept, e) ELSE req[r].kept
    BY <1>1, AppendProperties
  <1> DEFINE x == [req[r] EXCEPT !.i = req[r].i + 1, !.kept = list]
  <1>5. x \in Call
    <2>1. PICK n \in Nat : n = req[r].i + 1
      BY <1>1
    <2>2. x = [req[r] EXCEPT !.i = n, !.kept = list]
      BY <2>1
    <2> QED BY <1>1, <2>2 DEF Call
  <1>6. req' = [req EXCEPT ![r] = x]
    BY <1>1, <1>3, <1>4 DEF Visit, TypeOK
  <1>7. req' \in [Requests -> Call] /\ req'[r] = x /\ Only(r)
    BY <1>5, <1>6, CallMoves
  <1> QED BY <1>1, <1>2, <1>3, <1>4, <1>7 DEF Visit, At, Call

\* The slice assignment puts what was kept in the place of the list.
LEMMA AssignEffect ==
  ASSUME TypeOK, NEW r \in Requests, Assign(r)
  PROVE  /\ req[r].pc = "listing" /\ Only(r) /\ req' \in [Requests -> Call]
         /\ req'[r].pc = "checking" /\ req'[r].via = req[r].via /\ req'[r].at = req[r].at
         /\ req'[r].process = req[r].process /\ req'[r].done = req[r].done
         /\ req[r].i >= Len(List(r)) /\ req'[r].i = 0 /\ req'[r].kept = <<>>
         /\ memory'[req[r].process] = req[r].kept
         /\ \A p \in Processes \ {req[r].process} : memory'[p] = memory[p]
         /\ memory' \in [Processes -> Seq(Stamp)]
         /\ UNCHANGED <<now, connected, zset, ttl, shared>>
  <1>1. req[r] \in Call /\ req[r].kept \in Seq(Stamp) /\ req[r].process \in Processes
    BY CallMoves, ListTypes
  <1> DEFINE x == [req[r] EXCEPT !.pc = "checking", !.i = 0, !.kept = <<>>]
  <1>2. x \in Call
    <2>0. <<>> \in Seq(Stamp)
      BY EmptySeq
    <2>1. PICK none \in Seq(Stamp) : none = <<>>
      BY <2>0
    <2>2. x = [req[r] EXCEPT !.pc = "checking", !.i = 0, !.kept = none]
      BY <2>1
    <2> QED BY <1>1, <2>2 DEF Call
  <1>3. req' = [req EXCEPT ![r] = x]
    BY <1>1 DEF Assign, TypeOK
  <1>4. req' \in [Requests -> Call] /\ req'[r] = x /\ Only(r)
    BY <1>2, <1>3, CallMoves
  <1>5. /\ memory'[req[r].process] = req[r].kept
        /\ \A p \in Processes \ {req[r].process} : memory'[p] = memory[p]
        /\ memory' \in [Processes -> Seq(Stamp)]
    BY <1>1 DEF Assign, Put, TypeOK
  <1> QED BY <1>1, <1>4, <1>5 DEF Assign, At, Call

LEMMA CheckEffect ==
  ASSUME TypeOK, NEW r \in Requests, Check(r)
  PROVE  /\ req[r].pc = "checking" /\ Only(r) /\ req' \in [Requests -> Call]
         /\ req'[r].pc = IF Len(List(r)) >= MaxAllowed THEN "refused" ELSE "appending"
         /\ req'[r].via = req[r].via /\ req'[r].at = req[r].at
         /\ req'[r].process = req[r].process /\ req'[r].done = req[r].done
         /\ req'[r].i = req[r].i /\ req'[r].kept = req[r].kept
         /\ UNCHANGED <<now, connected, zset, ttl, memory, shared>>
  <1>1. req[r] \in Call
    BY CallMoves
  <1> DEFINE x == [req[r] EXCEPT !.pc = IF Len(List(r)) >= MaxAllowed THEN "refused" ELSE "appending"]
  <1>2. x \in Call /\ req' = [req EXCEPT ![r] = x]
    BY <1>1 DEF Check, Go, Call, TypeOK
  <1>3. req' \in [Requests -> Call] /\ req'[r] = x /\ Only(r)
    BY <1>2, CallMoves
  <1> QED BY <1>1, <1>3 DEF Check, At, Call

LEMMA AddEffect ==
  ASSUME TypeOK, NEW r \in Requests, Add(r)
  PROVE  /\ req[r].pc = "appending" /\ Only(r) /\ req' \in [Requests -> Call]
         /\ req'[r].pc = "passed" /\ req'[r].via = req[r].via /\ req'[r].at = req[r].at
         /\ req'[r].process = req[r].process /\ req'[r].done = req[r].done
         /\ req'[r].i = req[r].i /\ req'[r].kept = req[r].kept
         /\ memory'[req[r].process] = Append(List(r), Mine(r))
         /\ \A p \in Processes \ {req[r].process} : memory'[p] = memory[p]
         /\ memory' \in [Processes -> Seq(Stamp)]
         /\ UNCHANGED <<now, connected, zset, ttl, shared>>
  <1>1. req[r] \in Call /\ req[r].process \in Processes /\ List(r) \in Seq(Stamp) /\ Mine(r) \in Stamp
    BY CallMoves, ListTypes, MineIs
  <1> DEFINE x == [req[r] EXCEPT !.pc = "passed"]
  <1>2. x \in Call /\ req' = [req EXCEPT ![r] = x]
    BY <1>1 DEF Add, Go, Call, TypeOK
  <1>3. req' \in [Requests -> Call] /\ req'[r] = x /\ Only(r)
    BY <1>2, CallMoves
  <1>4. /\ memory'[req[r].process] = Append(List(r), Mine(r))
        /\ \A p \in Processes \ {req[r].process} : memory'[p] = memory[p]
        /\ memory' \in [Processes -> Seq(Stamp)]
    BY <1>1 DEF Add, Put, TypeOK
  <1> QED BY <1>1, <1>3, <1>4 DEF Add, At, Call

LEMMA TickEffect ==
  ASSUME TypeOK, Tick
  PROVE  /\ now' = now + 1 /\ now' \in 0..MaxTime
         /\ zset' = IF now' >= ttl THEN {} ELSE zset
         /\ UNCHANGED <<connected, ttl, memory, req, shared>>
  BY Times DEF Tick
-----------------------------------------------------------------------------
(* Types, and what only grows *)

LEMMA ShareKeeps ==
  ASSUME TypeOK, NEW p \in Processes, Share(p)
  PROVE  /\ shared \subseteq shared' /\ shared' \in SUBSET Processes
         /\ p \notin shared' => Listing(p) = {}
         /\ \A x \in Processes \ {p} : x \in shared' => x \in shared
  BY DEF TypeOK, Share

LEMMA SlidIs ==
  ASSUME TypeOK, NEW r \in Requests
  PROVE  /\ Slid(r) \in SUBSET Stamp /\ Mine(r) \in Slid(r)
         /\ \A e \in zset : e.at + Window > req[r].at => e \in Slid(r)
         /\ \A e \in Slid(r) : e \in zset \/ e = Mine(r)
         /\ \A e \in Slid(r) : e.at + Window > req[r].at
         /\ IsFiniteSet(zset) => IsFiniteSet(Slid(r))
  <1> DEFINE old == {e \in zset : e.at + Window > req[r].at}
  <1>1. Mine(r).at + Window > req[r].at
    BY MineIs, Times
  <1>2. IsFiniteSet(zset) => IsFiniteSet(old)
    BY FS_Subset
  <1>3. IsFiniteSet(zset) => IsFiniteSet(old \cup {Mine(r)})
    BY <1>2, FS_AddElement
  <1> QED BY <1>1, <1>3, MineIs DEF Slid, TypeOK

\* Every step keeps the types.
LEMMA NextTypeOK == TypeOK /\ [Next]_vars => TypeOK'
  <1> SUFFICES ASSUME TypeOK, [Next]_vars PROVE TypeOK'
    OBVIOUS
  <1>1. /\ now \in 0..MaxTime /\ ttl \in 0..MaxTime + Window /\ connected \in SUBSET Processes
        /\ zset \in SUBSET Stamp /\ memory \in [Processes -> Seq(Stamp)]
        /\ req \in [Requests -> Call] /\ shared \in SUBSET Processes
        /\ now + Window \in 0..MaxTime + Window
    BY Times DEF TypeOK
  <1>2. CASE UNCHANGED vars
    BY <1>2 DEF vars, TypeOK
  <1>3. CASE Tick
    BY <1>1, <1>3, TickEffect DEF TypeOK
  <1>4. ASSUME NEW r \in Requests, NEW p \in Processes, Ask(r, p) PROVE TypeOK'
    BY <1>1, <1>4, AskEffect, ShareKeeps DEF TypeOK
  <1>5. ASSUME NEW r \in Requests, Execute(r) PROVE TypeOK'
    BY <1>1, <1>5, ExecuteEffect, SlidIs DEF TypeOK
  <1>6. ASSUME NEW r \in Requests, Fail(r) PROVE TypeOK'
    <2>1. req[r].process \in Processes
      BY CallMoves
    <2> QED BY <1>1, <1>6, <2>1, FailEffect, ShareKeeps, SlidIs DEF TypeOK
  <1>7. ASSUME NEW r \in Requests, Visit(r) PROVE TypeOK'
    BY <1>1, <1>7, VisitEffect DEF TypeOK
  <1>8. ASSUME NEW r \in Requests, Assign(r) PROVE TypeOK'
    BY <1>1, <1>8, AssignEffect DEF TypeOK
  <1>9. ASSUME NEW r \in Requests, Check(r) PROVE TypeOK'
    BY <1>1, <1>9, CheckEffect DEF TypeOK
  <1>10. ASSUME NEW r \in Requests, Add(r) PROVE TypeOK'
    BY <1>1, <1>10, AddEffect DEF TypeOK
  <1> QED
    BY <1>2, <1>3, <1>4, <1>5, <1>6, <1>7, <1>8, <1>9, <1>10 DEF Next, AllowRedis, AllowMemory

\* Time passes, a call that has begun has begun for good, its time moves forward
\* only, its answer is final, and a process that was shared stays so.
Moves ==
  /\ now <= now' /\ shared \subseteq shared'
  /\ \A q \in Requests :
       /\ req[q].pc # "idle" => req'[q].pc # "idle"
       /\ req[q].at <= req'[q].at
       /\ req[q].pc \in {"passed", "refused"} => req'[q] = req[q]

\* The steps in the list of a process.
Lists(r) == Visit(r) \/ Assign(r) \/ Check(r) \/ Add(r)

\* What they have in common.
LEMMA ListsEffect ==
  ASSUME TypeOK, NEW r \in Requests, Lists(r)
  PROVE  /\ req[r].pc \in {"listing", "checking", "appending"} /\ Only(r)
         /\ req'[r].pc \in {"listing", "checking", "appending", "passed", "refused"}
         /\ req'[r].via = req[r].via /\ req'[r].at = req[r].at
         /\ req'[r].process = req[r].process /\ req'[r].done = req[r].done
         /\ UNCHANGED <<now, connected, zset, ttl, shared>>
         /\ \A p \in Processes \ {req[r].process} : memory'[p] = memory[p]
  BY VisitEffect, AssignEffect, CheckEffect, AddEffect DEF Lists

\* The kinds of steps.
LEMMA StepKinds ==
  ASSUME [Next]_vars
  PROVE  \/ UNCHANGED vars
         \/ Tick
         \/ \E r \in Requests, p \in Processes : Ask(r, p)
         \/ \E r \in Requests : Execute(r)
         \/ \E r \in Requests : Fail(r)
         \/ \E r \in Requests : Lists(r)
  BY DEF Next, AllowRedis, AllowMemory, Lists

LEMMA NextMoves == TypeOK /\ TimesArePast /\ [Next]_vars => Moves
  <1> SUFFICES ASSUME TypeOK, TimesArePast, [Next]_vars PROVE Moves
    OBVIOUS
  <1>1. now \in Nat /\ \A q \in Requests : req[q].at \in Nat /\ req[q].at <= now
    BY Times DEF TimesArePast
  <1>2. CASE UNCHANGED vars
    BY <1>1, <1>2 DEF vars, Moves
  <1>3. CASE Tick
    BY <1>1, <1>3, TickEffect DEF Moves
  <1>4. ASSUME NEW r \in Requests, NEW p \in Processes, Ask(r, p) PROVE Moves
    <2>1. shared \subseteq shared'
      BY <1>4, AskEffect, ShareKeeps
    <2> QED BY <1>1, <1>4, <2>1, AskEffect DEF Moves, Only
  <1>5. ASSUME NEW r \in Requests, Execute(r) PROVE Moves
    BY <1>1, <1>5, ExecuteEffect DEF Moves, Only
  <1>6. ASSUME NEW r \in Requests, Fail(r) PROVE Moves
    <2>1. shared \subseteq shared'
      <3>1. req[r].process \in Processes
        BY CallMoves
      <3> QED BY <1>6, <3>1, FailEffect, ShareKeeps
    <2> QED BY <1>1, <1>6, <2>1, FailEffect DEF Moves, Only
  <1>7. ASSUME NEW r \in Requests, Lists(r) PROVE Moves
    BY <1>1, <1>7, ListsEffect DEF Moves, Only
  <1> QED BY <1>2, <1>3, <1>4, <1>5, <1>6, <1>7, StepKinds

\* Times, finiteness and the control of a call.
LEMMA NextInOrder ==
  RateInv /\ [Next]_vars => TimesArePast' /\ FiniteSoFar' /\ CallsAreInOrder'
  <1> SUFFICES ASSUME RateInv, [Next]_vars PROVE TimesArePast' /\ FiniteSoFar' /\ CallsAreInOrder'
    OBVIOUS
  <1>1. /\ TypeOK /\ TimesArePast /\ FiniteSoFar /\ CallsAreInOrder /\ TypeOK'
        /\ now \in Nat /\ ttl \in Nat /\ Window \in Nat
        /\ \A q \in Requests : req[q].at \in Nat /\ req[q].at <= now
    BY Times, NextTypeOK DEF RateInv, TimesArePast
  <1>2. ASSUME Started' = Started, IsFiniteSet(zset') PROVE FiniteSoFar'
    BY <1>1, <1>2 DEF FiniteSoFar
  <1>3. CASE UNCHANGED vars
    <2>1. Started' = Started
      BY <1>3 DEF vars, Started, At
    <2> QED BY <1>1, <1>3, <2>1 DEF vars, TimesArePast, FiniteSoFar, CallsAreInOrder
  <1>4. CASE Tick
    <2>1. Started' = Started /\ req' = req
      BY <1>1, <1>4, TickEffect DEF Started, At
    <2>2. IsFiniteSet(zset')
      BY <1>1, <1>4, TickEffect, FS_EmptySet DEF FiniteSoFar
    <2>3. TimesArePast'
      BY <1>1, <1>4, TickEffect DEF TimesArePast
    <2> QED BY <1>1, <1>2, <2>1, <2>2, <2>3 DEF CallsAreInOrder
  <1>5. ASSUME NEW r \in Requests, NEW p \in Processes, Ask(r, p)
        PROVE  TimesArePast' /\ FiniteSoFar' /\ CallsAreInOrder'
    <2>1. Started' = Started \cup {r}
      BY <1>1, <1>5, AskEffect DEF Started, At, Only
    <2>2. FiniteSoFar'
      BY <1>1, <1>5, <2>1, AskEffect, FS_AddElement DEF FiniteSoFar
    <2>3. TimesArePast'
      BY <1>1, <1>5, AskEffect DEF TimesArePast, Only
    <2>4. CallsAreInOrder'
      BY <1>1, <1>5, AskEffect DEF CallsAreInOrder, Only
    <2> QED BY <2>2, <2>3, <2>4
  <1>6. ASSUME NEW r \in Requests, Execute(r)
        PROVE  TimesArePast' /\ FiniteSoFar' /\ CallsAreInOrder'
    <2>1. Started' = Started /\ IsFiniteSet(zset')
      BY <1>1, <1>6, ExecuteEffect, SlidIs DEF Started, At, Only, FiniteSoFar
    <2>2. TimesArePast'
      BY <1>1, <1>6, ExecuteEffect DEF TimesArePast, Only
    <2>3. CallsAreInOrder'
      BY <1>1, <1>6, ExecuteEffect DEF CallsAreInOrder, Only
    <2> QED BY <1>2, <2>1, <2>2, <2>3
  <1>7. ASSUME NEW r \in Requests, Fail(r)
        PROVE  TimesArePast' /\ FiniteSoFar' /\ CallsAreInOrder'
    <2>1. Started' = Started /\ IsFiniteSet(zset')
      BY <1>1, <1>7, FailEffect, SlidIs DEF Started, At, Only, FiniteSoFar
    <2>2. TimesArePast'
      BY <1>1, <1>7, FailEffect DEF TimesArePast, Only
    <2>3. CallsAreInOrder'
      BY <1>1, <1>7, FailEffect DEF CallsAreInOrder, Only
    <2> QED BY <1>2, <2>1, <2>2, <2>3
  <1>8. ASSUME NEW r \in Requests, Lists(r)
        PROVE  TimesArePast' /\ FiniteSoFar' /\ CallsAreInOrder'
    <2>1. Started' = Started /\ zset' = zset
      BY <1>1, <1>8, ListsEffect DEF Started, At, Only
    <2>2. TimesArePast'
      BY <1>1, <1>8, ListsEffect DEF TimesArePast, Only
    <2>3. CallsAreInOrder'
      BY <1>1, <1>8, ListsEffect DEF CallsAreInOrder, Only
    <2> QED BY <1>1, <1>2, <2>1, <2>2, <2>3 DEF FiniteSoFar
  <1> QED BY <1>3, <1>4, <1>5, <1>6, <1>7, <1>8, StepKinds
-----------------------------------------------------------------------------
(* The window in Redis *)

LEMMA NextEntries == RateInv /\ [Next]_vars => EntriesAreRequests'
  <1> SUFFICES ASSUME RateInv, [Next]_vars PROVE EntriesAreRequests'
    OBVIOUS
  <1>1. /\ TypeOK /\ EntriesAreRequests /\ TimesArePast
        /\ \A e \in zset : e \in Stamp /\ e.by \in Requests /\ e.at \in Nat
        /\ now \in Nat /\ \A q \in Requests : req[q].at \in Nat /\ req[q].at <= now
    BY Times DEF RateInv, TypeOK, TimesArePast
  <1>2. ASSUME NEW r \in Requests, req[r].pc \in {"idle", "sending"}
        PROVE  \A e \in zset : e.by # r
    BY <1>1, <1>2 DEF EntriesAreRequests
  <1>3. ASSUME req' = req, zset' \subseteq zset PROVE EntriesAreRequests'
    BY <1>1, <1>3 DEF EntriesAreRequests
  <1>4. ASSUME NEW r \in Requests, Only(r), req[r].pc \in {"idle", "sending"}, zset' = zset
        PROVE  EntriesAreRequests'
    BY <1>1, <1>2, <1>4 DEF EntriesAreRequests, Only
  <1>5. ASSUME NEW r \in Requests, Only(r), req[r].pc = "sending", zset' = Slid(r),
               req'[r].pc \notin {"idle", "sending"}, req'[r].at \in Nat, req[r].at <= req'[r].at
        PROVE  EntriesAreRequests'
    <2>1. \A e \in zset' : e \in zset \/ e = Mine(r)
      BY <1>1, <1>5, SlidIs
    <2>2. Mine(r).by = r /\ Mine(r).at = req[r].at
      BY <1>1, MineIs
    <2>3. ASSUME NEW e \in zset' PROVE req'[e.by].pc \notin {"idle", "sending"} /\ e.at <= req'[e.by].at
      BY <1>1, <1>2, <1>5, <2>1, <2>2 DEF EntriesAreRequests, Only
    <2>4. ASSUME NEW e \in zset', NEW f \in zset', e.by = f.by PROVE e = f
      BY <1>1, <1>2, <1>5, <2>1, <2>2, <2>4 DEF EntriesAreRequests
    <2> QED BY <2>3, <2>4 DEF EntriesAreRequests
  <1>6. CASE UNCHANGED vars
    BY <1>3, <1>6 DEF vars
  <1>7. CASE Tick
    BY <1>1, <1>3, <1>7, TickEffect
  <1>8. ASSUME NEW r \in Requests, NEW p \in Processes, Ask(r, p) PROVE EntriesAreRequests'
    BY <1>1, <1>4, <1>8, AskEffect
  <1>9. ASSUME NEW r \in Requests, Execute(r) PROVE EntriesAreRequests'
    BY <1>1, <1>5, <1>9, ExecuteEffect
  <1>10. ASSUME NEW r \in Requests, Fail(r) PROVE EntriesAreRequests'
    BY <1>1, <1>4, <1>5, <1>10, FailEffect
  <1>11. ASSUME NEW r \in Requests, Lists(r) PROVE EntriesAreRequests'
    BY <1>1, <1>11, ListsEffect DEF EntriesAreRequests, Only
  <1> QED BY <1>6, <1>7, <1>8, <1>9, <1>10, <1>11, StepKinds

\* Nothing of the last window is lost: what the pipeline removes is older than a
\* window for the request that removes it, and the key expires later.
LEMMA NextRemembers == RateInv /\ [Next]_vars => RedisRemembers'
  <1> SUFFICES ASSUME RateInv, [Next]_vars,
                      NEW q \in Requests, req'[q].pc = "passed", req'[q].via = "redis"
               PROVE  /\ req'[q].done + Window <= ttl'
                      /\ now' < req'[q].at + Window /\ now' < req'[q].done + Window => Mine(q)' \in zset'
    BY DEF RedisRemembers, At
  <1>1. /\ TypeOK /\ RedisRemembers /\ TimesArePast /\ CallsAreInOrder
        /\ now \in Nat /\ ttl \in Nat /\ Window \in Nat /\ ttl <= now + Window
        /\ \A x \in Requests : req[x].at \in Nat /\ req[x].at <= now /\ req[x].done \in Nat
    BY Times DEF RateInv, TimesArePast
  <1>2. ASSUME req'[q] = req[q]
        PROVE  /\ req[q].done + Window <= ttl /\ Mine(q)' = Mine(q) /\ Mine(q).at = req[q].at
               /\ now < req[q].at + Window /\ now < req[q].done + Window => Mine(q) \in zset
    BY <1>1, <1>2, MineIs DEF RedisRemembers, At, Mine
  <1>3. ASSUME req'[q] = req[q], now' = now, ttl' = ttl, zset' = zset
        PROVE  /\ req'[q].done + Window <= ttl'
               /\ now' < req'[q].at + Window /\ now' < req'[q].done + Window => Mine(q)' \in zset'
    BY <1>2, <1>3
  <1>4. ASSUME NEW r \in Requests, req'[q] = req[q], now' = now, ttl' = now + Window, zset' = Slid(r)
        PROVE  /\ req'[q].done + Window <= ttl'
               /\ now' < req'[q].at + Window /\ now' < req'[q].done + Window => Mine(q)' \in zset'
    <2>1. req[q].done + Window <= ttl'
      BY <1>1, <1>2, <1>4
    <2>2. ASSUME now < req[q].at + Window, now < req[q].done + Window PROVE Mine(q) \in Slid(r)
      <3>1. Mine(q) \in zset /\ Mine(q).at = req[q].at
        BY <1>2, <1>4, <2>2
      <3>2. Mine(q).at + Window > req[r].at
        BY <1>1, <2>2, <3>1
      <3> QED BY <1>1, <3>1, <3>2, SlidIs
    <2> QED BY <1>2, <1>4, <2>1, <2>2
  <1>5. CASE UNCHANGED vars
    BY <1>3, <1>5 DEF vars
  <1>6. CASE Tick
    BY <1>1, <1>2, <1>6, TickEffect
  <1>7. ASSUME NEW r \in Requests, NEW p \in Processes, Ask(r, p)
        PROVE  req'[q] = req[q] /\ now' = now /\ ttl' = ttl /\ zset' = zset
    BY <1>1, <1>7, AskEffect DEF Only
  <1>8. ASSUME NEW r \in Requests, Execute(r)
        PROVE  /\ req'[q].done + Window <= ttl'
               /\ now' < req'[q].at + Window /\ now' < req'[q].done + Window => Mine(q)' \in zset'
    <2>1. CASE q = r
      <3>1. req'[q].done = now /\ ttl' = now + Window /\ zset' = Slid(q) /\ req'[q].at = req[q].at
        BY <1>1, <1>8, <2>1, ExecuteEffect
      <3>2. Mine(q)' = Mine(q) /\ Mine(q) \in Slid(q)
        BY <1>1, <3>1, SlidIs DEF Mine
      <3> QED BY <1>1, <3>1, <3>2
    <2>2. CASE q # r
      BY <1>1, <1>4, <1>8, <2>2, ExecuteEffect DEF Only
    <2> QED BY <2>1, <2>2
  <1>9. ASSUME NEW r \in Requests, Fail(r)
        PROVE  /\ req'[q].done + Window <= ttl'
               /\ now' < req'[q].at + Window /\ now' < req'[q].done + Window => Mine(q)' \in zset'
    <2>1. req'[q] = req[q]
      BY <1>1, <1>9, FailEffect DEF Only
    <2> QED BY <1>1, <1>3, <1>4, <1>9, <2>1, FailEffect
  <1>10. ASSUME NEW r \in Requests, Lists(r)
         PROVE  req'[q] = req[q] /\ now' = now /\ ttl' = ttl /\ zset' = zset
    BY <1>1, <1>10, ListsEffect DEF Only, CallsAreInOrder
  <1> QED BY <1>3, <1>5, <1>6, <1>7, <1>8, <1>9, <1>10, StepKinds

\* As many things of one kind as there are different ones of the other.
LEMMA Counting ==
  ASSUME NEW S, NEW T, IsFiniteSet(T), NEW f \in [S -> T],
         \A x, y \in S : f[x] = f[y] => x = y
  PROVE  /\ IsFiniteSet(S) /\ Cardinality(S) <= Cardinality(T)
         /\ Cardinality(S) \in Nat /\ Cardinality(T) \in Nat
  <1>1. f \in Injection(S, T)
    BY DEF Injection, IsInjective
  <1> QED BY <1>1, FS_Injection, FS_CardinalityType

InRedis(t) == {r \in Passed("redis", t) : Within(req[r].done, t)}

\* The last of a window counted all those that passed in it.
LEMMA NextRedisWindow == RateInv /\ [Next]_vars => RedisWindow'
  <1> SUFFICES ASSUME RateInv, [Next]_vars, NEW t \in 0..MaxTime
               PROVE  Cardinality(InRedis(t)') <= MaxAllowed
    BY DEF RedisWindow, InRedis
  <1>1. /\ TypeOK /\ RedisRemembers /\ TimesArePast /\ CallsAreInOrder /\ FiniteSoFar
        /\ now \in Nat /\ Window \in Nat /\ MaxAllowed \in Nat /\ t \in Nat
        /\ \A x \in Requests : req[x].at \in Nat /\ req[x].at <= now /\ req[x].done \in Nat
        /\ Cardinality(InRedis(t)) <= MaxAllowed
    BY Times DEF RateInv, TimesArePast, RedisWindow, InRedis
  <1>2. ASSUME NEW r \in Requests, Only(r),
               ~(req[r].pc = "passed" /\ req[r].via = "redis"),
               ~(req'[r].pc = "passed" /\ req'[r].via = "redis")
        PROVE  InRedis(t)' = InRedis(t)
    BY <1>2 DEF InRedis, Passed, At, Only, Within
  <1>3. ASSUME req' = req PROVE InRedis(t)' = InRedis(t)
    BY <1>3 DEF InRedis, Passed, At, Within
  <1>4. CASE UNCHANGED vars
    BY <1>1, <1>3, <1>4 DEF vars
  <1>5. CASE Tick
    BY <1>1, <1>3, <1>5, TickEffect
  <1>6. ASSUME NEW r \in Requests, NEW p \in Processes, Ask(r, p) PROVE InRedis(t)' = InRedis(t)
    BY <1>1, <1>2, <1>6, AskEffect
  <1>7. ASSUME NEW r \in Requests, Fail(r) PROVE InRedis(t)' = InRedis(t)
    BY <1>1, <1>2, <1>7, FailEffect
  <1>8. ASSUME NEW r \in Requests, Lists(r) PROVE InRedis(t)' = InRedis(t)
    BY <1>1, <1>2, <1>8, ListsEffect DEF CallsAreInOrder
  <1>9. ASSUME NEW r \in Requests, Execute(r) PROVE Cardinality(InRedis(t)') <= MaxAllowed
    <2>1. /\ req[r].pc = "sending" /\ Only(r) /\ req'[r].at = req[r].at /\ req'[r].done = now
          /\ req'[r].pc = IF Cardinality(Slid(r)) <= MaxAllowed THEN "passed" ELSE "refused"
      BY <1>1, <1>9, ExecuteEffect
    <2>2. CASE req'[r].pc # "passed" \/ ~Within(req[r].at, t) \/ ~Within(now, t)
      <3>1. InRedis(t)' = InRedis(t)
        BY <2>1, <2>2 DEF InRedis, Passed, At, Only, Within
      <3> QED BY <1>1, <3>1
    <2>3. CASE req'[r].pc = "passed" /\ Within(req[r].at, t) /\ Within(now, t)
      <3>1. Cardinality(Slid(r)) <= MaxAllowed /\ IsFiniteSet(Slid(r)) /\ Slid(r) \subseteq Stamp
        BY <1>1, <2>1, <2>3, SlidIs DEF FiniteSoFar
      <3>2. ASSUME NEW q \in InRedis(t)' PROVE q \in Requests /\ Mine(q) \in Slid(r) /\ Mine(q).by = q
        <4>1. q \in Requests /\ Mine(q).by = q /\ Mine(q).at = req[q].at
          BY <1>1, MineIs DEF InRedis, Passed
        <4>2. CASE q = r
          BY <1>1, <4>1, <4>2, SlidIs
        <4>3. CASE q # r
          <5>1. /\ req[q].pc = "passed" /\ req[q].via = "redis"
                /\ t <= req[q].at /\ t <= req[q].done
            BY <2>1, <4>1, <4>3 DEF InRedis, Passed, At, Within, Only
          <5>2. now < t + Window
            BY <2>3 DEF Within
          <5>3. now < req[q].at + Window /\ now < req[q].done + Window
            BY <1>1, <4>1, <5>1, <5>2
          <5>4. Mine(q) \in zset
            BY <1>1, <4>1, <5>1, <5>3 DEF RedisRemembers, At
          <5>5. Mine(q).at + Window > req[r].at
            BY <1>1, <4>1, <5>3
          <5> QED BY <1>1, <4>1, <5>4, <5>5, SlidIs
        <4> QED BY <4>2, <4>3
      <3> DEFINE S == InRedis(t)'
                 f == [q \in S |-> Mine(q)]
      <3>3. /\ f \in [S -> Slid(r)]
            /\ \A x, y \in S : f[x] = f[y] => x = y
        BY <3>2
      <3> HIDE DEF S, f
      <3>4. Cardinality(S) <= Cardinality(Slid(r)) /\ Cardinality(S) \in Nat /\ Cardinality(Slid(r)) \in Nat
        BY <3>1, <3>3, Counting
      <3>5. Cardinality(S) <= MaxAllowed
        BY <1>1, <3>1, <3>4
      <3> QED BY <3>5 DEF S
    <2> QED BY <2>2, <2>3
  <1> QED BY <1>1, <1>4, <1>5, <1>6, <1>7, <1>8, <1>9, StepKinds
-----------------------------------------------------------------------------
(* The lists in memory *)

\* Appending adds one entry, and keeps a list distinct if nobody appends twice.
LEMMA AppendEntries ==
  ASSUME NEW s \in Seq(Stamp), NEW e \in Stamp
  PROVE  /\ Entries(Append(s, e)) = Entries(s) \cup {e}
         /\ Distinct(s) /\ (\A x \in Entries(s) : x.by # e.by) => Distinct(Append(s, e))
  <1> DEFINE a == Append(s, e)
             n == Len(s)
  <1>1. /\ n \in Nat /\ DOMAIN s = 1..n /\ DOMAIN a = 1..(n + 1)
        /\ \A j \in 1..n : a[j] = s[j]
        /\ a[n + 1] = e
    BY AppendProperties
  <1>2. \A j \in 1..(n + 1) : j \in 1..n \/ j = n + 1
    BY <1>1
  <1> HIDE DEF a, n
  <1>3. Entries(a) = Entries(s) \cup {e}
    BY <1>1, <1>2 DEF Entries
  <1>4. ASSUME Distinct(s), \A x \in Entries(s) : x.by # e.by PROVE Distinct(a)
    <2>1. \A j \in 1..n : a[j].by # e.by
      BY <1>1, <1>4 DEF Entries
    <2>2. ASSUME NEW j \in 1..(n + 1), NEW k \in 1..(n + 1), a[j].by = a[k].by PROVE j = k
      BY <1>1, <1>2, <1>4, <2>1, <2>2 DEF Distinct
    <2> QED BY <1>1, <2>2 DEF Distinct
  <1> QED BY <1>3, <1>4 DEF a

\* A list has as many entries as places, at most.
LEMMA EntriesCount ==
  ASSUME NEW s \in Seq(Stamp)
  PROVE  IsFiniteSet(Entries(s)) /\ Cardinality(Entries(s)) <= Len(s) /\ Cardinality(Entries(s)) \in Nat
  <1>1. s \in Surjection(1..Len(s), Entries(s)) /\ Len(s) \in Nat
    BY DEF Surjection, Entries
  <1>2. IsFiniteSet(1..Len(s)) /\ Cardinality(1..Len(s)) = Len(s)
    BY <1>1, FS_Interval
  <1> QED BY <1>1, <1>2, FS_Surjection, FS_CardinalityType

\* A step elsewhere, or of the clock, leaves a process in turn.
LEMMA TurnStays ==
  ASSUME RateInv, Moves, NEW p \in Processes, InTurn(p), memory'[p] = memory[p], now' \in Nat,
         Listing(p)' = Listing(p), PassedIn(p)' = PassedIn(p),
         \A x \in Listing(p) \cup PassedIn(p) : req'[x] = req[x]
  PROVE  InTurn(p)'
  <1>1. /\ TypeOK /\ now \in Nat /\ now <= now' /\ Window \in Nat
        /\ \A x \in Requests : req[x].at \in Nat
    BY Times DEF RateInv, Moves
  <1>2. ListIsOfPassed(p)'
    BY DEF InTurn, ListIsOfPassed, Mine, PassedIn
  <1>3. ListRemembers(p)'
    <2> SUFFICES ASSUME NEW q \in PassedIn(p)
                 PROVE  /\ Listing(p) = {} /\ now' < req[q].at + Window => Mine(q) \in Entries(memory[p])
                        /\ \A r \in Listing(p) : req[r].at < req[q].at + Window => Mine(q) \in Entries(memory[p])
      BY DEF ListRemembers, Mine
    <2>1. req[q].at \in Nat
      BY <1>1 DEF PassedIn
    <2>2. now' < req[q].at + Window => now < req[q].at + Window
      BY <1>1, <2>1
    <2> QED BY <2>2 DEF InTurn, ListRemembers
  <1>4. ASSUME NEW r \in Listing(p) PROVE Works(r)'
    <2>1. List(r)' = List(r) /\ req'[r] = req[r] /\ Works(r)
      BY DEF Listing, List, InTurn
    <2> QED BY <2>1 DEF Works, At, Recent
  <1> QED BY <1>2, <1>3, <1>4 DEF InTurn

\* A call that comes to a list nobody works on reads the clock first.
LEMMA TurnBegins ==
  ASSUME RateInv, Moves, NEW p \in Processes, InTurn(p), NEW r \in Requests, Only(r),
         memory' = memory, now' = now, Listing(p) = {}, req[r].pc \in {"idle", "sending"},
         req'[r].pc = "listing", req'[r].process = p, req'[r].at = now,
         req'[r].i = 0, req'[r].kept = <<>>
  PROVE  InTurn(p)'
  <1>1. Listing(p)' = {r} /\ PassedIn(p)' = PassedIn(p) /\ r \notin PassedIn(p)
    BY DEF Listing, PassedIn, Only, At
  <1>2. \A q \in PassedIn(p) : req'[q] = req[q] /\ Mine(q)' = Mine(q)
    BY <1>1 DEF Only, Mine, PassedIn
  <1>3. ListIsOfPassed(p)'
    BY <1>1, <1>2 DEF InTurn, ListIsOfPassed
  <1>4. ListRemembers(p)'
    BY <1>1, <1>2 DEF InTurn, ListRemembers
  <1>5. Works(r)'
    <2>1. Len(<<>>) = 0 /\ Entries(<<>>) = {} /\ Distinct(<<>>)
      BY DEF Entries, Distinct
    <2>2. /\ req'[r].kept = <<>> /\ req'[r].i = 0 /\ req'[r].pc = "listing"
          /\ List(r)' = memory[p] /\ Len(memory[p]) \in Nat
      BY ListTypes DEF List, RateInv
    <2> QED BY <2>1, <2>2 DEF Works, At
  <1> QED BY <1>1, <1>3, <1>4, <1>5 DEF InTurn

\* What the calls of a process in turn find.
LEMMA TurnFacts ==
  ASSUME RateInv, NEW r \in Requests, Lists(r), NEW p, p = req[r].process, InTurn(p)
  PROVE  /\ TypeOK /\ p \in Processes /\ Listing(p) = {r} /\ r \notin PassedIn(p) /\ Works(r)
         /\ List(r) = memory[p] /\ memory[p] \in Seq(Stamp) /\ Len(memory[p]) \in Nat
         /\ DOMAIN memory[p] = 1..Len(memory[p])
         /\ req[r].kept \in Seq(Stamp) /\ req[r].i \in Nat
         /\ \A q \in PassedIn(p) : req'[q] = req[q] /\ Mine(q)' = Mine(q) /\ Mine(q) \in Stamp
                                   /\ Mine(q).at = req[q].at /\ Mine(q).by = q
  <1>1. TypeOK /\ req[r].pc \in {"listing", "checking", "appending"} /\ Only(r)
    BY ListsEffect DEF RateInv
  <1>2. p \in Processes
    BY <1>1, CallMoves
  <1>3. r \in Listing(p)
    BY <1>1 DEF Listing
  <1>4. r \notin PassedIn(p)
    BY <1>1 DEF PassedIn, At
  <1>5. \A q \in PassedIn(p) : req'[q] = req[q] /\ Mine(q)' = Mine(q) /\ Mine(q) \in Stamp
                               /\ Mine(q).at = req[q].at /\ Mine(q).by = q
    BY <1>1, <1>4, MineIs DEF PassedIn, Only, Mine
  <1> QED BY <1>1, <1>2, <1>3, <1>4, <1>5, ListTypes DEF InTurn, List

LEMMA VisitTurn ==
  ASSUME RateInv, NEW r \in Requests, Visit(r), NEW p, p = req[r].process, InTurn(p)
  PROVE  InTurn(p)'
  <1> DEFINE L == memory[p]
             K == req[r].kept
             i == req[r].i
  <1>1. /\ TypeOK /\ p \in Processes /\ Listing(p) = {r} /\ r \notin PassedIn(p) /\ Works(r)
        /\ List(r) = L /\ L \in Seq(Stamp) /\ Len(L) \in Nat /\ DOMAIN L = 1..Len(L)
        /\ K \in Seq(Stamp) /\ i \in Nat
        /\ \A q \in PassedIn(p) : req'[q] = req[q] /\ Mine(q)' = Mine(q)
    <2>1. Lists(r)
      BY DEF Lists
    <2> QED BY <2>1, TurnFacts
  <1>2. PICK e \in Stamp : /\ e = L[i + 1]
                           /\ req'[r].kept = IF Recent(r, e) THEN Append(K, e) ELSE K
    BY <1>1, VisitEffect
  <1>3. /\ req[r].pc = "listing" /\ req'[r].pc = "listing" /\ Only(r)
        /\ req'[r].process = p /\ req'[r].at = req[r].at
        /\ i < Len(L) /\ req'[r].i = i + 1 /\ memory' = memory /\ now' = now
    BY <1>1, VisitEffect
  <1>4. Listing(p)' = {r} /\ PassedIn(p)' = PassedIn(p)
    BY <1>1, <1>3 DEF Listing, PassedIn, Only, At
  <1>5. /\ Distinct(K) /\ \A x \in Entries(K) : Recent(r, x) /\ \E j \in 1..i : x = L[j]
        /\ \A j \in 1..i : Recent(r, L[j]) => L[j] \in Entries(K)
        /\ Distinct(L)
    BY <1>1, <1>3 DEF Works, At, InTurn, ListIsOfPassed
  <1> DEFINE N == req'[r].kept
  <1>6. i + 1 \in 1..Len(L) /\ \A j \in 1..i : j \in 1..Len(L) /\ j # i + 1
    BY <1>1, <1>3
  <1>7. \A x \in Entries(K) : x.by # e.by
    BY <1>1, <1>2, <1>5, <1>6 DEF Distinct
  <1>8. Distinct(N) /\ Entries(N) = IF Recent(r, e) THEN Entries(K) \cup {e} ELSE Entries(K)
    BY <1>1, <1>2, <1>5, <1>7, AppendEntries
  <1>9. \A x : Recent(r, x)' = Recent(r, x)
    BY <1>3 DEF Recent
  <1>10. \A j \in 1..(i + 1) : j \in 1..i \/ j = i + 1
    BY <1>1
  <1>11. 1..i \subseteq 1..(i + 1) /\ i + 1 \in 1..(i + 1) /\ i + 1 <= Len(L)
    BY <1>1, <1>3
  <1>12. \A x \in Entries(N) : Recent(r, x) /\ \E j \in 1..(i + 1) : x = L[j]
    BY <1>2, <1>5, <1>8, <1>11
  <1>13. \A j \in 1..(i + 1) : Recent(r, L[j]) => L[j] \in Entries(N)
    BY <1>2, <1>5, <1>8, <1>10
  <1>14. Works(r)'
    <2>1. List(r)' = L /\ req'[r].i = i + 1 /\ req'[r].pc = "listing"
      BY <1>3 DEF List
    <2> QED BY <1>8, <1>9, <1>11, <1>12, <1>13, <2>1 DEF Works, At
  <1>15. ListIsOfPassed(p)'
    BY <1>1, <1>3, <1>4 DEF InTurn, ListIsOfPassed
  <1>16. ListRemembers(p)'
    BY <1>1, <1>3, <1>4 DEF InTurn, ListRemembers
  <1> QED BY <1>4, <1>14, <1>15, <1>16 DEF InTurn

LEMMA AssignTurn ==
  ASSUME RateInv, NEW r \in Requests, Assign(r), NEW p, p = req[r].process, InTurn(p)
  PROVE  InTurn(p)'
  <1> DEFINE L == memory[p]
             K == req[r].kept
             i == req[r].i
  <1>1. /\ TypeOK /\ p \in Processes /\ Listing(p) = {r} /\ r \notin PassedIn(p) /\ Works(r)
        /\ List(r) = L /\ L \in Seq(Stamp) /\ Len(L) \in Nat /\ DOMAIN L = 1..Len(L)
        /\ K \in Seq(Stamp) /\ i \in Nat
        /\ \A q \in PassedIn(p) : req'[q] = req[q] /\ Mine(q)' = Mine(q) /\ Mine(q).at = req[q].at
    <2>1. Lists(r)
      BY DEF Lists
    <2> QED BY <2>1, TurnFacts
  <1>2. /\ req[r].pc = "listing" /\ req'[r].pc = "checking" /\ Only(r)
        /\ req'[r].process = p /\ req'[r].at = req[r].at
        /\ i >= Len(L) /\ memory'[p] = K /\ now' = now
    BY <1>1, AssignEffect
  <1>3. Listing(p)' = {r} /\ PassedIn(p)' = PassedIn(p)
    BY <1>1, <1>2 DEF Listing, PassedIn, Only, At
  <1>4. /\ i <= Len(L) /\ Distinct(K) /\ \A x \in Entries(K) : Recent(r, x) /\ \E j \in 1..i : x = L[j]
        /\ \A j \in 1..i : Recent(r, L[j]) => L[j] \in Entries(K)
    BY <1>1, <1>2 DEF Works, At
  <1>5. 1..i = DOMAIN L
    BY <1>1, <1>2, <1>4
  <1>6. /\ Entries(K) \subseteq Entries(L)
        /\ \A x \in Entries(L) : Recent(r, x) => x \in Entries(K)
    BY <1>4, <1>5 DEF Entries
  <1>7. \A x : Recent(r, x)' = Recent(r, x)
    BY <1>2 DEF Recent
  <1>8. Works(r)'
    <2>1. List(r)' = K /\ req'[r].pc = "checking"
      BY <1>2 DEF List
    <2> QED BY <1>4, <1>7, <2>1 DEF Works, At
  <1>9. ListIsOfPassed(p)'
    BY <1>1, <1>2, <1>3, <1>4, <1>6 DEF InTurn, ListIsOfPassed
  <1>10. ListRemembers(p)'
    <2> SUFFICES ASSUME NEW q \in PassedIn(p), req[r].at < req[q].at + Window
                 PROVE  Mine(q) \in Entries(K)
      BY <1>1, <1>2, <1>3 DEF ListRemembers
    <2>1. Mine(q) \in Entries(L) /\ Recent(r, Mine(q))
      BY <1>1 DEF InTurn, ListRemembers, Recent
    <2> QED BY <1>6, <2>1
  <1> QED BY <1>3, <1>8, <1>9, <1>10 DEF InTurn

LEMMA CheckTurn ==
  ASSUME RateInv, NEW r \in Requests, Check(r), NEW p, p = req[r].process, InTurn(p)
  PROVE  InTurn(p)'
  <1> DEFINE L == memory[p]
  <1>1. /\ TypeOK /\ p \in Processes /\ Listing(p) = {r} /\ r \notin PassedIn(p) /\ Works(r)
        /\ List(r) = L /\ Len(L) \in Nat
        /\ \A q \in PassedIn(p) : req'[q] = req[q] /\ Mine(q)' = Mine(q)
    <2>1. Lists(r)
      BY DEF Lists
    <2> QED BY <2>1, TurnFacts
  <1>2. /\ req[r].pc = "checking" /\ Only(r)
        /\ req'[r].pc = IF Len(L) >= MaxAllowed THEN "refused" ELSE "appending"
        /\ req'[r].process = p /\ req'[r].at = req[r].at /\ memory' = memory /\ now' = now
    BY <1>1, CheckEffect
  <1>3. PassedIn(p)' = PassedIn(p) /\ Listing(p)' = IF Len(L) >= MaxAllowed THEN {} ELSE {r}
    BY <1>1, <1>2 DEF Listing, PassedIn, Only, At
  <1>4. /\ now \in Nat /\ Window \in Nat /\ MaxAllowed \in Nat
        /\ \A x \in Requests : req[x].at \in Nat /\ req[x].at <= now
    BY Times DEF RateInv, TimesArePast
  <1>5. ListIsOfPassed(p)'
    BY <1>1, <1>2, <1>3 DEF InTurn, ListIsOfPassed
  <1>6. ListRemembers(p)'
    <2> SUFFICES ASSUME NEW q \in PassedIn(p),
                        now < req[q].at + Window \/ req[r].at < req[q].at + Window
                 PROVE  Mine(q) \in Entries(L)
      BY <1>1, <1>2, <1>3 DEF ListRemembers
    <2>1. req[r].at < req[q].at + Window
      BY <1>4 DEF PassedIn
    <2> QED BY <1>1, <2>1 DEF InTurn, ListRemembers
  <1>7. ASSUME Len(L) < MaxAllowed PROVE Works(r)'
    <2>1. List(r)' = L /\ req'[r].pc = "appending"
      BY <1>1, <1>2, <1>4, <1>7 DEF List
    <2>2. \A x \in Entries(L) : Recent(r, x)'
      BY <1>1, <1>2 DEF Works, Recent
    <2> QED BY <1>7, <2>1, <2>2 DEF Works, At
  <1> QED BY <1>1, <1>3, <1>4, <1>5, <1>6, <1>7 DEF InTurn

LEMMA AddTurn ==
  ASSUME RateInv, NEW r \in Requests, Add(r), NEW p, p = req[r].process, InTurn(p)
  PROVE  InTurn(p)'
  <1> DEFINE L == memory[p]
  <1>1. /\ TypeOK /\ p \in Processes /\ Listing(p) = {r} /\ r \notin PassedIn(p) /\ Works(r)
        /\ List(r) = L /\ L \in Seq(Stamp)
        /\ \A q \in PassedIn(p) : req'[q] = req[q] /\ Mine(q)' = Mine(q)
    <2>1. Lists(r)
      BY DEF Lists
    <2> QED BY <2>1, TurnFacts
  <1>2. /\ req[r].pc = "appending" /\ req'[r].pc = "passed" /\ Only(r)
        /\ req'[r].via = req[r].via /\ req'[r].process = p /\ req'[r].at = req[r].at
        /\ memory'[p] = Append(L, Mine(r)) /\ now' = now
    BY <1>1, AddEffect
  <1>3. Mine(r)' = Mine(r) /\ Mine(r) \in Stamp /\ Mine(r).by = r
    BY <1>1, <1>2, MineIs DEF Mine
  <1>4. PassedIn(p)' = PassedIn(p) \cup {r} /\ Listing(p)' = {}
    BY <1>1, <1>2 DEF Listing, PassedIn, Only, At, RateInv, CallsAreInOrder
  <1>5. /\ \A x \in Entries(L) : x.by \in PassedIn(p) /\ x = Mine(x.by)
        /\ Distinct(L)
    BY DEF InTurn, ListIsOfPassed
  <1>6. Entries(memory'[p]) = Entries(L) \cup {Mine(r)} /\ Distinct(memory'[p])
    BY <1>1, <1>2, <1>3, <1>5, AppendEntries
  <1>7. ListIsOfPassed(p)'
    <2>1. \A x \in Entries(L) : Mine(x.by)' = Mine(x.by)
      BY <1>1, <1>5
    <2> QED BY <1>3, <1>4, <1>5, <1>6, <2>1 DEF ListIsOfPassed
  <1>8. /\ now \in Nat /\ Window \in Nat
        /\ \A x \in Requests : req[x].at \in Nat /\ req[x].at <= now
    BY Times DEF RateInv, TimesArePast
  <1>9. ListRemembers(p)'
    <2> SUFFICES ASSUME NEW q \in PassedIn(p), now < req[q].at + Window
                 PROVE  Mine(q) \in Entries(L)
      BY <1>1, <1>2, <1>3, <1>4, <1>6 DEF ListRemembers
    <2>1. req[r].at < req[q].at + Window
      BY <1>8 DEF PassedIn
    <2> QED BY <1>1, <2>1 DEF InTurn, ListRemembers
  <1> QED BY <1>4, <1>7, <1>9 DEF InTurn
\* Whatever a step does, the lists of the processes that stay in turn do too.
LEMMA NextTurns == RateInv /\ [Next]_vars => ListsInTurn'
  <1> SUFFICES ASSUME RateInv, [Next]_vars, NEW p \in Processes, p \notin shared'
               PROVE  InTurn(p)'
    BY DEF ListsInTurn
  <1>1. TypeOK /\ TypeOK' /\ Moves /\ TimesArePast /\ CallsAreInOrder
    BY NextTypeOK, NextMoves DEF RateInv
  <1>2. InTurn(p) /\ now' \in Nat
    BY <1>1, Times DEF RateInv, ListsInTurn, Moves, TypeOK
  <1>3. ASSUME req' = req, memory' = memory PROVE InTurn(p)'
    <2>1. Listing(p)' = Listing(p) /\ PassedIn(p)' = PassedIn(p)
      BY <1>3 DEF Listing, PassedIn, At
    <2> QED BY <1>1, <1>2, <1>3, <2>1, TurnStays
  <1>4. ASSUME NEW r \in Requests, Only(r), memory'[p] = memory[p],
               r \notin Listing(p), r \notin PassedIn(p),
               ~(req'[r].pc \in {"listing", "checking", "appending"} /\ req'[r].process = p),
               ~(req'[r].pc = "passed" /\ req'[r].via = "memory" /\ req'[r].process = p)
        PROVE  InTurn(p)'
    <2>1. Listing(p)' = Listing(p) /\ PassedIn(p)' = PassedIn(p)
      BY <1>4 DEF Listing, PassedIn, At, Only
    <2>2. \A x \in Listing(p) \cup PassedIn(p) : req'[x] = req[x]
      BY <1>4 DEF Listing, PassedIn, Only
    <2> QED BY <1>1, <1>2, <1>4, <2>1, <2>2, TurnStays
  <1>5. ASSUME NEW r \in Requests, req[r].pc \in {"idle", "sending"}
        PROVE  r \notin Listing(p) /\ r \notin PassedIn(p) /\ req[r].i = 0 /\ req[r].kept = <<>>
    BY <1>1, <1>5 DEF Listing, PassedIn, At, CallsAreInOrder
  <1>6. CASE UNCHANGED vars
    BY <1>3, <1>6 DEF vars
  <1>7. CASE Tick
    BY <1>1, <1>3, <1>7, TickEffect
  <1>8. ASSUME NEW r \in Requests, NEW x \in Processes, Ask(r, x) PROVE InTurn(p)'
    <2>1. /\ req[r].pc = "idle" /\ Only(r) /\ memory' = memory /\ now' = now
          /\ req'[r].pc \in {"sending", "listing"} /\ req'[r].process = x /\ req'[r].at = now
          /\ req'[r].i = req[r].i /\ req'[r].kept = req[r].kept
          /\ req'[r].pc = "listing" => Share(x)
      BY <1>1, <1>8, AskEffect
    <2>2. CASE req'[r].pc = "listing" /\ x = p
      <3>1. Listing(p) = {}
        BY <1>1, <2>1, <2>2, ShareKeeps
      <3> QED BY <1>1, <1>2, <1>5, <2>1, <2>2, <3>1, TurnBegins
    <2>3. CASE ~(req'[r].pc = "listing" /\ x = p)
      BY <1>4, <1>5, <2>1, <2>3
    <2> QED BY <2>2, <2>3
  <1>9. ASSUME NEW r \in Requests, Execute(r) PROVE InTurn(p)'
    <2>1. /\ req[r].pc = "sending" /\ req'[r].pc \in {"passed", "refused"} /\ req'[r].via = "redis"
          /\ Only(r) /\ memory' = memory
      BY <1>1, <1>9, ExecuteEffect DEF CallsAreInOrder
    <2> QED BY <1>4, <1>5, <2>1
  <1>10. ASSUME NEW r \in Requests, Fail(r) PROVE InTurn(p)'
    <2>1. /\ req[r].pc = "sending" /\ Only(r) /\ memory' = memory /\ now' = now
          /\ req'[r].pc = "listing" /\ req'[r].process = req[r].process /\ req'[r].at = now
          /\ req'[r].i = req[r].i /\ req'[r].kept = req[r].kept
          /\ Share(req[r].process)
      BY <1>1, <1>10, FailEffect
    <2>2. CASE req[r].process = p
      <3>1. Listing(p) = {}
        BY <1>1, <2>1, <2>2, ShareKeeps
      <3> QED BY <1>1, <1>2, <1>5, <2>1, <2>2, <3>1, TurnBegins
    <2>3. CASE req[r].process # p
      BY <1>4, <1>5, <2>1, <2>3
    <2> QED BY <2>2, <2>3
  <1>11. ASSUME NEW r \in Requests, Lists(r) PROVE InTurn(p)'
    <2>1. CASE req[r].process = p
      BY <1>2, <1>11, <2>1, VisitTurn, AssignTurn, CheckTurn, AddTurn DEF Lists
    <2>2. CASE req[r].process # p
      <3>1. /\ Only(r) /\ memory'[p] = memory[p] /\ req'[r].process # p
        BY <1>1, <1>11, <2>2, ListsEffect
      <3>2. r \notin Listing(p) /\ r \notin PassedIn(p)
        BY <2>2 DEF Listing, PassedIn
      <3> QED BY <1>4, <3>1, <3>2
    <2> QED BY <2>1, <2>2
  <1> QED BY <1>6, <1>7, <1>8, <1>9, <1>10, <1>11, StepKinds

InMemory(p, t) == {r \in Passed("memory", t) : req[r].process = p}

\* The last of a window saw all those that passed in it: the list has room for
\* them only while they are fewer than the limit.
LEMMA NextMemoryWindow == RateInv /\ [Next]_vars => MemoryWindow'
  <1> SUFFICES ASSUME RateInv, [Next]_vars, NEW t \in 0..MaxTime, NEW p \in Processes, p \notin shared'
               PROVE  Cardinality(InMemory(p, t)') <= MaxAllowed
    BY DEF MemoryWindow, InMemory
  <1>1. /\ TypeOK /\ Moves /\ TimesArePast /\ CallsAreInOrder
        /\ Window \in Nat /\ MaxAllowed \in Nat /\ t \in Nat
        /\ \A x \in Requests : req[x].at \in Nat
    BY Times, NextMoves DEF RateInv
  <1>2. InTurn(p) /\ Cardinality(InMemory(p, t)) <= MaxAllowed
    BY <1>1 DEF RateInv, ListsInTurn, MemoryWindow, InMemory, Moves
  <1>3. ASSUME req' = req PROVE InMemory(p, t)' = InMemory(p, t)
    BY <1>3 DEF InMemory, Passed, At, Within
  <1>4. ASSUME NEW r \in Requests, Only(r), req[r].pc # "passed",
               ~(req'[r].pc = "passed" /\ req'[r].via = "memory" /\ req'[r].process = p)
        PROVE  InMemory(p, t)' = InMemory(p, t)
    BY <1>4 DEF InMemory, Passed, At, Within, Only
  <1>5. CASE UNCHANGED vars
    BY <1>2, <1>3, <1>5 DEF vars
  <1>6. CASE Tick
    BY <1>1, <1>2, <1>3, <1>6, TickEffect
  <1>7. ASSUME NEW r \in Requests, NEW x \in Processes, Ask(r, x) PROVE InMemory(p, t)' = InMemory(p, t)
    BY <1>1, <1>4, <1>7, AskEffect
  <1>8. ASSUME NEW r \in Requests, Execute(r) PROVE InMemory(p, t)' = InMemory(p, t)
    BY <1>1, <1>4, <1>8, ExecuteEffect DEF CallsAreInOrder
  <1>9. ASSUME NEW r \in Requests, Fail(r) PROVE InMemory(p, t)' = InMemory(p, t)
    BY <1>1, <1>4, <1>9, FailEffect
  <1>10. ASSUME NEW r \in Requests, Visit(r) \/ Assign(r) \/ Check(r) PROVE InMemory(p, t)' = InMemory(p, t)
    BY <1>1, <1>4, <1>10, VisitEffect, AssignEffect, CheckEffect
  <1>11. ASSUME NEW r \in Requests, Add(r) PROVE Cardinality(InMemory(p, t)') <= MaxAllowed
    <2>1. /\ req[r].pc = "appending" /\ Only(r) /\ req'[r].pc = "passed" /\ req'[r].via = "memory"
          /\ req'[r].process = req[r].process /\ req'[r].at = req[r].at
      BY <1>1, <1>11, AddEffect DEF CallsAreInOrder
    <2>2. CASE req[r].process # p \/ ~Within(req[r].at, t)
      <3>1. InMemory(p, t)' = InMemory(p, t)
        BY <2>1, <2>2 DEF InMemory, Passed, At, Within, Only
      <3> QED BY <1>2, <3>1
    <2>3. CASE req[r].process = p /\ Within(req[r].at, t)
      <3> DEFINE L == memory[p]
                 T == Entries(Append(L, Mine(r)))
                 S == InMemory(p, t)'
                 f == [q \in S |-> Mine(q)]
      <3>1. /\ Listing(p) = {r} /\ Works(r) /\ List(r) = L /\ L \in Seq(Stamp) /\ Len(L) \in Nat
            /\ Mine(r) \in Stamp
        BY <1>1, <1>2, <1>11, <2>3, TurnFacts, MineIs DEF Lists
      <3>2. T = Entries(L) \cup {Mine(r)}
        BY <3>1, AppendEntries
      <3>3. Append(L, Mine(r)) \in Seq(Stamp) /\ Len(Append(L, Mine(r))) = Len(L) + 1
        BY <3>1, AppendProperties
      <3>4. IsFiniteSet(T) /\ Cardinality(T) <= Len(L) + 1 /\ Cardinality(T) \in Nat
        BY <3>3, EntriesCount
      <3>5. Len(L) + 1 <= MaxAllowed
        BY <1>1, <2>1, <3>1 DEF Works, At
      <3>6. ASSUME NEW q \in S PROVE q \in Requests /\ Mine(q) \in T /\ Mine(q).by = q
        <4>1. q \in Requests
          BY DEF InMemory, Passed
        <4>2. CASE q = r
          BY <1>1, <3>2, <4>1, <4>2, MineIs
        <4>3. CASE q # r
          <5>1. q \in PassedIn(p) /\ t <= req[q].at
            BY <2>1, <4>1, <4>3 DEF InMemory, Passed, PassedIn, At, Within, Only
          <5>2. req[r].at < t + Window
            BY <2>3 DEF Within
          <5>3. req[r].at < req[q].at + Window
            BY <1>1, <4>1, <5>1, <5>2
          <5>4. Mine(q) \in Entries(L)
            BY <1>2, <3>1, <5>1, <5>3 DEF InTurn, ListRemembers
          <5> QED BY <1>1, <3>2, <4>1, <5>4, MineIs
        <4> QED BY <4>2, <4>3
      <3>7. /\ f \in [S -> T]
            /\ \A x, y \in S : f[x] = f[y] => x = y
        BY <3>6
      <3> HIDE DEF S, f, T
      <3>8. Cardinality(S) <= Cardinality(T) /\ Cardinality(S) \in Nat
        BY <3>4, <3>7, Counting
      <3>9. Cardinality(S) <= MaxAllowed
        BY <1>1, <3>1, <3>4, <3>5, <3>8
      <3> QED BY <3>9 DEF S
    <2> QED BY <2>2, <2>3
  <1> QED BY <1>2, <1>5, <1>6, <1>7, <1>8, <1>9, <1>10, <1>11, StepKinds DEF Lists

-----------------------------------------------------------------------------
(* Refusals *)

\* Who was asked for in the window stays so: a call may only read the clock again.
LEMMA AskedStays ==
  ASSUME RateInv, [Next]_vars, NEW r \in Requests, req'[r] = req[r]
  PROVE  /\ Asked(r) \subseteq Asked(r)' /\ IsFiniteSet(Asked(r)')
         /\ Cardinality(Asked(r)) <= Cardinality(Asked(r)')
         /\ Cardinality(Asked(r)) \in Nat /\ Cardinality(Asked(r)') \in Nat
  <1>1. TypeOK /\ TypeOK' /\ Moves /\ FiniteSoFar'
    BY NextTypeOK, NextMoves, NextInOrder DEF RateInv
  <1>2. /\ Window \in Nat /\ \A x \in Requests : req[x].at \in Nat /\ req'[x].at \in Nat
    BY <1>1, Times DEF TypeOK, Call
  <1>3. Asked(r) \subseteq Asked(r)'
    BY <1>1, <1>2 DEF Asked, At, Moves
  <1>4. Asked(r)' \subseteq Started'
    BY DEF Asked, Started, At
  <1>5. IsFiniteSet(Asked(r)')
    BY <1>1, <1>4, FS_Subset DEF FiniteSoFar
  <1> QED BY <1>3, <1>5, FS_Subset, FS_CardinalityType

LEMMA AskedIsFinite ==
  ASSUME RateInv, [Next]_vars, NEW r \in Requests
  PROVE  IsFiniteSet(Asked(r)')
  <1>1. FiniteSoFar'
    BY NextInOrder
  <1>2. Asked(r)' \subseteq Started'
    BY DEF Asked, Started, At
  <1> QED BY <1>1, <1>2, FS_Subset DEF FiniteSoFar

LEMMA ExecuteRefusal ==
  ASSUME RateInv, [Next]_vars, NEW r \in Requests, Execute(r), req'[r].pc = "refused"
  PROVE  Cardinality(Asked(r)') >= MaxAllowed
  <1>1. /\ TypeOK /\ EntriesAreRequests /\ FiniteSoFar
        /\ Window \in Nat /\ MaxAllowed \in Nat /\ \A x \in Requests : req[x].at \in Nat
        /\ \A e \in Stamp : e.at \in Nat /\ e.by \in Requests
    BY Times DEF RateInv
  <1>2. /\ req[r].pc = "sending" /\ Only(r) /\ req'[r].at = req[r].at
        /\ ~(Cardinality(Slid(r)) <= MaxAllowed)
    BY <1>1, ExecuteEffect
  <1>3. /\ IsFiniteSet(Slid(r)) /\ Slid(r) \subseteq Stamp /\ Mine(r) \in Slid(r)
        /\ \A e \in Slid(r) : (e \in zset \/ e = Mine(r)) /\ e.at + Window > req[r].at
    BY <1>1, SlidIs DEF FiniteSoFar
  <1> DEFINE S == Slid(r) \ {Mine(r)}
             T == Asked(r)'
             f == [e \in S |-> e.by]
  <1>4. Cardinality(S) = Cardinality(Slid(r)) - 1 /\ Cardinality(Slid(r)) \in Nat
    BY <1>3, FS_RemoveElement, FS_CardinalityType
  <1>5. ASSUME NEW e \in S PROVE e.by \in T
    <2>1. /\ e \in zset /\ e.by \in Requests /\ e.at \in Nat /\ e.at + Window > req[r].at
          /\ req[e.by].pc \notin {"idle", "sending"} /\ e.at <= req[e.by].at
      BY <1>1, <1>3 DEF EntriesAreRequests
    <2>2. e.by # r /\ req'[e.by] = req[e.by]
      BY <1>2, <2>1 DEF Only
    <2>3. req[e.by].at + Window > req[r].at
      BY <1>1, <2>1
    <2> QED BY <1>2, <2>1, <2>2, <2>3 DEF Asked, At
  <1>6. \A d, e \in S : d.by = e.by => d = e
    BY <1>1, <1>3 DEF EntriesAreRequests
  <1>7. /\ f \in [S -> T]
        /\ \A d, e \in S : f[d] = f[e] => d = e
    BY <1>5, <1>6
  <1>8. IsFiniteSet(T)
    BY AskedIsFinite
  <1> HIDE DEF S, T, f
  <1>9. Cardinality(S) <= Cardinality(T) /\ Cardinality(S) \in Nat /\ Cardinality(T) \in Nat
    BY <1>7, <1>8, Counting
  <1>10. Cardinality(T) >= MaxAllowed
    BY <1>1, <1>2, <1>4, <1>9
  <1> QED BY <1>10 DEF T

LEMMA CheckRefusal ==
  ASSUME RateInv, [Next]_vars, NEW r \in Requests, Check(r), req'[r].pc = "refused",
         req[r].process \notin shared
  PROVE  Cardinality(Asked(r)') >= MaxAllowed
  <1>1. PICK p \in Processes : p = req[r].process
    BY CallMoves DEF RateInv
  <1>2. InTurn(p)
    BY <1>1 DEF RateInv, ListsInTurn
  <1> DEFINE L == memory[p]
             S == 1..Len(L)
             T == Asked(r)'
             f == [j \in S |-> L[j].by]
  <1>3. /\ Listing(p) = {r} /\ r \notin PassedIn(p) /\ Works(r) /\ List(r) = L /\ Len(L) \in Nat
        /\ L \in Seq(Stamp)
    BY <1>1, <1>2, TurnFacts DEF Lists
  <1>4. /\ req[r].pc = "checking" /\ Only(r) /\ req'[r].at = req[r].at
        /\ req'[r].pc = IF Len(L) >= MaxAllowed THEN "refused" ELSE "appending"
    BY <1>3, CheckEffect DEF RateInv
  <1>5. ASSUME NEW j \in S PROVE L[j].by \in T
    <2>1. PICK e : e = L[j] /\ e \in Entries(L)
      BY <1>3 DEF Entries
    <2>2. e.by \in PassedIn(p) /\ e = Mine(e.by) /\ Recent(r, e)
      BY <1>2, <1>3, <1>4, <2>1 DEF InTurn, ListIsOfPassed, Works
    <2>3. e.by \in Requests \ {r} /\ req[e.by].pc = "passed" /\ e.at = req[e.by].at
      BY <1>3, <2>2, MineIs DEF PassedIn, At, RateInv
    <2>4. req[e.by].at + Window > req[r].at
      BY <2>2, <2>3, Times DEF Recent, RateInv
    <2> QED BY <1>4, <2>1, <2>3, <2>4 DEF Asked, At, Only
  <1>6. \A j, k \in S : L[j].by = L[k].by => j = k
    BY <1>2, <1>3 DEF InTurn, ListIsOfPassed, Distinct
  <1>7. /\ f \in [S -> T]
        /\ \A j, k \in S : f[j] = f[k] => j = k
    BY <1>5, <1>6
  <1>8. IsFiniteSet(T) /\ Cardinality(S) = Len(L) /\ Len(L) >= MaxAllowed /\ MaxAllowed \in Nat
    <2>1. Cardinality(1..Len(L)) = Len(L)
      BY <1>3, FS_Interval
    <2>2. Len(L) >= MaxAllowed /\ MaxAllowed \in Nat
      BY <1>4, NumbersAreNatural
    <2>3. IsFiniteSet(Asked(r)')
      BY AskedIsFinite
    <2> QED BY <2>1, <2>2, <2>3
  <1> HIDE DEF S, T, f
  <1>9. Cardinality(S) <= Cardinality(T) /\ Cardinality(S) \in Nat /\ Cardinality(T) \in Nat
    BY <1>7, <1>8, Counting
  <1>10. Cardinality(T) >= MaxAllowed
    BY <1>8, <1>9
  <1> QED BY <1>10 DEF T

LEMMA NextRefusals == RateInv /\ [Next]_vars => RefusalsAreEarned'
  <1> SUFFICES ASSUME RateInv, [Next]_vars, NEW r \in Requests, req'[r].pc = "refused",
                      req'[r].via = "redis" \/ req'[r].process \notin shared'
               PROVE  Cardinality(Asked(r)') >= MaxAllowed
    BY DEF RefusalsAreEarned, At
  <1>1. TypeOK /\ Moves /\ CallsAreInOrder /\ MaxAllowed \in Nat
    BY NextMoves, Times DEF RateInv
  <1>2. ASSUME req'[r] = req[r] PROVE Cardinality(Asked(r)') >= MaxAllowed
    <2>1. Cardinality(Asked(r)) >= MaxAllowed
      BY <1>1, <1>2 DEF RateInv, RefusalsAreEarned, At, Moves
    <2>2. /\ Cardinality(Asked(r)) <= Cardinality(Asked(r)')
          /\ Cardinality(Asked(r)) \in Nat /\ Cardinality(Asked(r)') \in Nat
      BY <1>2, AskedStays
    <2> QED BY <1>1, <2>1, <2>2
  <1>3. CASE UNCHANGED vars
    BY <1>2, <1>3 DEF vars
  <1>4. CASE Tick
    BY <1>1, <1>2, <1>4, TickEffect
  <1>5. ASSUME NEW q \in Requests, NEW p \in Processes, Ask(q, p) PROVE req'[r] = req[r]
    BY <1>1, <1>5, AskEffect DEF Only
  <1>6. ASSUME NEW q \in Requests, Fail(q) PROVE req'[r] = req[r]
    BY <1>1, <1>6, FailEffect DEF Only
  <1>7. ASSUME NEW q \in Requests, Execute(q) PROVE Cardinality(Asked(r)') >= MaxAllowed
    <2>1. CASE q = r
      BY <1>7, <2>1, ExecuteRefusal
    <2>2. CASE q # r
      BY <1>1, <1>2, <1>7, <2>2, ExecuteEffect DEF Only
    <2> QED BY <2>1, <2>2
  <1>8. ASSUME NEW q \in Requests, Visit(q) \/ Assign(q) \/ Add(q) PROVE req'[r] = req[r]
    BY <1>1, <1>8, VisitEffect, AssignEffect, AddEffect DEF Only
  <1>9. ASSUME NEW q \in Requests, Check(q) PROVE Cardinality(Asked(r)') >= MaxAllowed
    <2>1. CASE q = r
      <3>1. req[r].process \notin shared
        BY <1>1, <1>9, <2>1, CheckEffect DEF CallsAreInOrder
      <3> QED BY <1>9, <2>1, <3>1, CheckRefusal
    <2>2. CASE q # r
      BY <1>1, <1>2, <1>9, <2>2, CheckEffect DEF Only
    <2> QED BY <2>1, <2>2
  <1> QED BY <1>2, <1>3, <1>4, <1>5, <1>6, <1>7, <1>8, <1>9, StepKinds DEF Lists

-----------------------------------------------------------------------------
(* The theorems *)

\* Nobody has asked yet.
LEMMA InitRateInv == Init => RateInv
  <1> SUFFICES ASSUME Init PROVE RateInv
    OBVIOUS
  <1>1. PICK p \in Processes : req = [r \in Requests |-> [pc |-> "idle", process |-> p, via |-> "redis",
                                       at |-> 0, i |-> 0, kept |-> <<>>, done |-> 0]]
    BY DEF Init
  <1>2. /\ now = 0 /\ ttl = 0 /\ connected \in SUBSET Processes /\ zset = {} /\ shared = {}
        /\ memory = [x \in Processes |-> <<>>]
    BY DEF Init
  <1>3. 0 \in 0..MaxTime /\ 0 \in 0..MaxTime + Window /\ <<>> \in Seq(Stamp) /\ 0 \in Nat
    BY NumbersAreNatural, EmptySeq
  <1>4. TypeOK
    <2>1. PICK none \in Seq(Stamp) : none = <<>>
      BY <1>3
    <2>2. [pc |-> "idle", process |-> p, via |-> "redis", at |-> 0, i |-> 0, kept |-> none, done |-> 0] \in Call
      BY <1>3 DEF Call
    <2>3. req \in [Requests -> Call]
      BY <1>1, <2>1, <2>2
    <2> QED BY <1>2, <1>3, <2>3 DEF TypeOK
  <1>5. \A r \in Requests : req[r].pc = "idle" /\ req[r].at = 0 /\ req[r].i = 0 /\ req[r].kept = <<>>
    BY <1>1
  <1>6. TimesArePast
    BY <1>2, <1>5, NumbersAreNatural DEF TimesArePast
  <1>7. FiniteSoFar
    <2>1. Started = {}
      BY <1>5 DEF Started, At
    <2> QED BY <1>2, <2>1, FS_EmptySet DEF FiniteSoFar
  <1>8. CallsAreInOrder /\ EntriesAreRequests /\ RedisRemembers /\ RefusalsAreEarned
    BY <1>2, <1>5 DEF CallsAreInOrder, EntriesAreRequests, RedisRemembers, RefusalsAreEarned, At
  <1>9. ASSUME NEW x \in Processes PROVE InTurn(x)
    <2>1. Listing(x) = {} /\ PassedIn(x) = {}
      BY <1>5 DEF Listing, PassedIn, At
    <2>2. memory[x] = <<>> /\ Entries(<<>>) = {} /\ Distinct(<<>>)
      BY <1>2 DEF Entries, Distinct
    <2> QED BY <2>1, <2>2 DEF InTurn, ListIsOfPassed, ListRemembers
  <1>10. RedisWindow /\ MemoryWindow
    <2>1. \A via, t : Passed(via, t) = {}
      BY <1>5 DEF Passed, At
    <2>2. \A t : InRedis(t) = {} /\ \A x : InMemory(x, t) = {}
      BY <2>1 DEF InRedis, InMemory
    <2>3. Cardinality({}) <= MaxAllowed
      BY FS_EmptySet, NumbersAreNatural
    <2> QED BY <2>2, <2>3 DEF RedisWindow, MemoryWindow, InRedis, InMemory
  <1> QED BY <1>4, <1>6, <1>7, <1>8, <1>9, <1>10 DEF RateInv, ListsInTurn

LEMMA NextRateInv == RateInv /\ [Next]_vars => RateInv'
  <1> SUFFICES ASSUME RateInv, [Next]_vars PROVE RateInv'
    OBVIOUS
  <1>1. TypeOK' /\ TimesArePast' /\ FiniteSoFar' /\ CallsAreInOrder'
    BY NextTypeOK, NextInOrder DEF RateInv
  <1>2. EntriesAreRequests' /\ RedisRemembers' /\ RedisWindow'
    BY NextEntries, NextRemembers, NextRedisWindow
  <1>3. ListsInTurn' /\ MemoryWindow' /\ RefusalsAreEarned'
    BY NextTurns, NextMemoryWindow, NextRefusals
  <1> QED BY <1>1, <1>2, <1>3 DEF RateInv

\* The inductive invariant of the limiter.
THEOREM RateInvariant == Spec => []RateInv
  <1> QED BY InitRateInv, NextRateInv, PTL DEF Spec

\* The sorted set, the lists and the calls keep their types.
THEOREM RateTypeCorrect == Spec => []TypeOK
  <1>1. RateInv => TypeOK
    BY DEF RateInv
  <1> QED BY RateInvariant, <1>1, PTL

\* _allow_redis: no window sees more than max_requests pass, from any number of
\* processes and threads.
THEOREM RedisKeepsTheLimit == Spec => []RedisWindow
  <1>1. RateInv => RedisWindow
    BY DEF RateInv
  <1> QED BY RateInvariant, <1>1, PTL

\* _allow_memory: a process keeps the limit as long as its calls come one by one.
THEOREM MemoryKeepsTheLimit == Spec => []MemoryWindow
  <1>1. RateInv => MemoryWindow
    BY DEF RateInv
  <1> QED BY RateInvariant, <1>1, PTL

\* Whoever is refused was one of too many.
THEOREM RefusalIsEarned == Spec => []RefusalsAreEarned
  <1>1. RateInv => RefusalsAreEarned
    BY DEF RateInv
  <1> QED BY RateInvariant, <1>1, PTL
=============================================================================
