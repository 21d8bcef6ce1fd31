----------------------------- MODULE RateLimiter -----------------------------
(***************************************************************************)
(* RateLimiter of app/core/security.py for one key: the sliding window in  *)
(* Redis, shared by all processes, and the list each process keeps in      *)
(* memory when Redis does not answer.                                      *)
(*                                                                         *)
(* The routes that ask are plain functions: the threads of a pool run them *)
(* at the same time and share the list without a lock.  The Redis commands *)
(* are one pipeline (MULTI/EXEC), a single step of the server; the time is *)
(* read before it is sent.  A thread may be interrupted between any two    *)
(* accesses to the list: the comprehension reads it element by element,    *)
(* the slice assignment, the length and the append are one access each.    *)
(* Two requests never read the very same time: it is a float of seconds,   *)
(* the clock of the model counts coarser ticks.                            *)
(***************************************************************************)
EXTENDS Naturals, Sequences, FiniteSets

CONSTANTS
  Requests,   \* calls of allow for the key: a bound
  Processes,  \* API processes, each with its own list
  Threads,    \* calls that can be under way at one time: a bound
  MaxAllowed, \* max_requests
  Window,     \* window_seconds, in ticks
  MaxTime     \* bound: the clock stops here

ASSUME NumbersAreNatural == /\ Threads \in Nat \ {0} /\ MaxAllowed \in Nat \ {0}
                            /\ Window \in Nat \ {0} /\ MaxTime \in Nat

VARIABLES
  now,        \* time.time()
  connected,  \* the processes whose ping of Redis succeeded when they started
  zset,       \* the sorted set of the key
  ttl,        \* when Redis drops it
  memory,     \* memory[p]: the list of the key in process p
  req,        \* where each call stands
  shared      \* processes whose list two calls have worked on at once (history)

vars == <<now, connected, zset, ttl, memory, req, shared>>

\* An entry of either window: a request and the time it has read.
Stamp == [by : Requests, at : 0..MaxTime]
Call == [pc : {"idle", "sending", "listing", "checking", "appending", "passed", "refused"},
         process : Processes, via : {"redis", "memory"},
         at : 0..MaxTime, i : Nat, kept : Seq(Stamp),
         done : 0..MaxTime]   \* when Redis has executed it (history)

TypeOK == /\ now \in 0..MaxTime /\ ttl \in 0..MaxTime + Window
          /\ connected \in SUBSET Processes
          /\ zset \in SUBSET Stamp
          /\ memory \in [Processes -> Seq(Stamp)]
          /\ req \in [Requests -> Call]
          /\ shared \in SUBSET Processes

Init == /\ now = 0 /\ ttl = 0
        /\ connected \in SUBSET Processes
        /\ zset = {} /\ shared = {}
        /\ memory = [p \in Processes |-> <<>>]
        /\ \E p \in Processes :
             req = [r \in Requests |-> [pc |-> "idle", process |-> p, via |-> "redis",
                                        at |-> 0, i |-> 0, kept |-> <<>>, done |-> 0]]

-----------------------------------------------------------------------------
At(r, pc) == req[r].pc = pc
Go(r, pc) == req' = [req EXCEPT ![r].pc = pc]
Busy == {r \in Requests : req[r].pc \notin {"idle", "passed", "refused"}}
Mine(r) == [by |-> r, at |-> req[r].at]
List(r) == memory[req[r].process]
Listing(p) == {r \in Requests : req[r].process = p /\ req[r].pc \in {"listing", "checking", "appending"}}
Share(p) == shared' = IF Listing(p) = {} THEN shared ELSE shared \cup {p}
Put(r, list) == memory' = [memory EXCEPT ![req[r].process] = list]

\* Redis drops a key that nobody has used for a whole window.
Tick == /\ now < MaxTime
        /\ now' = now + 1
        /\ zset' = IF now' >= ttl THEN {} ELSE zset
        /\ UNCHANGED <<connected, ttl, memory, req, shared>>

-----------------------------------------------------------------------------
Ask(r, p) ==
  /\ At(r, "idle")
  /\ Cardinality(Busy) < Threads
  /\ req' = [req EXCEPT ![r] = [@ EXCEPT !.process = p, !.at = now,
                                         !.pc = IF p \in connected THEN "sending" ELSE "listing",
                                         !.via = IF p \in connected THEN "redis" ELSE "memory"]]
  /\ IF p \in connected THEN UNCHANGED shared ELSE Share(p)
  /\ UNCHANGED <<now, connected, zset, ttl, memory>>

\* Mutation of Slid: nothing is removed from the set.
SlidNever(r) == zset \cup {Mine(r)}

\* The window the pipeline leaves in Redis: its own request is counted, and
\* so are those that were refused.
Slid(r) == {e \in zset : e.at + Window > req[r].at} \cup {Mine(r)}

\* Mutation of Execute: the request is counted before it is added.
ExecuteCountsBefore(r) ==
  /\ At(r, "sending")
  /\ zset' = Slid(r)
  /\ ttl' = now + Window
  /\ req' = [req EXCEPT ![r].done = now,
       ![r].pc = IF Cardinality(Slid(r) \ {Mine(r)}) <= MaxAllowed THEN "passed" ELSE "refused"]
  /\ UNCHANGED <<now, connected, memory, shared>>

Execute(r) ==
  /\ At(r, "sending")
  /\ zset' = Slid(r)
  /\ ttl' = now + Window
  /\ req' = [req EXCEPT ![r].done = now,
       ![r].pc = IF Cardinality(Slid(r)) <= MaxAllowed THEN "passed" ELSE "refused"]
  /\ UNCHANGED <<now, connected, memory, shared>>

\* The call of Redis fails, before or after the server has executed it.
Fail(r) ==
  /\ At(r, "sending")
  /\ \/ UNCHANGED <<zset, ttl>>
     \/ zset' = Slid(r) /\ ttl' = now + Window
  /\ req' = [req EXCEPT ![r] = [@ EXCEPT !.pc = "listing", !.via = "memory", !.at = now]]
  /\ Share(req[r].process)
  /\ UNCHANGED <<now, connected, memory>>

-----------------------------------------------------------------------------
(* _allow_memory *)

Recent(r, e) == req[r].at < e.at + Window

\* The comprehension takes the next element of the list, whatever it is now.
Visit(r) ==
  /\ At(r, "listing")
  /\ req[r].i < Len(List(r))
  /\ LET e == List(r)[req[r].i + 1] IN
       req' = [req EXCEPT ![r].i = @ + 1,
                          ![r].kept = IF Recent(r, e) THEN Append(@, e) ELSE @]
  /\ UNCHANGED <<now, connected, zset, ttl, memory, shared>>

Assign(r) ==
  /\ At(r, "listing")
  /\ req[r].i >= Len(List(r))
  /\ Put(r, req[r].kept)
  /\ req' = [req EXCEPT ![r].pc = "checking", ![r].i = 0, ![r].kept = <<>>]
  /\ UNCHANGED <<now, connected, zset, ttl, shared>>

\* Mutation of Check: one request too many.
CheckOffByOne(r) ==
  /\ At(r, "checking")
  /\ Go(r, IF Len(List(r)) > MaxAllowed THEN "refused" ELSE "appending")
  /\ UNCHANGED <<now, connected, zset, ttl, memory, shared>>

Check(r) ==
  /\ At(r, "checking")
  /\ Go(r, IF Len(List(r)) >= MaxAllowed THEN "refused" ELSE "appending")
  /\ UNCHANGED <<now, connected, zset, ttl, memory, shared>>

Add(r) ==
  /\ At(r, "appending")
  /\ Put(r, Append(List(r), Mine(r)))
  /\ Go(r, "passed")
  /\ UNCHANGED <<now, connected, zset, ttl, shared>>

AllowRedis(r) == Execute(r) \/ Fail(r)
AllowMemory(r) == Visit(r) \/ Assign(r) \/ Check(r) \/ Add(r)

Next == \/ Tick
        \/ \E r \in Requests : \/ \E p \in Processes : Ask(r, p)
                               \/ AllowRedis(r) \/ AllowMemory(r)

Spec == Init /\ [][Next]_vars

-----------------------------------------------------------------------------
(* Properties *)

Within(time, t) == t <= time /\ time < t + Window
Passed(via, t) == {r \in Requests : At(r, "passed") /\ req[r].via = via /\ Within(req[r].at, t)}

\* In no window of time do more than max_requests read the clock, reach Redis
\* and pass, whichever processes they come from and in whatever order; more
\* can pass only by reaching Redis after the window.
RedisWindow ==
  \A t \in 0..MaxTime :
    Cardinality({r \in Passed("redis", t) : Within(req[r].done, t)}) <= MaxAllowed

\* A process whose calls came one by one keeps the limit in memory, but only
\* for itself.
MemoryWindow ==
  \A t \in 0..MaxTime : \A p \in Processes \ shared :
    Cardinality({r \in Passed("memory", t) : req[r].process = p}) <= MaxAllowed

Asked(r) == {x \in Requests \ {r} : ~At(x, "idle") /\ req[x].at + Window > req[r].at}

\* A request is refused only when max_requests others were made in the window
\* before it, or since: whoever waits a whole window alone passes.
RefusalsAreEarned ==
  \A r \in Requests : At(r, "refused") /\ (req[r].via = "redis" \/ req[r].process \notin shared) =>
    Cardinality(Asked(r)) >= MaxAllowed
=============================================================================
