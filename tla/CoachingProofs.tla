--------------------------- MODULE CoachingProofs ---------------------------
(***************************************************************************)
(* Theorems about Coaching, for all values of its constants.               *)
(***************************************************************************)
EXTENDS Coaching, FiniteSetTheorems, TLAPS

(* The inductive invariant *)

\* The requests that will still store a message, or a reply, in a conversation.
Answering(c) == {r \in Requests : req[r].conv = c /\ req[r].pc \in {"asking", "replying"}}

\* There is room for what they will store.
MessagesFit ==
  \A c \in Convs : /\ conv[c].user + Cardinality(Asking(c)) <= MaxMessages
                   /\ conv[c].replies + Cardinality(Answering(c)) <= MaxMessages

\* An id not given out yet belongs to no scenario.
FreshConversations == \A c \in Convs : conv[c].state = "none" => conv[c].scenario = NoScenario

\* No row, no conversation; a row that points nowhere has lost its conversation.
RowsAndConversations ==
  \A s \in Scenarios :
    /\ progress[s].status = "none" =>
         progress[s].conv = NoConv /\ progress[s].completed_at = "null" /\ ConvsOf(s) = {}
    /\ progress[s].status # "none" /\ progress[s].conv = NoConv => Deleted(s)

\* What a request has read stays true enough: of a start, that the conversation
\* it replaces is deleted; of a completion, whose conversation it counts, that its
\* row exists, and that a status it saw completed still is, or its conversation gone.
Knows(r) ==
  /\ req[r].pc = "starting" =>
       req[r].scenario \in Scenarios /\ (req[r].status # "none" => Deleted(req[r].scenario))
  /\ req[r].pc \in {"counting", "finishing"} =>
       /\ req[r].scenario \in Scenarios /\ req[r].conv \in ConvsOf(req[r].scenario)
       /\ progress[req[r].scenario].status # "none"
       /\ req[r].status = "completed" =>
            progress[req[r].scenario].status = "completed" \/ Deleted(req[r].scenario)
  /\ req[r].pc = "finishing" => conv[req[r].conv].user >= MinMessages
  /\ req[r].pc \in {"asking", "replying"} => req[r].conv \in Convs

RequestsKnow == \A r \in Requests : Knows(r)

CoachingInv ==
  /\ TypeOK
  /\ MessagesFit
  /\ FreshConversations
  /\ RowsAndConversations
  /\ RequestsKnow
  /\ LinkIsLive
  /\ CompletedMeansPractised
  /\ StartedOnce
  /\ FinishedUnlessDeleted
-----------------------------------------------------------------------------
(* Types, and the room for messages *)

\* A set of requests is finite.
LEMMA SomeRequests ==
  ASSUME NEW R \in SUBSET Requests
  PROVE  /\ IsFiniteSet(R) /\ Cardinality(R) \in Nat
         /\ \A r : /\ r \notin R => Cardinality(R \cup {r}) = Cardinality(R) + 1
                   /\ r \in R => Cardinality(R \ {r}) = Cardinality(R) - 1
         /\ \A T \in SUBSET R : Cardinality(T) \in Nat /\ Cardinality(T) <= Cardinality(R)
  <1>1. IsFiniteSet(R)
    BY RequestsAreFinite, FS_Subset
  <1> QED BY <1>1, FS_CardinalityType, FS_AddElement, FS_RemoveElement, FS_Subset

\* What End and the other assignments do to a request.
LEMMA RequestMoves ==
  ASSUME TypeOK, NEW r \in Requests
  PROVE  /\ Idle \in Request /\ Idle.pc = "idle" /\ Idle.conv = NoConv /\ req[r] \in Request
         /\ \A x \in Request : /\ [req EXCEPT ![r] = x] \in [Requests -> Request]
                               /\ [req EXCEPT ![r] = x][r] = x
                               /\ \A q \in Requests \ {r} : [req EXCEPT ![r] = x][q] = req[q]
         /\ \A pc \in {"finishing", "replying"} :
              /\ [req EXCEPT ![r].pc = pc] = [req EXCEPT ![r] = [req[r] EXCEPT !.pc = pc]]
              /\ [req[r] EXCEPT !.pc = pc] \in Request
  BY DEF TypeOK, Idle, Request, Statuses

\* The initial state is well typed.
LEMMA InitTypeOK == Init => TypeOK
  <1> SUFFICES ASSUME Init PROVE TypeOK
    OBVIOUS
  <1>1. 0 \in 0..MaxMessages
    BY BoundsAreNatural
  <1>2. [state |-> "none", scenario |-> NoScenario, user |-> 0, replies |-> 0] \in Conversation
    BY <1>1 DEF Conversation
  <1>3. [status |-> "none", conv |-> NoConv, completed_at |-> "null"] \in Progress
    BY DEF Progress, Statuses
  <1>4. Idle \in Request
    BY DEF Idle, Request, Statuses
  <1> QED BY <1>2, <1>3, <1>4 DEF Init, TypeOK

\* A step of one request, or of none: everybody else stands still.
Alone(r) == \A q \in Requests \ {r} : req'[q] = req[q]

\* Starting and completing a scenario keep the types.
LEMMA CurriculumTypeOK ==
  ASSUME CoachingInv, NEW r \in Requests,
         \/ \E s \in Scenarios : StartRead(r, s) \/ CompleteRead(r, s)
         \/ \E c \in Convs : StartCommit(r, c)
         \/ StartDuplicate(r) \/ CompleteCount(r) \/ CompleteCommit(r)
  PROVE  TypeOK' /\ Alone(r)
  <1>1. /\ TypeOK /\ req \in [Requests -> Request] /\ progress \in [Scenarios -> Progress]
        /\ conv \in [Convs -> Conversation] /\ req[r] \in Request
    BY DEF CoachingInv, TypeOK
  <1>2. ASSUME NEW s \in Scenarios, StartRead(r, s) PROVE TypeOK' /\ Alone(r)
    <2>1. progress[s].status \in Statuses
      BY <1>1 DEF Progress
    <2>2. [pc |-> "starting", scenario |-> s, conv |-> NoConv, status |-> progress[s].status] \in Request
      BY <2>1 DEF Request
    <2> QED BY <1>1, <1>2, <2>2, RequestMoves DEF StartRead, TypeOK, Alone
  <1>3. ASSUME NEW s \in Scenarios, CompleteRead(r, s) PROVE TypeOK' /\ Alone(r)
    <2>1. progress[s].status \in Statuses /\ progress[s].conv \in Convs \cup {NoConv}
      BY <1>1 DEF Progress
    <2>2. [pc |-> "counting", scenario |-> s, conv |-> progress[s].conv, status |-> progress[s].status] \in Request
      BY <2>1 DEF Request
    <2> QED BY <1>1, <1>3, <2>2, RequestMoves DEF CompleteRead, TypeOK, Alone
  <1>4. ASSUME NEW c \in Convs, StartCommit(r, c) PROVE TypeOK' /\ Alone(r)
    <2>1. req[r].scenario \in Scenarios
      BY <1>4 DEF StartCommit, At, CoachingInv, RequestsKnow, Knows
    <2>2. conv' \in [Convs -> Conversation]
      <3>1. [conv[c] EXCEPT !.state = "live", !.scenario = req[r].scenario] \in Conversation
        BY <1>1, <2>1 DEF Conversation
      <3>2. conv' = [conv EXCEPT ![c] = [conv[c] EXCEPT !.state = "live", !.scenario = req[r].scenario]]
        BY <1>1, <1>4 DEF StartCommit
      <3> QED BY <1>1, <3>1, <3>2
    <2>3. progress' \in [Scenarios -> Progress]
      <3> DEFINE s == req[r].scenario
      <3>1. PICK status \in Statuses :
              progress' = [progress EXCEPT ![s] = [progress[s] EXCEPT !.conv = c, !.status = status]]
        BY <1>1, <1>4, <2>1 DEF StartCommit, Progress, Statuses
      <3>2. [progress[s] EXCEPT !.conv = c, !.status = status] \in Progress
        BY <1>1, <2>1 DEF Progress
      <3> QED BY <1>1, <3>1, <3>2
    <2> QED BY <1>1, <1>4, <2>2, <2>3, RequestMoves DEF StartCommit, End, TypeOK, Alone
  <1>5. CASE StartDuplicate(r)
    BY <1>1, <1>5, RequestMoves DEF StartDuplicate, End, TypeOK, Alone
  <1>6. CASE CompleteCount(r)
    <2>1. PICK x \in Request : req' = [req EXCEPT ![r] = x]
      BY <1>6, RequestMoves, <1>1 DEF CompleteCount, End
    <2> QED BY <1>1, <1>6, <2>1, RequestMoves DEF CompleteCount, TypeOK, Alone
  <1>7. CASE CompleteCommit(r)
    <2> DEFINE s == req[r].scenario
    <2>1. s \in Scenarios
      BY <1>7 DEF CompleteCommit, At, CoachingInv, RequestsKnow, Knows
    <2>2. PICK status \in Statuses :
            progress' = [progress EXCEPT ![s] = [progress[s] EXCEPT !.status = status, !.completed_at = "set"]]
      BY <1>1, <1>7, <2>1 DEF CompleteCommit, Progress, Statuses
    <2>3. [progress[s] EXCEPT !.status = status, !.completed_at = "set"] \in Progress
      BY <1>1, <2>1 DEF Progress
    <2>4. progress' \in [Scenarios -> Progress]
      BY <1>1, <2>2, <2>3
    <2> QED BY <1>1, <1>7, <2>4, RequestMoves DEF CompleteCommit, End, TypeOK, Alone
  <1> QED BY <1>2, <1>3, <1>4, <1>5, <1>6, <1>7
\* A conversation that is asked no more and holds no more keeps its room.
LEMMA FitStays ==
  ASSUME CoachingInv, NEW c \in Convs,
         conv'[c].user = conv[c].user, conv'[c].replies = conv[c].replies,
         Asking(c)' \subseteq Asking(c), Answering(c)' \subseteq Answering(c)
  PROVE  /\ conv'[c].user + Cardinality(Asking(c)') <= MaxMessages
         /\ conv'[c].replies + Cardinality(Answering(c)') <= MaxMessages
  <1>1. /\ conv[c].user + Cardinality(Asking(c)) <= MaxMessages
        /\ conv[c].replies + Cardinality(Answering(c)) <= MaxMessages
    BY DEF CoachingInv, MessagesFit
  <1>2. Asking(c) \in SUBSET Requests /\ Answering(c) \in SUBSET Requests
    BY DEF Asking, Answering
  <1>3. /\ Cardinality(Asking(c)') <= Cardinality(Asking(c)) /\ Cardinality(Asking(c)') \in Nat
        /\ Cardinality(Answering(c)') <= Cardinality(Answering(c)) /\ Cardinality(Answering(c)') \in Nat
    BY <1>2, SomeRequests
  <1>4. Cardinality(Asking(c)) \in Nat /\ Cardinality(Answering(c)) \in Nat
    BY <1>2, SomeRequests
  <1>5. conv[c].user \in Nat /\ conv[c].replies \in Nat /\ MaxMessages \in Nat
    BY BoundsAreNatural DEF CoachingInv, TypeOK, Conversation
  <1> QED BY <1>1, <1>3, <1>4, <1>5

\* A request that asks in no conversation afterwards takes no room.
LEMMA RequestLetsGo ==
  ASSUME NEW r \in Requests, Alone(r), req'[r].pc \notin {"asking", "replying"}, NEW c \in Convs
  PROVE  Asking(c)' \subseteq Asking(c) /\ Answering(c)' \subseteq Answering(c)
  BY DEF Alone, Asking, Answering, At

\* The chat keeps the types: a message and a reply are stored where there was room.
LEMMA ChatTypeOK ==
  ASSUME CoachingInv, NEW r \in Requests,
         (\E c \in Convs : Post(r, c)) \/ Logged(r) \/ LogLost(r) \/ Apologise(r) \/ Answer(r)
  PROVE  TypeOK' /\ MessagesFit' /\ Alone(r)
  <1>1. /\ TypeOK /\ req \in [Requests -> Request] /\ progress \in [Scenarios -> Progress]
        /\ conv \in [Convs -> Conversation] /\ req[r] \in Request
        /\ Idle \in Request /\ Idle.pc = "idle"
    BY RequestMoves DEF CoachingInv, TypeOK
  <1>2. ASSUME NEW c \in Convs
        PROVE  /\ conv[c].user \in Nat /\ conv[c].replies \in Nat
               /\ conv[c].user + Cardinality(Asking(c)) <= MaxMessages
               /\ conv[c].replies + Cardinality(Answering(c)) <= MaxMessages
               /\ Asking(c) \in SUBSET Requests /\ Answering(c) \in SUBSET Requests
               /\ Cardinality(Asking(c)) \in Nat /\ Cardinality(Answering(c)) \in Nat
    <2>1. Asking(c) \in SUBSET Requests /\ Answering(c) \in SUBSET Requests
      BY DEF Asking, Answering
    <2>2. conv[c].user \in Nat /\ conv[c].replies \in Nat
      BY <1>1, BoundsAreNatural DEF Conversation
    <2>3. /\ conv[c].user + Cardinality(Asking(c)) <= MaxMessages
          /\ conv[c].replies + Cardinality(Answering(c)) <= MaxMessages
      BY DEF CoachingInv, MessagesFit
    <2> QED BY <2>1, <2>2, <2>3, SomeRequests
  <1>3. MaxMessages \in Nat
    BY BoundsAreNatural
  <1>4. ASSUME NEW c \in Convs, Post(r, c) PROVE TypeOK' /\ MessagesFit' /\ Alone(r)
    <2>1. [Idle EXCEPT !.pc = "asking", !.conv = c] \in Request
      BY <1>1 DEF Request
    <2>2. /\ req' \in [Requests -> Request] /\ Alone(r)
          /\ req'[r].pc = "asking" /\ req'[r].conv = c /\ req[r].pc = "idle"
          /\ conv' = conv /\ progress' = progress
      BY <1>1, <1>4, <2>1, RequestMoves DEF Post, Alone, At, Request
    <2>3. /\ Asking(c)' = Asking(c) \cup {r} /\ r \notin Asking(c)
          /\ Answering(c)' = Answering(c) \cup {r} /\ r \notin Answering(c)
          /\ \A d \in Convs \ {c} : Asking(d)' = Asking(d) /\ Answering(d)' = Answering(d)
      BY <2>2 DEF Asking, Answering, At, Alone
    <2>4. /\ Cardinality(Asking(c)') = Cardinality(Asking(c)) + 1
          /\ Cardinality(Answering(c)') = Cardinality(Answering(c)) + 1
      BY <1>2, <2>3, SomeRequests
    <2>5. /\ conv[c].user + Cardinality(Asking(c)) < MaxMessages
          /\ conv[c].replies + Cardinality(Answering(c)) < MaxMessages
      BY <1>4 DEF Post, Answering
    <2>6. MessagesFit'
      <3> SUFFICES ASSUME NEW d \in Convs
                   PROVE  /\ conv[d].user + Cardinality(Asking(d)') <= MaxMessages
                          /\ conv[d].replies + Cardinality(Answering(d)') <= MaxMessages
        BY <2>2 DEF MessagesFit
      <3>1. CASE d = c
        BY <1>2, <1>3, <2>4, <2>5, <3>1
      <3>2. CASE d # c
        BY <1>2, <2>3, <3>2
      <3> QED BY <3>1, <3>2
    <2> QED BY <1>1, <2>2, <2>6 DEF TypeOK
  <1>5. CASE Logged(r)
    <2>1. PICK c \in Convs : c = req[r].conv
      BY <1>5 DEF Logged, At, CoachingInv, RequestsKnow, Knows
    <2>2. /\ req' \in [Requests -> Request] /\ Alone(r)
          /\ req'[r].pc = "replying" /\ req'[r].conv = c /\ req[r].pc = "asking"
          /\ progress' = progress
      BY <1>1, <1>5, <2>1, RequestMoves DEF Logged, Alone, At, Request
    <2>3. /\ Asking(c)' = Asking(c) \ {r} /\ r \in Asking(c)
          /\ Answering(c)' = Answering(c)
          /\ \A d \in Convs \ {c} : Asking(d)' = Asking(d) /\ Answering(d)' = Answering(d)
      BY <2>1, <2>2 DEF Asking, Answering, At, Alone
    <2>4. Cardinality(Asking(c)') = Cardinality(Asking(c)) - 1
      BY <1>2, <2>3, SomeRequests
    <2>5. Cardinality(Asking(c)') \in Nat
      BY <1>2, <2>3, SomeRequests
    <2>6. /\ conv'[c] = [conv[c] EXCEPT !.user = conv[c].user + 1]
          /\ \A d \in Convs \ {c} : conv'[d] = conv[d]
          /\ conv' = [conv EXCEPT ![c] = [conv[c] EXCEPT !.user = conv[c].user + 1]]
      BY <1>1, <1>5, <2>1 DEF Logged
    <2>7. conv[c].user + 1 \in 0..MaxMessages
      BY <1>2, <1>3, <2>4, <2>5
    <2>8. conv'[c] \in Conversation /\ conv'[c].user = conv[c].user + 1 /\ conv'[c].replies = conv[c].replies
      BY <1>1, <2>6, <2>7 DEF Conversation
    <2>9. conv' \in [Convs -> Conversation]
      BY <1>1, <2>6, <2>8
    <2>10. MessagesFit'
      <3> SUFFICES ASSUME NEW d \in Convs
                   PROVE  /\ conv'[d].user + Cardinality(Asking(d)') <= MaxMessages
                          /\ conv'[d].replies + Cardinality(Answering(d)') <= MaxMessages
        BY DEF MessagesFit
      <3>1. /\ conv'[c].user + Cardinality(Asking(c)') = conv[c].user + Cardinality(Asking(c))
            /\ conv'[c].replies + Cardinality(Answering(c)') = conv[c].replies + Cardinality(Answering(c))
        <4>1. conv[c].user \in Nat /\ Cardinality(Asking(c)) \in Nat
          BY <1>2
        <4> QED BY <2>3, <2>4, <2>8, <4>1
      <3>2. CASE d # c
        BY <1>2, <2>3, <2>6, <3>2
      <3> QED BY <1>2, <3>1, <3>2
    <2> QED BY <1>1, <2>2, <2>9, <2>10 DEF TypeOK
  <1>6. CASE LogLost(r)
    <2>1. /\ req' \in [Requests -> Request] /\ Alone(r)
          /\ req'[r].pc = "replying" /\ req'[r].conv = req[r].conv /\ req[r].pc = "asking"
          /\ conv' = conv /\ progress' = progress
      BY <1>1, <1>6, RequestMoves DEF LogLost, Alone, At, Request
    <2>2. \A c \in Convs : Asking(c)' \subseteq Asking(c) /\ Answering(c)' \subseteq Answering(c)
      BY <2>1 DEF Asking, Answering, At, Alone
    <2>3. MessagesFit'
      BY <2>1, <2>2, FitStays DEF MessagesFit
    <2> QED BY <1>1, <2>1, <2>3 DEF TypeOK
  <1>7. CASE Apologise(r)
    <2>1. PICK c \in Convs : c = req[r].conv
      BY <1>7 DEF Apologise, At, CoachingInv, RequestsKnow, Knows
    <2>2. /\ req' \in [Requests -> Request] /\ Alone(r)
          /\ req'[r] = Idle /\ req[r].pc = "asking" /\ progress' = progress
      BY <1>1, <1>7, RequestMoves DEF Apologise, End, Alone, At
    <2>3. /\ Asking(c)' = Asking(c) \ {r} /\ r \in Asking(c)
          /\ Answering(c)' = Answering(c) \ {r} /\ r \in Answering(c)
          /\ \A d \in Convs \ {c} : Asking(d)' = Asking(d) /\ Answering(d)' = Answering(d)
      BY <1>1, <2>1, <2>2 DEF Asking, Answering, At, Alone
    <2>4. /\ Cardinality(Asking(c)') = Cardinality(Asking(c)) - 1
          /\ Cardinality(Answering(c)') = Cardinality(Answering(c)) - 1
          /\ Cardinality(Asking(c)') \in Nat /\ Cardinality(Answering(c)') \in Nat
      BY <1>2, <2>3, SomeRequests
    <2>5. /\ conv' = [conv EXCEPT ![c] = [conv[c] EXCEPT !.user = conv[c].user + 1,
                                                         !.replies = conv[c].replies + 1]]
          /\ conv'[c] = [conv[c] EXCEPT !.user = conv[c].user + 1, !.replies = conv[c].replies + 1]
          /\ \A d \in Convs \ {c} : conv'[d] = conv[d]
      BY <1>1, <1>7, <2>1 DEF Apologise
    <2>6. conv[c].user + 1 \in 0..MaxMessages /\ conv[c].replies + 1 \in 0..MaxMessages
      BY <1>2, <1>3, <2>4
    <2>7. /\ conv'[c] \in Conversation
          /\ conv'[c].user = conv[c].user + 1 /\ conv'[c].replies = conv[c].replies + 1
      <3>1. PICK m \in 0..MaxMessages, n \in 0..MaxMessages :
              m = conv[c].user + 1 /\ n = conv[c].replies + 1
        BY <2>6
      <3>2. conv[c] \in Conversation /\ conv'[c] = [conv[c] EXCEPT !.user = m, !.replies = n]
        BY <1>1, <2>5, <3>1
      <3>3. conv'[c] = [state |-> conv[c].state, scenario |-> conv[c].scenario, user |-> m, replies |-> n]
        BY <3>2 DEF Conversation
      <3> QED BY <3>1, <3>2, <3>3 DEF Conversation
    <2>8. conv' \in [Convs -> Conversation]
      BY <1>1, <2>5, <2>7
    <2>9. MessagesFit'
      <3> SUFFICES ASSUME NEW d \in Convs
                   PROVE  /\ conv'[d].user + Cardinality(Asking(d)') <= MaxMessages
                          /\ conv'[d].replies + Cardinality(Answering(d)') <= MaxMessages
        BY DEF MessagesFit
      <3>1. /\ conv'[c].user + Cardinality(Asking(c)') = conv[c].user + Cardinality(Asking(c))
            /\ conv'[c].replies + Cardinality(Answering(c)') = conv[c].replies + Cardinality(Answering(c))
        <4>1. /\ conv[c].user \in Nat /\ Cardinality(Asking(c)) \in Nat
              /\ conv[c].replies \in Nat /\ Cardinality(Answering(c)) \in Nat
          BY <1>2
        <4> QED BY <2>4, <2>7, <4>1
      <3>2. CASE d # c
        BY <1>2, <2>3, <2>5, <3>2
      <3> QED BY <1>2, <3>1, <3>2
    <2> QED BY <1>1, <2>2, <2>8, <2>9 DEF TypeOK
  <1>8. CASE Answer(r)
    <2>1. PICK c \in Convs : c = req[r].conv
      BY <1>8 DEF Answer, At, CoachingInv, RequestsKnow, Knows
    <2>2. /\ req' \in [Requests -> Request] /\ Alone(r)
          /\ req'[r] = Idle /\ req[r].pc = "replying" /\ progress' = progress
      BY <1>1, <1>8, RequestMoves DEF Answer, End, Alone, At
    <2>3. /\ Asking(c)' = Asking(c)
          /\ Answering(c)' = Answering(c) \ {r} /\ r \in Answering(c)
          /\ \A d \in Convs \ {c} : Asking(d)' = Asking(d) /\ Answering(d)' = Answering(d)
      BY <1>1, <2>1, <2>2 DEF Asking, Answering, At, Alone
    <2>4. /\ Cardinality(Answering(c)') = Cardinality(Answering(c)) - 1
          /\ Cardinality(Answering(c)') \in Nat
      BY <1>2, <2>3, SomeRequests
    <2>5. PICK n \in {conv[c].replies, conv[c].replies + 1} :
            conv' = [conv EXCEPT ![c] = [conv[c] EXCEPT !.replies = n]]
      BY <1>1, <1>8, <2>1 DEF Answer
    <2>6. n \in 0..MaxMessages
      BY <1>2, <1>3, <2>4, <2>5
    <2>7. /\ conv'[c] \in Conversation
          /\ conv'[c].user = conv[c].user /\ conv'[c].replies = n
          /\ \A d \in Convs \ {c} : conv'[d] = conv[d]
      BY <1>1, <2>5, <2>6 DEF Conversation
    <2>8. conv' \in [Convs -> Conversation]
      BY <1>1, <2>5, <2>7
    <2>9. MessagesFit'
      <3> SUFFICES ASSUME NEW d \in Convs
                   PROVE  /\ conv'[d].user + Cardinality(Asking(d)') <= MaxMessages
                          /\ conv'[d].replies + Cardinality(Answering(d)') <= MaxMessages
        BY DEF MessagesFit
      <3>1. /\ conv'[c].user + Cardinality(Asking(c)') = conv[c].user + Cardinality(Asking(c))
            /\ conv'[c].replies + Cardinality(Answering(c)') <= conv[c].replies + Cardinality(Answering(c))
        BY <1>2, <2>3, <2>4, <2>5, <2>7
      <3>2. CASE d # c
        BY <1>2, <2>3, <2>7, <3>2
      <3> QED
        <4>1. CASE d = c
          BY <1>2, <1>3, <2>4, <2>7, <3>1, <4>1
        <4> QED BY <3>2, <4>1
    <2> QED BY <1>1, <2>2, <2>8, <2>9 DEF TypeOK
  <1> QED BY <1>4, <1>5, <1>6, <1>7, <1>8
\* Conversations come and go, and processes die, within the types.
LEMMA ConversationTypeOK ==
  ASSUME CoachingInv,
         \/ \E c \in Convs : CreateConversation(c) \/ DeleteConversation(c)
         \/ \E r \in Requests : Die(r)
  PROVE  TypeOK' /\ MessagesFit'
  <1>1. /\ TypeOK /\ req \in [Requests -> Request] /\ progress \in [Scenarios -> Progress]
        /\ conv \in [Convs -> Conversation]
    BY DEF CoachingInv, TypeOK
  <1>2. ASSUME NEW c \in Convs, NEW state \in {"live", "gone"}, conv' = [conv EXCEPT ![c].state = state],
               req' = req
        PROVE  conv' \in [Convs -> Conversation] /\ MessagesFit'
    <2>1. conv' \in [Convs -> Conversation]
      BY <1>1, <1>2 DEF Conversation
    <2>2. \A d \in Convs : conv'[d].user = conv[d].user /\ conv'[d].replies = conv[d].replies
      BY <1>1, <1>2 DEF Conversation
    <2>3. \A d \in Convs : Asking(d)' = Asking(d) /\ Answering(d)' = Answering(d)
      BY <1>2 DEF Asking, Answering, At
    <2> QED BY <2>1, <2>2, <2>3, FitStays DEF MessagesFit
  <1>3. ASSUME NEW c \in Convs, CreateConversation(c) PROVE TypeOK' /\ MessagesFit'
    BY <1>1, <1>2, <1>3 DEF CreateConversation, TypeOK
  <1>4. ASSUME NEW c \in Convs, DeleteConversation(c) PROVE TypeOK' /\ MessagesFit'
    <2>1. progress' \in [Scenarios -> Progress]
      BY <1>1, <1>4 DEF DeleteConversation, Progress
    <2> QED BY <1>1, <1>2, <1>4, <2>1 DEF DeleteConversation, TypeOK
  <1>5. ASSUME NEW r \in Requests, Die(r) PROVE TypeOK' /\ MessagesFit'
    <2>1. /\ req' \in [Requests -> Request] /\ Alone(r) /\ req'[r].pc = "idle"
          /\ conv' = conv /\ progress' = progress
      BY <1>1, <1>5, RequestMoves DEF Die, End, Alone
    <2>2. \A d \in Convs : Asking(d)' \subseteq Asking(d) /\ Answering(d)' \subseteq Answering(d)
      BY <2>1, RequestLetsGo
    <2> QED BY <1>1, <2>1, <2>2, FitStays DEF MessagesFit, TypeOK
  <1> QED BY <1>3, <1>4, <1>5

\* The curriculum stores no message.
LEMMA CurriculumFits ==
  ASSUME CoachingInv, NEW r \in Requests,
         \/ \E s \in Scenarios : StartRead(r, s) \/ CompleteRead(r, s)
         \/ \E c \in Convs : StartCommit(r, c)
         \/ StartDuplicate(r) \/ CompleteCount(r) \/ CompleteCommit(r)
  PROVE  MessagesFit'
  <1>1. Alone(r)
    BY CurriculumTypeOK
  <1>2. req \in [Requests -> Request] /\ TypeOK /\ Idle.pc = "idle" /\ conv \in [Convs -> Conversation]
    BY DEF CoachingInv, TypeOK, Idle
  <1>3. /\ req'[r].pc \notin {"asking", "replying"}
        /\ \A c \in Convs : conv'[c].user = conv[c].user /\ conv'[c].replies = conv[c].replies
    <2>1. ASSUME NEW s \in Scenarios, StartRead(r, s) \/ CompleteRead(r, s)
          PROVE  req'[r].pc \notin {"asking", "replying"} /\ conv' = conv
      BY <1>2, <2>1 DEF StartRead, CompleteRead
    <2>2. ASSUME NEW c \in Convs, StartCommit(r, c)
          PROVE  /\ req'[r].pc \notin {"asking", "replying"}
                 /\ \A d \in Convs : conv'[d].user = conv[d].user /\ conv'[d].replies = conv[d].replies
      BY <1>2, <2>2 DEF StartCommit, End, Conversation
    <2>3. CASE StartDuplicate(r) \/ CompleteCount(r) \/ CompleteCommit(r)
      BY <1>2, <2>3 DEF StartDuplicate, CompleteCount, CompleteCommit, End, Request
    <2> QED BY <2>1, <2>2, <2>3
  <1> QED BY <1>1, <1>3, RequestLetsGo, FitStays DEF MessagesFit

\* Every step keeps the types and the room.
LEMMA NextTypeOK == CoachingInv /\ [Next]_vars => TypeOK' /\ MessagesFit'
  <1>1. CASE UNCHANGED vars
    BY <1>1 DEF vars, CoachingInv, TypeOK, MessagesFit, Asking, Answering, At
  <1> QED BY <1>1, CurriculumTypeOK, CurriculumFits, ChatTypeOK, ConversationTypeOK DEF Next

-----------------------------------------------------------------------------
(* The invariant *)

\* What only grows: a conversation keeps its scenario and its messages and stays
\* deleted once it is; a row stays, and stays completed unless its conversation
\* was deleted.
Grows ==
  /\ \A c \in Convs :
       /\ conv[c].state # "none" => conv'[c].state # "none" /\ conv'[c].scenario = conv[c].scenario
       /\ conv[c].state = "gone" => conv'[c].state = "gone"
       /\ conv'[c].user >= conv[c].user
  /\ \A s \in Scenarios :
       /\ progress[s].status # "none" => progress'[s].status # "none"
       /\ progress[s].status = "completed" => progress'[s].status = "completed" \/ Deleted(s)

\* The start of a scenario restarts it only if it lost its conversation.
LEMMA StartEffect ==
  ASSUME CoachingInv, NEW r \in Requests, NEW c \in Convs, StartCommit(r, c),
         NEW s \in Scenarios, s = req[r].scenario
  PROVE  /\ conv[c].state = "none"
         /\ conv'[c].state = "live" /\ conv'[c].scenario = s /\ conv'[c].user = conv[c].user
         /\ \A d \in Convs \ {c} : conv'[d] = conv[d]
         /\ progress'[s].conv = c /\ progress'[s].completed_at = progress[s].completed_at
         /\ progress'[s].status = "in_progress" \/ (Deleted(s) /\ progress'[s].status = progress[s].status)
         /\ \A x \in Scenarios \ {s} : progress'[x] = progress[x]
         /\ Deleted(s) \/ progress[s].status = "none"
         /\ progress'[s].status # "none"
  <1>1. progress \in [Scenarios -> Progress] /\ conv \in [Convs -> Conversation]
    BY DEF CoachingInv, TypeOK
  <1>2. req[r].status # "none" => Deleted(s)
    BY DEF StartCommit, At, CoachingInv, RequestsKnow, Knows
  <1>3. /\ conv[c].state = "none"
        /\ conv'[c].state = "live" /\ conv'[c].scenario = s /\ conv'[c].user = conv[c].user
        /\ \A d \in Convs \ {c} : conv'[d] = conv[d]
    BY <1>1 DEF StartCommit, Conversation
  <1>4. Deleted(s) \/ progress[s].status = "none"
    BY <1>2 DEF StartCommit, Duplicate
  <1>5. /\ progress'[s].conv = c /\ progress'[s].completed_at = progress[s].completed_at
        /\ progress'[s].status = IF req[r].status = "in_progress" THEN progress[s].status ELSE "in_progress"
        /\ \A x \in Scenarios \ {s} : progress'[x] = progress[x]
    BY <1>1 DEF StartCommit, Progress
  <1>6. Deleted(s) => progress[s].status # "none"
    BY DEF CoachingInv, RowsAndConversations, Deleted
  <1> QED BY <1>2, <1>3, <1>4, <1>5, <1>6
\* Nothing has been started, asked or deleted yet.
LEMMA InitCoachingInv == Init => CoachingInv
  <1> SUFFICES ASSUME Init PROVE CoachingInv
    OBVIOUS
  <1>1. TypeOK
    BY InitTypeOK
  <1>2. /\ \A c \in Convs : /\ conv[c].state = "none" /\ conv[c].scenario = NoScenario
                            /\ conv[c].user = 0 /\ conv[c].replies = 0
        /\ \A s \in Scenarios : /\ progress[s].status = "none" /\ progress[s].conv = NoConv
                                /\ progress[s].completed_at = "null"
        /\ \A r \in Requests : req[r].pc = "idle"
    BY DEF Init, Idle
  <1>3. MessagesFit
    <2>1. \A c \in Convs : Asking(c) = {} /\ Answering(c) = {}
      BY <1>2 DEF Asking, Answering, At
    <2>2. Cardinality({}) = 0
      BY FS_EmptySet
    <2>3. \A c \in Convs : Cardinality(Asking(c)) = 0 /\ Cardinality(Answering(c)) = 0
      BY <2>1, <2>2
    <2>4. 0 + 0 <= MaxMessages
      BY BoundsAreNatural
    <2> QED BY <1>2, <2>3, <2>4 DEF MessagesFit
  <1>4. \A s \in Scenarios : ConvsOf(s) = {}
    BY <1>2, NullsAreNull DEF ConvsOf
  <1>5. RequestsKnow
    BY <1>2 DEF RequestsKnow, Knows
  <1>6. StartedOnce
    BY <1>4, FS_EmptySet DEF StartedOnce
  <1> QED
    BY <1>1, <1>2, <1>3, <1>4, <1>5, <1>6
    DEF CoachingInv, FreshConversations, RowsAndConversations, LinkIsLive,
        CompletedMeansPractised, FinishedUnlessDeleted

\* The completion of a scenario has a row of its own, and marks it completed.
LEMMA CompleteEffect ==
  ASSUME CoachingInv, NEW r \in Requests, CompleteCommit(r), NEW s \in Scenarios, s = req[r].scenario
  PROVE  /\ conv' = conv
         /\ progress'[s].conv = progress[s].conv /\ progress'[s].completed_at = "set"
         /\ progress'[s].status = "completed" \/ (Deleted(s) /\ progress'[s].status = progress[s].status)
         /\ progress[s].status # "none" /\ progress'[s].status # "none"
         /\ \A x \in Scenarios \ {s} : progress'[x] = progress[x]
         /\ \E c \in ConvsOf(s) : conv[c].user >= MinMessages
  <1>1. progress \in [Scenarios -> Progress]
    BY DEF CoachingInv, TypeOK
  <1>2. /\ progress[s].status # "none"
        /\ req[r].status = "completed" => progress[s].status = "completed" \/ Deleted(s)
        /\ \E c \in ConvsOf(s) : conv[c].user >= MinMessages
    BY DEF CompleteCommit, At, CoachingInv, RequestsKnow, Knows
  <1>3. /\ progress'[s].conv = progress[s].conv /\ progress'[s].completed_at = "set"
        /\ progress'[s].status = IF req[r].status = "completed" THEN progress[s].status ELSE "completed"
        /\ \A x \in Scenarios \ {s} : progress'[x] = progress[x]
    BY <1>1 DEF CompleteCommit, Progress
  <1>4. conv' = conv
    BY DEF CompleteCommit
  <1> QED BY <1>2, <1>3, <1>4

\* Deleting a conversation lets go of the rows that point to it, and of no other.
LEMMA DeleteEffect ==
  ASSUME CoachingInv, NEW c \in Convs, DeleteConversation(c)
  PROVE  /\ conv[c].state = "live" /\ conv'[c].state = "gone"
         /\ \A d \in Convs : conv'[d].scenario = conv[d].scenario /\ conv'[d].user = conv[d].user
         /\ \A d \in Convs \ {c} : conv'[d].state = conv[d].state
         /\ \A s \in Scenarios :
              /\ progress'[s].status = progress[s].status
              /\ progress'[s].completed_at = progress[s].completed_at
              /\ progress[s].conv = c => progress'[s].conv = NoConv
              /\ progress[s].conv # c => progress'[s].conv = progress[s].conv
  <1>1. progress \in [Scenarios -> Progress] /\ conv \in [Convs -> Conversation]
    BY DEF CoachingInv, TypeOK
  <1> QED BY <1>1 DEF DeleteConversation, Live, Progress, Conversation

\* The steps that touch no row: reads, the chat, a death.
Chats ==
  /\ progress' = progress
  /\ \A c \in Convs : /\ conv'[c].scenario = conv[c].scenario
                      /\ conv'[c].user >= conv[c].user
                      /\ conv'[c].state = conv[c].state
                           \/ (conv[c].state = "none" /\ conv'[c].state = "live")

\* A step starts a scenario, completes one, deletes a conversation, or touches no row.
LEMMA StepKinds ==
  ASSUME CoachingInv, [Next]_vars
  PROVE  \/ \E r \in Requests, c \in Convs : StartCommit(r, c)
         \/ \E r \in Requests : CompleteCommit(r)
         \/ \E c \in Convs : DeleteConversation(c)
         \/ Chats
  <1>1. conv \in [Convs -> Conversation] /\ MaxMessages \in Nat
    BY BoundsAreNatural DEF CoachingInv, TypeOK
  <1>2. \A c \in Convs : conv[c].user \in Int
    BY <1>1 DEF Conversation
  <1>3. conv' = conv /\ progress' = progress => Chats
    BY <1>1, <1>2 DEF Chats
  <1>4. CASE UNCHANGED vars
    BY <1>3, <1>4 DEF vars
  <1>5. ASSUME NEW r \in Requests, NEW s \in Scenarios, StartRead(r, s) \/ CompleteRead(r, s) PROVE Chats
    BY <1>3, <1>5 DEF StartRead, CompleteRead
  <1>6. ASSUME NEW r \in Requests, NEW c \in Convs, Post(r, c) PROVE Chats
    BY <1>3, <1>6 DEF Post
  <1>7. ASSUME NEW r \in Requests, StartDuplicate(r) \/ CompleteCount(r) \/ LogLost(r) \/ Die(r)
        PROVE  Chats
    BY <1>3, <1>7 DEF StartDuplicate, CompleteCount, LogLost, Die
  <1>8. ASSUME NEW r \in Requests, Logged(r) \/ Apologise(r) \/ Answer(r) PROVE Chats
    <2>1. PICK c \in Convs : c = req[r].conv
      BY <1>8 DEF Logged, Apologise, Answer, At, CoachingInv, RequestsKnow, Knows
    <2>2. PICK u \in {conv[c].user, conv[c].user + 1}, m \in {conv[c].replies, conv[c].replies + 1} :
            conv' = [conv EXCEPT ![c] = [conv[c] EXCEPT !.user = u, !.replies = m]]
      <3>1. ASSUME Logged(r)
            PROVE  conv' = [conv EXCEPT ![c] = [conv[c] EXCEPT !.user = conv[c].user + 1,
                                                               !.replies = conv[c].replies]]
        BY <1>1, <2>1, <3>1 DEF Logged, Conversation
      <3>2. ASSUME Apologise(r)
            PROVE  conv' = [conv EXCEPT ![c] = [conv[c] EXCEPT !.user = conv[c].user + 1,
                                                               !.replies = conv[c].replies + 1]]
        BY <1>1, <2>1, <3>2 DEF Apologise, Conversation
      <3>3. ASSUME Answer(r)
            PROVE  \E m \in {conv[c].replies, conv[c].replies + 1} :
                     conv' = [conv EXCEPT ![c] = [conv[c] EXCEPT !.user = conv[c].user, !.replies = m]]
        BY <1>1, <2>1, <3>3 DEF Answer, Conversation
      <3> QED BY <1>8, <3>1, <3>2, <3>3
    <2>3. /\ conv'[c].scenario = conv[c].scenario /\ conv'[c].state = conv[c].state /\ conv'[c].user = u
          /\ \A d \in Convs \ {c} : conv'[d] = conv[d]
      BY <1>1, <2>2 DEF Conversation
    <2>4. conv'[c].user >= conv[c].user
      BY <1>2, <2>2, <2>3
    <2>5. progress' = progress
      BY <1>8 DEF Logged, Apologise, Answer
    <2> QED BY <1>2, <2>3, <2>4, <2>5 DEF Chats
  <1>9. ASSUME NEW c \in Convs, CreateConversation(c) PROVE Chats
    <2>1. /\ conv'[c] = [conv[c] EXCEPT !.state = "live"] /\ conv[c].state = "none"
          /\ \A d \in Convs \ {c} : conv'[d] = conv[d]
          /\ progress' = progress
      BY <1>1, <1>9 DEF CreateConversation
    <2>2. /\ conv'[c].scenario = conv[c].scenario /\ conv'[c].state = "live"
          /\ conv'[c].user = conv[c].user
      BY <1>1, <2>1 DEF Conversation
    <2>3. ASSUME NEW d \in Convs
          PROVE  /\ conv'[d].scenario = conv[d].scenario
                 /\ conv'[d].user = conv[d].user
                 /\ \/ conv'[d].state = conv[d].state
                    \/ conv[d].state = "none" /\ conv'[d].state = "live"
      BY <2>1, <2>2
    <2> QED BY <1>2, <2>1, <2>3 DEF Chats
  <1> QED BY <1>4, <1>5, <1>6, <1>7, <1>8, <1>9 DEF Next

\* No step takes back what was there.
LEMMA StepGrows == CoachingInv /\ [Next]_vars => Grows
  <1> SUFFICES ASSUME CoachingInv, [Next]_vars PROVE Grows
    OBVIOUS
  <1>1. \A c \in Convs : conv[c].user \in Int
    BY BoundsAreNatural DEF CoachingInv, TypeOK, Conversation
  <1>2. ASSUME NEW r \in Requests, NEW c \in Convs, StartCommit(r, c) PROVE Grows
    <2>1. PICK s \in Scenarios : s = req[r].scenario
      BY <1>2 DEF StartCommit, At, CoachingInv, RequestsKnow, Knows
    <2> QED BY <1>1, <1>2, <2>1, StartEffect DEF Grows
  <1>3. ASSUME NEW r \in Requests, CompleteCommit(r) PROVE Grows
    <2>1. PICK s \in Scenarios : s = req[r].scenario
      BY <1>3 DEF CompleteCommit, At, CoachingInv, RequestsKnow, Knows
    <2> QED BY <1>1, <1>3, <2>1, CompleteEffect DEF Grows
  <1>4. ASSUME NEW c \in Convs, DeleteConversation(c) PROVE Grows
    BY <1>1, <1>4, DeleteEffect DEF Grows
  <1>5. CASE Chats
    BY <1>5 DEF Chats, Grows
  <1> QED BY <1>2, <1>3, <1>4, <1>5, StepKinds

\* So a scenario keeps its conversations, and one that was deleted stays deleted.
LEMMA ConversationsStay ==
  ASSUME CoachingInv, Grows, NEW s \in Scenarios
  PROVE  /\ Deleted(s) => Deleted(s)'
         /\ ConvsOf(s) \subseteq ConvsOf(s)'
  <1>1. \A c \in ConvsOf(s) : conv[c].state # "none"
    BY NullsAreNull DEF CoachingInv, FreshConversations, ConvsOf
  <1> QED BY <1>1 DEF Grows, Deleted, ConvsOf
\* What a request knows stays true while it waits.
LEMMA KnowsStays ==
  ASSUME CoachingInv, Grows, TypeOK', NEW q \in Requests, req'[q] = req[q]
  PROVE  Knows(q)'
  <1>1. Knows(q)
    BY DEF CoachingInv, RequestsKnow
  <1>2. \A c \in Convs : conv[c].user \in Int
    BY BoundsAreNatural DEF CoachingInv, TypeOK, Conversation
  <1>3. req[q].pc = "starting" => req[q].scenario \in Scenarios /\ (req[q].status # "none" => Deleted(req[q].scenario)')
    BY <1>1, ConversationsStay DEF Knows
  <1>4. ASSUME req[q].pc \in {"counting", "finishing"}
        PROVE  /\ req[q].scenario \in Scenarios /\ req[q].conv \in ConvsOf(req[q].scenario)'
               /\ progress'[req[q].scenario].status # "none"
               /\ req[q].status = "completed" =>
                    progress'[req[q].scenario].status = "completed" \/ Deleted(req[q].scenario)'
    <2>1. PICK s \in Scenarios : s = req[q].scenario
      BY <1>1, <1>4 DEF Knows
    <2>2. /\ req[q].conv \in ConvsOf(s)
          /\ progress[s].status # "none"
          /\ req[q].status = "completed" => progress[s].status = "completed" \/ Deleted(s)
      BY <1>1, <1>4, <2>1 DEF Knows
    <2>3. (Deleted(s) => Deleted(s)') /\ ConvsOf(s) \subseteq ConvsOf(s)'
      BY ConversationsStay
    <2>4. /\ progress'[s].status # "none"
          /\ progress[s].status = "completed" => progress'[s].status = "completed" \/ Deleted(s)
      BY <2>2 DEF Grows
    <2>5. ConvsOf(s)' = ConvsOf(req[q].scenario)' /\ Deleted(s)' = Deleted(req[q].scenario)'
      BY <2>1 DEF ConvsOf, Deleted
    <2> QED BY <2>1, <2>2, <2>3, <2>4, <2>5
  <1>5. ASSUME req[q].pc = "finishing" PROVE conv'[req[q].conv].user >= MinMessages
    <2>1. PICK c \in Convs : c = req[q].conv
      BY <1>1, <1>5 DEF Knows, ConvsOf
    <2>2. conv[c].user >= MinMessages /\ conv'[c].user >= conv[c].user
      BY <1>1, <1>5, <2>1 DEF Knows, Grows
    <2>3. conv[c].user \in Int /\ conv'[c].user \in Int /\ MinMessages \in Int
      BY <1>2, <2>1, BoundsAreNatural DEF TypeOK, Conversation
    <2> QED BY <2>1, <2>2, <2>3
  <1> QED BY <1>1, <1>3, <1>4, <1>5 DEF Knows

\* What a request learns is true when it learns it.
LEMMA RequestLearns ==
  ASSUME CoachingInv, Grows, TypeOK', NEW r \in Requests,
         \/ \E s \in Scenarios : StartRead(r, s) \/ CompleteRead(r, s)
         \/ \E c \in Convs : StartCommit(r, c) \/ Post(r, c)
         \/ StartDuplicate(r) \/ CompleteCount(r) \/ CompleteCommit(r)
         \/ Logged(r) \/ LogLost(r) \/ Apologise(r) \/ Answer(r) \/ Die(r)
  PROVE  Knows(r)'
  <1>1. /\ TypeOK /\ req \in [Requests -> Request] /\ progress \in [Scenarios -> Progress]
        /\ conv \in [Convs -> Conversation] /\ req[r] \in Request
        /\ Idle \in Request /\ Idle.pc = "idle" /\ Knows(r)
    BY RequestMoves DEF CoachingInv, TypeOK, RequestsKnow
  <1>2. req'[r].pc = "idle" => Knows(r)'
    BY DEF Knows
  <1>3. ASSUME NEW s \in Scenarios, StartRead(r, s) PROVE Knows(r)'
    <2>1. /\ req'[r].pc = "starting" /\ req'[r].scenario = s /\ req'[r].status = progress[s].status
          /\ progress[s].conv = NoConv
      BY <1>1, <1>3 DEF StartRead
    <2>2. req'[r].status # "none" => Deleted(s)'
      BY <2>1, ConversationsStay DEF CoachingInv, RowsAndConversations
    <2> QED BY <2>1, <2>2 DEF Knows
  <1>4. ASSUME NEW s \in Scenarios, CompleteRead(r, s) PROVE Knows(r)'
    <2>1. PICK c : c = progress[s].conv /\ c # NoConv
      BY <1>4 DEF CompleteRead
    <2>2. c \in ConvsOf(s) /\ progress[s].status # "none"
      BY <2>1 DEF CoachingInv, LinkIsLive, RowsAndConversations
    <2>3. /\ req'[r].pc = "counting" /\ req'[r].scenario = s /\ req'[r].conv = c
          /\ req'[r].status = progress[s].status /\ progress' = progress
      BY <1>1, <1>4, <2>1 DEF CompleteRead
    <2>4. c \in ConvsOf(s)'
      BY <2>2, ConversationsStay
    <2>5. ConvsOf(s)' = ConvsOf(req[r].scenario)'
      BY <2>3 DEF ConvsOf
    <2> QED BY <2>2, <2>3, <2>4, <2>5 DEF Knows
  <1>5. ASSUME NEW c \in Convs, StartCommit(r, c) \/ Post(r, c) PROVE Knows(r)'
    <2>1. req'[r].pc = "idle" \/ (req'[r].pc = "asking" /\ req'[r].conv = c)
      BY <1>1, <1>5 DEF StartCommit, Post, End, Request
    <2> QED BY <1>2, <2>1 DEF Knows
  <1>6. CASE StartDuplicate(r) \/ CompleteCommit(r) \/ Apologise(r) \/ Answer(r) \/ Die(r)
    BY <1>1, <1>2, <1>6 DEF StartDuplicate, CompleteCommit, Apologise, Answer, Die, End
  <1>7. CASE Logged(r) \/ LogLost(r)
    <2>1. req'[r].pc = "replying" /\ req'[r].conv = req[r].conv /\ req[r].pc = "asking"
      BY <1>1, <1>7 DEF Logged, LogLost, At, Request
    <2> QED BY <1>1, <2>1 DEF Knows
  <1>8. CASE CompleteCount(r)
    <2>1. CASE End(r)
      BY <1>1, <1>2, <2>1 DEF End
    <2>2. CASE req' = [req EXCEPT ![r].pc = "finishing"] /\ Stored(req[r].conv) >= MinMessages
      <3>1. /\ req'[r].pc = "finishing" /\ req'[r].scenario = req[r].scenario
            /\ req'[r].conv = req[r].conv /\ req'[r].status = req[r].status
            /\ conv' = conv /\ progress' = progress /\ req[r].pc = "counting"
        BY <1>1, <1>8, <2>2 DEF CompleteCount, At, Request
      <3>2. PICK c \in Convs : c = req[r].conv
        BY <1>1, <3>1 DEF Knows, ConvsOf
      <3>3. conv[c].user >= MinMessages
        <4>1. conv[c].user \in Nat /\ MinMessages \in Nat
          BY <1>1, BoundsAreNatural DEF Conversation
        <4> QED BY <2>2, <3>2, <4>1 DEF Stored
      <3> QED BY <1>1, <3>1, <3>2, <3>3 DEF Knows, ConvsOf, Deleted
    <2> QED BY <1>8, <2>1, <2>2 DEF CompleteCount
  <1> QED BY <1>3, <1>4, <1>5, <1>6, <1>7, <1>8

\* What every request has read stays true enough.
LEMMA NextKnows == CoachingInv /\ [Next]_vars => RequestsKnow'
  <1> SUFFICES ASSUME CoachingInv, [Next]_vars PROVE RequestsKnow'
    OBVIOUS
  <1>1. Grows /\ TypeOK'
    BY StepGrows, NextTypeOK
  <1>2. ASSUME req' = req PROVE RequestsKnow'
    BY <1>1, <1>2, KnowsStays DEF RequestsKnow
  <1>3. ASSUME NEW r \in Requests, Alone(r), Knows(r)' PROVE RequestsKnow'
    BY <1>1, <1>3, KnowsStays DEF RequestsKnow, Alone
  <1>4. ASSUME NEW r \in Requests, Die(r) PROVE Alone(r)
    BY <1>4 DEF Die, End, CoachingInv, TypeOK, Alone
  <1>5. CASE UNCHANGED vars
    BY <1>2, <1>5 DEF vars
  <1>6. ASSUME NEW c \in Convs, CreateConversation(c) \/ DeleteConversation(c) PROVE RequestsKnow'
    BY <1>2, <1>6 DEF CreateConversation, DeleteConversation
  <1> QED BY <1>1, <1>3, <1>4, <1>5, <1>6, CurriculumTypeOK, ChatTypeOK, RequestLearns DEF Next
\* The rows and the conversations, conjunct by conjunct.
RowsHold == /\ FreshConversations
            /\ RowsAndConversations
            /\ LinkIsLive
            /\ CompletedMeansPractised
            /\ StartedOnce
            /\ FinishedUnlessDeleted

\* The start of a scenario gives it one more conversation: the first, or one
\* beside a deleted one.
LEMMA StartKeepsRows ==
  ASSUME CoachingInv, Grows, NEW r \in Requests, NEW c \in Convs, StartCommit(r, c)
  PROVE  RowsHold'
  <1>1. PICK s \in Scenarios : s = req[r].scenario
    BY DEF StartCommit, At, CoachingInv, RequestsKnow, Knows
  <1>2. /\ conv[c].state = "none"
        /\ conv'[c].state = "live" /\ conv'[c].scenario = s /\ conv'[c].user = conv[c].user
        /\ \A d \in Convs \ {c} : conv'[d] = conv[d]
        /\ progress'[s].conv = c /\ progress'[s].completed_at = progress[s].completed_at
        /\ progress'[s].status = "in_progress" \/ (Deleted(s) /\ progress'[s].status = progress[s].status)
        /\ \A x \in Scenarios \ {s} : progress'[x] = progress[x]
        /\ Deleted(s) \/ progress[s].status = "none"
        /\ progress'[s].status # "none"
    BY <1>1, StartEffect
  <1>3. /\ FreshConversations /\ RowsAndConversations /\ LinkIsLive /\ CompletedMeansPractised
        /\ StartedOnce /\ FinishedUnlessDeleted
    BY DEF CoachingInv
  <1>4. \A x \in Scenarios : (Deleted(x) => Deleted(x)') /\ ConvsOf(x) \subseteq ConvsOf(x)'
    BY ConversationsStay
  <1>5. conv[c].scenario = NoScenario /\ s # NoScenario /\ c # NoConv
    BY <1>2, <1>3, NullsAreNull DEF FreshConversations
  <1>6. /\ ConvsOf(s)' = ConvsOf(s) \cup {c} /\ c \notin ConvsOf(s)
        /\ \A x \in Scenarios \ {s} : ConvsOf(x)' = ConvsOf(x)
    BY <1>2, <1>5, NullsAreNull DEF ConvsOf
  <1>7. FreshConversations'
    BY <1>2, <1>3 DEF FreshConversations
  <1>8. RowsAndConversations'
    BY <1>2, <1>3, <1>4, <1>5, <1>6 DEF RowsAndConversations
  <1>9. LinkIsLive'
    <2> SUFFICES ASSUME NEW x \in Scenarios, progress'[x].conv # NoConv
                 PROVE  conv'[progress'[x].conv].state = "live" /\ progress'[x].conv \in ConvsOf(x)'
      BY DEF LinkIsLive, Live
    <2>1. CASE x = s
      BY <1>2, <1>6, <2>1
    <2>2. CASE x # s
      <3>1. progress'[x] = progress[x]
        BY <1>2, <2>2
      <3>2. conv[progress[x].conv].state = "live" /\ progress[x].conv \in ConvsOf(x)
        BY <1>3, <3>1 DEF LinkIsLive, Live
      <3> QED BY <1>2, <1>4, <3>1, <3>2 DEF ConvsOf
    <2> QED BY <2>1, <2>2
  <1>10. CompletedMeansPractised'
    <2> SUFFICES ASSUME NEW x \in Scenarios, progress'[x].completed_at = "set"
                 PROVE  \E d \in ConvsOf(x)' : conv'[d].user >= MinMessages
      BY DEF CompletedMeansPractised
    <2>1. progress[x].completed_at = "set"
      BY <1>2
    <2>2. PICK d \in ConvsOf(x) : conv[d].user >= MinMessages
      BY <1>3, <2>1 DEF CompletedMeansPractised
    <2> QED BY <1>2, <1>4, <2>2 DEF ConvsOf
  <1>11. StartedOnce'
    <2> SUFFICES ASSUME NEW x \in Scenarios, ~Deleted(x)'
                 PROVE  Cardinality(ConvsOf(x)') <= 1
      BY DEF StartedOnce
    <2>1. CASE x = s
      <3>1. ConvsOf(s) = {}
        BY <1>2, <1>3, <1>4, <2>1 DEF RowsAndConversations
      <3>2. ConvsOf(x)' = ConvsOf(s)' /\ ConvsOf(s)' = {c}
        BY <1>6, <2>1, <3>1
      <3>3. Cardinality({c}) = 1
        BY FS_Singleton
      <3> QED BY <3>2, <3>3
    <2>2. CASE x # s
      BY <1>3, <1>4, <1>6, <2>2 DEF StartedOnce
    <2> QED BY <2>1, <2>2
  <1>12. FinishedUnlessDeleted'
    BY <1>2, <1>3, <1>4 DEF FinishedUnlessDeleted, RowsAndConversations
  <1> QED BY <1>7, <1>8, <1>9, <1>10, <1>11, <1>12 DEF RowsHold

\* A completion is of a scenario that was practised.
LEMMA CompleteKeepsRows ==
  ASSUME CoachingInv, Grows, NEW r \in Requests, CompleteCommit(r)
  PROVE  RowsHold'
  <1>1. PICK s \in Scenarios : s = req[r].scenario
    BY DEF CompleteCommit, At, CoachingInv, RequestsKnow, Knows
  <1>2. /\ conv' = conv
        /\ progress'[s].conv = progress[s].conv /\ progress'[s].completed_at = "set"
        /\ progress'[s].status = "completed" \/ (Deleted(s) /\ progress'[s].status = progress[s].status)
        /\ progress[s].status # "none" /\ progress'[s].status # "none"
        /\ \A x \in Scenarios \ {s} : progress'[x] = progress[x]
        /\ \E c \in ConvsOf(s) : conv[c].user >= MinMessages
    BY <1>1, CompleteEffect
  <1>3. \A x \in Scenarios : ConvsOf(x)' = ConvsOf(x) /\ Deleted(x)' = Deleted(x)
    BY <1>2 DEF ConvsOf, Deleted
  <1>4. \A x \in Scenarios : progress'[x].conv = progress[x].conv
    BY <1>2
  <1>5. FreshConversations'
    BY <1>2 DEF CoachingInv, FreshConversations
  <1>6. RowsAndConversations'
    BY <1>2, <1>3, <1>4 DEF CoachingInv, RowsAndConversations
  <1>7. LinkIsLive'
    BY <1>2, <1>3, <1>4 DEF CoachingInv, LinkIsLive, Live
  <1>8. CompletedMeansPractised'
    BY <1>2, <1>3 DEF CoachingInv, CompletedMeansPractised
  <1>9. StartedOnce'
    BY <1>3 DEF CoachingInv, StartedOnce
  <1>10. FinishedUnlessDeleted'
    BY <1>2, <1>3 DEF CoachingInv, FinishedUnlessDeleted
  <1> QED BY <1>5, <1>6, <1>7, <1>8, <1>9, <1>10 DEF RowsHold

\* A deleted conversation leaves no row behind that points to it.
LEMMA DeleteKeepsRows ==
  ASSUME CoachingInv, Grows, NEW c \in Convs, DeleteConversation(c)
  PROVE  RowsHold'
  <1>1. /\ conv[c].state = "live" /\ conv'[c].state = "gone"
        /\ \A d \in Convs : conv'[d].scenario = conv[d].scenario /\ conv'[d].user = conv[d].user
        /\ \A d \in Convs \ {c} : conv'[d].state = conv[d].state
        /\ \A s \in Scenarios :
             /\ progress'[s].status = progress[s].status
             /\ progress'[s].completed_at = progress[s].completed_at
             /\ progress[s].conv = c => progress'[s].conv = NoConv
             /\ progress[s].conv # c => progress'[s].conv = progress[s].conv
    BY DeleteEffect
  <1>2. \A x \in Scenarios : ConvsOf(x)' = ConvsOf(x) /\ (Deleted(x) => Deleted(x)')
    BY <1>1, ConversationsStay DEF ConvsOf
  <1>3. FreshConversations'
    BY <1>1 DEF CoachingInv, FreshConversations
  <1>4. RowsAndConversations'
    <2>1. ASSUME NEW x \in Scenarios, progress'[x].status # "none", progress'[x].conv = NoConv
          PROVE  Deleted(x)'
      <3>1. CASE progress[x].conv = c
        <4>1. c \in ConvsOf(x)
          BY <3>1, NullsAreNull DEF CoachingInv, LinkIsLive
        <4> QED BY <1>1, <1>2, <4>1 DEF Deleted
      <3>2. CASE progress[x].conv # c
        BY <1>1, <1>2, <2>1, <3>2 DEF CoachingInv, RowsAndConversations
      <3> QED BY <3>1, <3>2
    <2>2. ASSUME NEW x \in Scenarios, progress'[x].status = "none"
          PROVE  progress'[x].conv = NoConv /\ progress'[x].completed_at = "null" /\ ConvsOf(x)' = {}
      <3>1. progress[x].conv = NoConv /\ progress[x].completed_at = "null" /\ ConvsOf(x) = {}
        BY <1>1, <2>2 DEF CoachingInv, RowsAndConversations
      <3> QED BY <1>1, <1>2, <3>1, NullsAreNull
    <2> QED BY <2>1, <2>2 DEF RowsAndConversations
  <1>5. LinkIsLive'
    <2> SUFFICES ASSUME NEW x \in Scenarios, progress'[x].conv # NoConv
                 PROVE  conv'[progress'[x].conv].state = "live" /\ progress'[x].conv \in ConvsOf(x)'
      BY DEF LinkIsLive, Live
    <2>1. progress'[x].conv = progress[x].conv /\ progress[x].conv # c
      BY <1>1
    <2>2. conv[progress[x].conv].state = "live" /\ progress[x].conv \in ConvsOf(x)
      BY <2>1 DEF CoachingInv, LinkIsLive, Live
    <2> QED BY <1>1, <1>2, <2>1, <2>2 DEF ConvsOf
  <1>6. CompletedMeansPractised'
    <2> SUFFICES ASSUME NEW x \in Scenarios, progress'[x].completed_at = "set"
                 PROVE  \E d \in ConvsOf(x)' : conv'[d].user >= MinMessages
      BY DEF CompletedMeansPractised
    <2>1. PICK d \in ConvsOf(x) : conv[d].user >= MinMessages
      BY <1>1 DEF CoachingInv, CompletedMeansPractised
    <2> QED BY <1>1, <1>2, <2>1 DEF ConvsOf
  <1>7. StartedOnce'
    BY <1>2 DEF CoachingInv, StartedOnce
  <1>8. FinishedUnlessDeleted'
    BY <1>1, <1>2 DEF CoachingInv, FinishedUnlessDeleted
  <1> QED BY <1>3, <1>4, <1>5, <1>6, <1>7, <1>8 DEF RowsHold

\* The other steps leave the rows, and a scenario its conversations.
LEMMA ChatsKeepRows ==
  ASSUME CoachingInv, Grows, TypeOK', Chats
  PROVE  RowsHold'
  <1>1. /\ progress' = progress
        /\ \A c \in Convs : /\ conv'[c].scenario = conv[c].scenario
                            /\ conv'[c].user >= conv[c].user
                            /\ conv'[c].state = conv[c].state
                                 \/ (conv[c].state = "none" /\ conv'[c].state = "live")
    BY DEF Chats
  <1>2. \A x \in Scenarios : ConvsOf(x)' = ConvsOf(x) /\ (Deleted(x) => Deleted(x)')
    BY <1>1, ConversationsStay DEF ConvsOf
  <1>3. FreshConversations'
    BY <1>1 DEF CoachingInv, FreshConversations
  <1>4. RowsAndConversations'
    BY <1>1, <1>2 DEF CoachingInv, RowsAndConversations
  <1>5. LinkIsLive'
    <2> SUFFICES ASSUME NEW x \in Scenarios, progress[x].conv # NoConv
                 PROVE  conv'[progress[x].conv].state = "live" /\ progress[x].conv \in ConvsOf(x)'
      BY <1>1 DEF LinkIsLive, Live
    <2>1. conv[progress[x].conv].state = "live" /\ progress[x].conv \in ConvsOf(x)
      BY DEF CoachingInv, LinkIsLive, Live
    <2> QED BY <1>1, <1>2, <2>1 DEF ConvsOf
  <1>6. CompletedMeansPractised'
    <2> SUFFICES ASSUME NEW x \in Scenarios, progress[x].completed_at = "set"
                 PROVE  \E d \in ConvsOf(x)' : conv'[d].user >= MinMessages
      BY <1>1 DEF CompletedMeansPractised
    <2>1. PICK d \in ConvsOf(x) : conv[d].user >= MinMessages
      BY DEF CoachingInv, CompletedMeansPractised
    <2>2. conv'[d].user >= conv[d].user /\ d \in Convs
      BY <1>1 DEF ConvsOf
    <2>3. conv[d].user \in Int /\ conv'[d].user \in Int /\ MinMessages \in Int
      BY <2>2, BoundsAreNatural DEF CoachingInv, TypeOK, Conversation
    <2> QED BY <1>2, <2>1, <2>2, <2>3
  <1>7. StartedOnce'
    BY <1>2 DEF CoachingInv, StartedOnce
  <1>8. FinishedUnlessDeleted'
    BY <1>1, <1>2 DEF CoachingInv, FinishedUnlessDeleted
  <1> QED BY <1>3, <1>4, <1>5, <1>6, <1>7, <1>8 DEF RowsHold

\* The invariant is inductive.
LEMMA NextCoachingInv == CoachingInv /\ [Next]_vars => CoachingInv'
  <1> SUFFICES ASSUME CoachingInv, [Next]_vars PROVE CoachingInv'
    OBVIOUS
  <1>1. TypeOK' /\ MessagesFit' /\ RequestsKnow' /\ Grows
    BY NextTypeOK, NextKnows, StepGrows
  <1>2. RowsHold'
    BY <1>1, StepKinds, StartKeepsRows, CompleteKeepsRows, DeleteKeepsRows, ChatsKeepRows
  <1> QED BY <1>1, <1>2 DEF CoachingInv, RowsHold

-----------------------------------------------------------------------------
(* The theorems *)

\* The inductive invariant of the coach.
THEOREM CoachingInvariant == Spec => []CoachingInv
  <1> QED BY InitCoachingInv, NextCoachingInv, PTL DEF Spec

\* The tables and the sessions keep their types; no message is stored beyond the bound.
THEOREM CoachingTypeCorrect == Spec => []TypeOK
  <1>1. CoachingInv => TypeOK
    BY DEF CoachingInv
  <1> QED BY CoachingInvariant, <1>1, PTL

\* complete_scenario: a completed_at was earned by MinMessages stored messages in a
\* conversation of the scenario, whatever was deleted or restarted meanwhile.
THEOREM CompletionIsEarned == Spec => []CompletedMeansPractised
  <1>1. CoachingInv => CompletedMeansPractised
    BY DEF CoachingInv
  <1> QED BY CoachingInvariant, <1>1, PTL

\* The row of a scenario never points to a conversation that is gone, or is another's.
THEOREM LinksAreLive == Spec => []LinkIsLive
  <1>1. CoachingInv => LinkIsLive
    BY DEF CoachingInv
  <1> QED BY CoachingInvariant, <1>1, PTL

\* start_scenario is idempotent under any number of concurrent requests.
THEOREM StartIsIdempotent == Spec => []StartedOnce
  <1>1. CoachingInv => StartedOnce
    BY DEF CoachingInv
  <1> QED BY CoachingInvariant, <1>1, PTL

\* A completed scenario is reopened only by deleting one of its conversations.
THEOREM FinishedStaysFinished == Spec => []FinishedUnlessDeleted
  <1>1. CoachingInv => FinishedUnlessDeleted
    BY DEF CoachingInv
  <1> QED BY CoachingInvariant, <1>1, PTL
\* A level has finitely many scenarios.
LEMMA LevelsAreFinite ==
  ASSUME NEW i \in Levels
  PROVE  /\ IsFiniteSet(ScenariosOf(i)) /\ Cardinality(ScenariosOf(i)) \in Nat
         /\ ScenariosOf(i) \subseteq Scenarios
         /\ \A k \in DOMAIN Curriculum[i] : Curriculum[i][k] \in ScenariosOf(i)
  <1> DEFINE f == Curriculum[i]
             n == Len(Curriculum[i])
  <1>1. f \in Seq(Scenarios)
    BY CurriculumIsSequence DEF Levels
  <1>2. f \in Surjection(1..n, ScenariosOf(i)) /\ n \in Nat
    BY <1>1 DEF Surjection, ScenariosOf
  <1>3. IsFiniteSet(1..n)
    BY <1>2, FS_Interval
  <1>4. IsFiniteSet(ScenariosOf(i))
    BY <1>2, <1>3, FS_Surjection
  <1> QED BY <1>1, <1>4, FS_CardinalityType DEF ScenariosOf, Scenarios

\* What was unlocked, or open, stays so if no completed scenario is taken back.
LEMMA ClosingNeedsDeletion == CoachingInv /\ [Next]_vars => ClosingStep
  <1> SUFFICES ASSUME CoachingInv, [Next]_vars PROVE ClosingStep
    OBVIOUS
  <1>1. \A s \in Scenarios : progress[s].status = "completed" =>
          progress'[s].status = "completed" \/ Deleted(s)
    BY StepGrows DEF Grows
  <1>2. ASSUME NEW i \in Levels, NEW k \in DOMAIN Curriculum[i], Open(i, k), ~Open(i, k)'
        PROVE  Deleted(Curriculum[i][k - 1])
    <2>1. /\ k # 1 /\ progress[Curriculum[i][k - 1]].status = "completed"
          /\ progress'[Curriculum[i][k - 1]].status # "completed"
      BY <1>2 DEF Open
    <2>2. k \in 1..Len(Curriculum[i]) /\ Len(Curriculum[i]) \in Nat
          /\ DOMAIN Curriculum[i] = 1..Len(Curriculum[i])
      BY <1>2, CurriculumIsSequence DEF Levels
    <2>3. k - 1 \in DOMAIN Curriculum[i]
      BY <2>1, <2>2
    <2>4. Curriculum[i][k - 1] \in Scenarios
      BY <2>3, LevelsAreFinite
    <2> QED BY <1>1, <2>1, <2>4
  <1>3. ASSUME NEW i \in Levels, Unlocked(i),
               \A j \in 1..(i - 1) : \A s \in ScenariosOf(j) : ~Deleted(s)
        PROVE  Unlocked(i)'
    <2> SUFFICES ASSUME NEW j \in 1..(i - 1)
                 PROVE  /\ Curriculum[j] # <<>>
                        /\ 10 * CompletedIn(j)' >= 6 * Cardinality(ScenariosOf(j))
      BY DEF Unlocked, ScenariosOf
    <2>1. j \in Levels
      BY CurriculumIsSequence DEF Levels
    <2> DEFINE before == {s \in ScenariosOf(j) : progress[s].status = "completed"}
               after == {s \in ScenariosOf(j) : progress'[s].status = "completed"}
    <2>2. /\ Curriculum[j] # <<>> /\ 10 * Cardinality(before) >= 6 * Cardinality(ScenariosOf(j))
      BY <1>3 DEF Unlocked, CompletedIn
    <2>3. before \in SUBSET after /\ after \in SUBSET ScenariosOf(j)
      BY <1>1, <1>3, <2>1, LevelsAreFinite
    <2>4. CompletedIn(j)' = Cardinality(after)
      BY DEF CompletedIn, ScenariosOf
    <2> HIDE DEF before, after
    <2>5. IsFiniteSet(after) /\ Cardinality(after) \in Nat
      BY <2>1, <2>3, LevelsAreFinite, FS_Subset, FS_CardinalityType
    <2>6. Cardinality(before) <= Cardinality(after) /\ Cardinality(before) \in Nat
      BY <2>3, <2>5, FS_Subset, FS_CardinalityType
    <2>7. Cardinality(ScenariosOf(j)) \in Nat
      BY <2>1, LevelsAreFinite
    <2> QED BY <2>2, <2>4, <2>5, <2>6, <2>7
  <1> QED BY <1>2, <1>3 DEF ClosingStep

\* The curriculum closes a level or a scenario again only after one of the
\* conversations it rests on was deleted.
THEOREM ClosesOnDeletionOnly == Spec => ClosesOnlyAfterDeletion
  <1> QED BY CoachingInvariant, ClosingNeedsDeletion, PTL DEF Spec, ClosesOnlyAfterDeletion
=============================================================================
