------------------------------ MODULE Coaching ------------------------------
(***************************************************************************)
(* The dialect coach: conversations (app/services/chat_service.py) and the *)
(* curriculum built on them (app/services/learning_engine.py).             *)
(*                                                                         *)
(* The rows of one user, on the production database (foreign keys are      *)
(* enforced, transactions read committed), under several requests of that  *)
(* user at a time.  A request is a session: it keeps what it has read, and *)
(* its flush writes the attributes it found different.                     *)
(***************************************************************************)
EXTENDS Integers, Sequences, FiniteSets

CONSTANTS
  Curriculum,   \* the levels by order_index, each the sequence of its scenarios
  Active,       \* the scenarios with active = TRUE
  Convs,        \* ids of conversations
  Requests,     \* concurrent requests of the user
  MinMessages,  \* MIN_USER_MESSAGES_TO_COMPLETE
  LogFails,     \* whether the commit of an AI request log may fail
  MaxMessages,  \* bound: messages of the user in one conversation
  NoScenario, NoConv

Levels == DOMAIN Curriculum
ScenariosOf(i) == {Curriculum[i][k] : k \in DOMAIN Curriculum[i]}
Scenarios == UNION {ScenariosOf(i) : i \in Levels}

ASSUME BoundsAreNatural == MinMessages \in Nat /\ MaxMessages \in Nat
ASSUME NullsAreNull == NoScenario \notin Scenarios /\ NoConv \notin Convs
ASSUME ActiveAreScenarios == Active \subseteq Scenarios
ASSUME CurriculumIsSequence == Curriculum \in Seq(Seq(Scenarios))
ASSUME RequestsAreFinite == IsFiniteSet(Requests)

VARIABLES
  conv,      \* the conversations table; a deleted row keeps what it held
  progress,  \* the user_scenario_progress table; "none" where no row is
  req        \* the sessions

vars == <<conv, progress, req>>

Statuses == {"none", "in_progress", "completed"}

Conversation == [state : {"none", "live", "gone"}, scenario : Scenarios \cup {NoScenario},
                 user : 0..MaxMessages, replies : 0..MaxMessages]
Progress == [status : Statuses, conv : Convs \cup {NoConv}, completed_at : {"null", "set"}]
Request == [pc : {"idle", "starting", "counting", "finishing", "asking", "replying"},
            scenario : Scenarios \cup {NoScenario}, conv : Convs \cup {NoConv}, status : Statuses]

TypeOK == /\ conv \in [Convs -> Conversation]
          /\ progress \in [Scenarios -> Progress]
          /\ req \in [Requests -> Request]

Idle == [pc |-> "idle", scenario |-> NoScenario, conv |-> NoConv, status |-> "none"]

Init == /\ conv = [c \in Convs |-> [state |-> "none", scenario |-> NoScenario,
                                    user |-> 0, replies |-> 0]]
        /\ progress = [s \in Scenarios |-> [status |-> "none", conv |-> NoConv,
                                            completed_at |-> "null"]]
        /\ req = [r \in Requests |-> Idle]

Live(c) == conv[c].state = "live"
At(r, pc) == req[r].pc = pc
End(r) == req' = [req EXCEPT ![r] = Idle]

-----------------------------------------------------------------------------
(* POST /api/learning/scenarios/{id}/start *)

\* Mutation of StartRead: the conversation the row points to is not looked at.
StartReadAlways(r, s) ==
  /\ At(r, "idle") /\ s \in Active
  /\ req' = [req EXCEPT ![r] = [pc |-> "starting", scenario |-> s, conv |-> NoConv,
                                status |-> progress[s].status]]
  /\ UNCHANGED <<conv, progress>>

\* The scenario has no conversation (any more): a new one is prepared from what
\* the row says now.  Where it has one, that one is returned and nothing changes.
StartRead(r, s) ==
  /\ At(r, "idle") /\ s \in Active /\ progress[s].conv = NoConv
  /\ req' = [req EXCEPT ![r] = [pc |-> "starting", scenario |-> s, conv |-> NoConv,
                                status |-> progress[s].status]]
  /\ UNCHANGED <<conv, progress>>

\* Mutation of Duplicate: no unique constraint.
NeverDuplicate(r) == FALSE

\* uq_user_scenario: the row was missing when it was read, and is there now.
Duplicate(r) == req[r].status = "none" /\ progress[req[r].scenario].status # "none"

\* One commit: the conversation with its opening message, and the row that points
\* to it.  A status that was in_progress when read is not written.
StartCommit(r, c) ==
  /\ At(r, "starting") /\ ~Duplicate(r) /\ conv[c].state = "none"
  /\ conv' = [conv EXCEPT ![c].state = "live", ![c].scenario = req[r].scenario]
  /\ progress' = [progress EXCEPT
                    ![req[r].scenario].conv = c,
                    ![req[r].scenario].status =
                       IF req[r].status = "in_progress" THEN @ ELSE "in_progress"]
  /\ End(r)

\* Mutation of StartDuplicate: the insert is an upsert.
StartUpserts(r) ==
  /\ At(r, "starting") /\ Duplicate(r)
  /\ progress' = [progress EXCEPT ![req[r].scenario].status = "in_progress"]
  /\ End(r) /\ UNCHANGED conv

\* IntegrityError: the transaction, with its conversation, is rolled back.
StartDuplicate(r) == At(r, "starting") /\ Duplicate(r) /\ End(r) /\ UNCHANGED <<conv, progress>>

-----------------------------------------------------------------------------
(* POST /api/learning/scenarios/{id}/complete *)

\* The row is read; without a conversation the answer is "start it first".
CompleteRead(r, s) ==
  /\ At(r, "idle") /\ progress[s].conv # NoConv
  /\ req' = [req EXCEPT ![r] = [pc |-> "counting", scenario |-> s,
                                conv |-> progress[s].conv, status |-> progress[s].status]]
  /\ UNCHANGED <<conv, progress>>

\* Mutation of Stored: the opening message of the assistant is counted.
StoredWithOpening(c) == IF Live(c) THEN conv[c].user + 1 ELSE 0

\* The messages of the conversation the row named; a deleted one has none.
Stored(c) == IF Live(c) THEN conv[c].user ELSE 0

CompleteCount(r) ==
  /\ At(r, "counting")
  /\ \/ Stored(req[r].conv) >= MinMessages /\ req' = [req EXCEPT ![r].pc = "finishing"]
     \/ Stored(req[r].conv) < MinMessages /\ End(r)
  /\ UNCHANGED <<conv, progress>>

CompleteCommit(r) ==
  /\ At(r, "finishing")
  /\ progress' = [progress EXCEPT
                    ![req[r].scenario].status = IF req[r].status = "completed" THEN @ ELSE "completed",
                    ![req[r].scenario].completed_at = "set"]
  /\ End(r) /\ UNCHANGED conv

-----------------------------------------------------------------------------
(* The chat *)

CreateConversation(c) == /\ conv[c].state = "none"
                         /\ conv' = [conv EXCEPT ![c].state = "live"]
                         /\ UNCHANGED <<progress, req>>

Asking(c) == {r \in Requests : At(r, "asking") /\ req[r].conv = c}

\* send_message inserts the user's message, uncommitted, and calls the AI.
Post(r, c) ==
  /\ At(r, "idle") /\ Live(c)
  /\ conv[c].user + Cardinality(Asking(c)) < MaxMessages
  /\ conv[c].replies + Cardinality({q \in Requests : req[q].conv = c /\ req[q].pc \in {"asking", "replying"}})
       < MaxMessages
  /\ req' = [req EXCEPT ![r] = [Idle EXCEPT !.pc = "asking", !.conv = c]]
  /\ UNCHANGED <<conv, progress>>

\* _log_request commits the session, the user's message with it, whether the AI
\* answered or not.
Logged(r) ==
  /\ At(r, "asking")
  /\ conv' = [conv EXCEPT ![req[r].conv].user = @ + 1]
  /\ req' = [req EXCEPT ![r].pc = "replying"]
  /\ UNCHANGED progress

\* ... or that commit fails, is rolled back, and the exception is swallowed.
LogLost(r) == /\ LogFails /\ At(r, "asking")
              /\ req' = [req EXCEPT ![r].pc = "replying"]
              /\ UNCHANGED <<conv, progress>>

\* An error that is not an AIServiceError is not logged: the message and the
\* apology are committed together.
Apologise(r) ==
  /\ At(r, "asking")
  /\ conv' = [conv EXCEPT ![req[r].conv].user = @ + 1, ![req[r].conv].replies = @ + 1]
  /\ End(r) /\ UNCHANGED progress

\* The reply and the new updated_at are committed, if the conversation is still there.
Answer(r) ==
  /\ At(r, "replying")
  /\ conv' = [conv EXCEPT ![req[r].conv].replies = IF Live(req[r].conv) THEN @ + 1 ELSE @]
  /\ End(r) /\ UNCHANGED progress

\* Mutation of DeleteConversation: the foreign key of the progress row is not kept.
DeleteDangling(c) ==
  /\ Live(c) /\ Asking(c) = {}
  /\ conv' = [conv EXCEPT ![c].state = "gone"]
  /\ UNCHANGED <<progress, req>>

\* DELETE waits for an uncommitted message of the conversation (its foreign key
\* locks the row); the messages go with the row, and the progress row that
\* points to it is set to NULL.
DeleteConversation(c) ==
  /\ Live(c) /\ Asking(c) = {}
  /\ conv' = [conv EXCEPT ![c].state = "gone"]
  /\ progress' = [s \in Scenarios |->
                    IF progress[s].conv = c THEN [progress[s] EXCEPT !.conv = NoConv] ELSE progress[s]]
  /\ UNCHANGED req

\* The process dies; what is not committed is lost.
Die(r) == ~At(r, "idle") /\ End(r) /\ UNCHANGED <<conv, progress>>

Next == \/ \E r \in Requests :
             \/ \E s \in Scenarios : StartRead(r, s) \/ CompleteRead(r, s)
             \/ \E c \in Convs : StartCommit(r, c) \/ Post(r, c)
             \/ StartDuplicate(r) \/ CompleteCount(r) \/ CompleteCommit(r)
             \/ Logged(r) \/ LogLost(r) \/ Apologise(r) \/ Answer(r) \/ Die(r)
        \/ \E c \in Convs : CreateConversation(c) \/ DeleteConversation(c)

Spec == Init /\ [][Next]_vars

-----------------------------------------------------------------------------
(* What the curriculum shows *)

CompletedIn(i) == Cardinality({s \in ScenariosOf(i) : progress[s].status = "completed"})

\* get_levels_with_progress: LEVEL_UNLOCK_THRESHOLD = 0.6 of every level before it,
\* and an empty level counts as 0.
Unlocked(i) == \A j \in 1..(i - 1) :
                 /\ Curriculum[j] # <<>>
                 /\ 10 * CompletedIn(j) >= 6 * Cardinality(ScenariosOf(j))

\* get_scenarios_for_level: a scenario opens when the one before it is completed.
Open(i, k) == k = 1 \/ progress[Curriculum[i][k - 1]].status = "completed"

-----------------------------------------------------------------------------
(* Properties *)

ConvsOf(s) == {c \in Convs : conv[c].scenario = s}
Deleted(s) == \E c \in ConvsOf(s) : conv[c].state = "gone"

\* complete_scenario: whatever is deleted, restarted or completed meanwhile, a
\* scenario gets its completed_at only after MinMessages were stored in one of
\* its own conversations.
CompletedMeansPractised ==
  \A s \in Scenarios : progress[s].completed_at = "set" =>
    \E c \in ConvsOf(s) : conv[c].user >= MinMessages

\* The row of a scenario points to nothing or to a conversation of that scenario
\* that exists.
LinkIsLive == \A s \in Scenarios : progress[s].conv # NoConv =>
                Live(progress[s].conv) /\ progress[s].conv \in ConvsOf(s)

\* start_scenario is idempotent: a second conversation appears only after one was
\* deleted, even if two requests start the scenario at once.
StartedOnce == \A s \in Scenarios : Deleted(s) \/ Cardinality(ConvsOf(s)) <= 1

\* A completed scenario is in progress again only if one of its conversations was
\* deleted.
FinishedUnlessDeleted ==
  \A s \in Scenarios :
    progress[s].completed_at = "set" /\ progress[s].status # "completed" => Deleted(s)

\* What the curriculum has opened closes again only when a completed scenario is
\* restarted after its conversation was deleted.
ClosingStep ==
  \A i \in Levels :
    /\ Unlocked(i) /\ ~Unlocked(i)' => \E j \in 1..(i - 1) : \E s \in ScenariosOf(j) : Deleted(s)
    /\ \A k \in DOMAIN Curriculum[i] :
         Open(i, k) /\ ~Open(i, k)' => Deleted(Curriculum[i][k - 1])
ClosesOnlyAfterDeletion == [][ClosingStep]_vars
=============================================================================
