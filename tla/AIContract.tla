----------------------------- MODULE AIContract -----------------------------
(***************************************************************************)
(* What one call of app/services/ai.py may do to its caller.  The caller   *)
(* hands over its session with work that it has flushed; it gets an answer *)
(* or an error back, and on the way the row written to ai_request_logs has *)
(* committed that work, or a failed commit has rolled it back.  This is    *)
(* what SpeechPipeline and Coaching assume of the calls they make.         *)
(***************************************************************************)

VARIABLES catchesAll,  \* analyze_speech has a handler for every exception
          work,        \* what became of the work flushed by the caller
          log,         \* status of the row of this call in ai_request_logs
          outcome      \* what the caller sees

vars == <<catchesAll, work, log, outcome>>

Init == /\ catchesAll \in BOOLEAN
        /\ work = "flushed" /\ log = "none" /\ outcome = "none"

\* The commit of the log row takes the caller's work along, both ways.
Record(status) == \/ work' = "committed" /\ log' = status
                  \/ work' = "lost" /\ UNCHANGED log

Open == outcome = "none" /\ UNCHANGED catchesAll

Answer == Open /\ outcome' = "answered" /\ Record("success")
Refuse == /\ Open /\ outcome' = "refused"
          /\ \/ Record("failed")
             \/ catchesAll /\ Record("validation_failed")

\* An error no handler expects reaches the caller before anything is logged.
Escape == /\ Open /\ ~catchesAll
          /\ outcome' = "escaped" /\ UNCHANGED <<work, log>>
Die == Open /\ outcome' = "died" /\ work' = "lost" /\ UNCHANGED log

Next == Answer \/ Refuse \/ Escape \/ Die

Spec == Init /\ [][Next]_vars
=============================================================================
