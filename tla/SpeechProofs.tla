---------------------------- MODULE SpeechProofs ----------------------------
(***************************************************************************)
(* Theorems about SpeechPipeline, for all values of its constants.         *)
(***************************************************************************)
EXTENDS SpeechPipeline, TLAPS

(* The inductive invariant: what the rows, the files, the queue and the     *)
(* executors know of each other between two commits.                       *)

\* A request works on its own speech, and swallows every error.
RequestsStayAtHome ==
  \A s \in Speeches : Current(s) = s /\ run[s].pc \notin {"reporting", "failing", "broken"}

\* The rows of a speech come with the commit of its request.
RowsComeWithTheRequest ==
  \A s \in Speeches :
    /\ run[s].pc \in {"idle", "uploading"} => speech[s].status = "absent"
    /\ speech[s].status = "absent" => ~JobExists(s) /\ s \notin deleting
    /\ JobExists(s) => Present(s)

\* A file is written before its row, and removed before it.
FilesComeFirst ==
  \A s \in Speeches :
    /\ At(s, "idle") => s \notin file
    /\ At(s, "uploading") => s \in file
    /\ s \in deleting /\ s \in file => backend = "s3"

\* A worker works on speeches that have been committed, and on nothing else.
WorkersTakeJobs ==
  \A w \in Workers : /\ run[w].pc \notin {"uploading", "refused", "done"}
                     /\ Busy(w) => speech[Current(w)].status # "absent"

\* A worker about to report has seen the analysis committed, or next to no text;
\* the speech may have been deleted since.
ReportsAreEarned ==
  \A w \in Workers : At(w, "reporting") /\ JobExists(Current(w)) =>
    speech[Current(w)].analysis = "stored" \/ "short" \in WorkerOutcomes[Current(w)]

\* Who has loaded "processing" need not begin: the speech is not pending again.
LoadedIsPast ==
  \A e \in Executors :
    At(e, "loaded") /\ run[e].seen = "processing" => speech[Current(e)].status # "pending"

SpeechInv ==
  /\ TypeOK
  /\ RequestsStayAtHome
  /\ RowsComeWithTheRequest
  /\ FilesComeFirst
  /\ WorkersTakeJobs
  /\ OneWorkerPerJob
  /\ CompletedHasAnalysis
  /\ ReportsAreEarned
  /\ JobCompletedMeansAnalysed
  /\ LoadedIsPast
  /\ PendingIsNotForgotten
  /\ FilesMatchRows

-----------------------------------------------------------------------------
(* What one step of an executor does to its own state and to its speech     *)

\* The steps of an executor that touch only its own state and the row of the
\* speech it works on.
Working(e) == Process(e) \/ (e \in Speeches /\ TextRefused(e))

\* The row of a speech that is written is there, and is written forward.
WrittenForward(s) ==
  /\ \A x \in Speeches \ {s} : speech'[x] = speech[x]
  /\ \/ speech'[s] = speech[s]
     \/ /\ Present(s)
        /\ speech'[s].status \in {"processing", "failed", "completed"}
        /\ speech'[s].status = "completed" => speech'[s].analysis = "stored"
        /\ speech[s].analysis = "stored" => speech'[s].analysis = "stored"

\* An executor that moves takes nobody with it and stays with its speech.
Moved(e) ==
  /\ run' \in [Executors -> Run]
  /\ \A x \in Executors \ {e} : run'[x] = run[x]
  /\ run'[e].speech = run[e].speech

\* Where the executor may stand afterwards.
StepsForward(e) ==
  /\ run[e].pc \notin {"idle", "uploading"}
  /\ run'[e].pc \notin {"idle", "uploading", "refused", "starting"}
  /\ e \in Speeches => run'[e].pc \notin {"reporting", "failing", "broken"}
  /\ e \in Workers => run'[e].pc # "done"
  /\ e \in Workers /\ run'[e].pc = "reporting" =>
       speech'[Current(e)].analysis = "stored" \/ "short" \in WorkerOutcomes[Current(e)]
  /\ run'[e].pc = "loaded" => run[e].pc = "starting" /\ run'[e].seen = speech'[Current(e)].status
  /\ run[e].pc = "starting" => run'[e].pc = "loaded" \/ ~Present(Current(e))
  /\ run[e].pc = "loaded" => speech'[Current(e)].status # "pending"

\* Writing a status other than "completed" over a speech that is there.
LEMMA StatusWritten ==
  ASSUME TypeOK, NEW s \in Speeches, Present(s), NEW status \in {"processing", "failed"},
         SetStatus(s, status)
  PROVE  /\ speech' \in [Speeches -> Speech]
         /\ WrittenForward(s)
         /\ speech'[s].status = status
         /\ speech'[s].analysis = speech[s].analysis
  <1>1. speech \in [Speeches -> Speech] /\ speech[s] \in Speech
    BY DEF TypeOK
  <1>2. /\ speech'[s] = [speech[s] EXCEPT !.status = status]
        /\ \A x \in Speeches \ {s} : speech'[x] = speech[x]
        /\ DOMAIN speech' = Speeches
    BY <1>1 DEF SetStatus
  <1>3. /\ speech'[s] = [status |-> status, analysis |-> speech[s].analysis]
        /\ speech'[s] \in Speech
    BY <1>1, <1>2 DEF Speech, SpeechStatuses
  <1>4. speech' \in [Speeches -> Speech]
    BY <1>1, <1>2, <1>3 DEF SetStatus
  <1> QED BY <1>2, <1>3, <1>4 DEF WrittenForward

\* What Go and Close do to a process.
LEMMA ProcessMoved ==
  ASSUME TypeOK, NEW e \in Executors, NEW pc \in PCs, NEW seen \in SpeechStatuses,
         \/ Go(e, pc)
         \/ Close(e, pc)
         \/ run' = [run EXCEPT ![e].pc = pc, ![e].seen = seen]
  PROVE  Moved(e) /\ run'[e].pc = pc
  BY DEF TypeOK, Go, Close, Moved, Run, PCs, SpeechStatuses

\* A process that is through with a speech: a request answers, a worker goes on.
LEMMA ProcessEnded ==
  ASSUME TypeOK, NEW e \in Executors, NEW how \in PCs, End(e, how)
  PROVE  Moved(e) /\ run'[e].pc = IF e \in Speeches THEN "done" ELSE how
  <1>1. "done" \in PCs /\ "absent" \in SpeechStatuses
    BY DEF PCs, SpeechStatuses
  <1>2. CASE e \in Speeches
    BY <1>1, <1>2, ProcessMoved DEF End
  <1>3. CASE e \notin Speeches
    BY <1>1, <1>3, ProcessMoved DEF End
  <1> QED BY <1>2, <1>3

\* The commit of a failure writes the speech if it is there, and a request that
\* ends there answers.
LEMMA FailureCommitted ==
  ASSUME TypeOK, NEW e \in Executors, NEW how \in PCs, CommitFailure(e, how)
  PROVE  /\ Moved(e)
         /\ run'[e].pc \in IF e \in Speeches THEN {"done"} ELSE {how, "broken"}
         /\ speech' \in [Speeches -> Speech]
         /\ WrittenForward(Current(e))
  <1>1. /\ Current(e) \in Speeches
        /\ {"done", "broken"} \subseteq PCs
        /\ {"absent", "failed"} \subseteq SpeechStatuses
    BY DEF TypeOK, Run, Current, PCs, SpeechStatuses
  <1>2. CASE Present(Current(e)) /\ SetStatus(Current(e), "failed")
    <2>1. speech' \in [Speeches -> Speech] /\ WrittenForward(Current(e))
      BY <1>1, <1>2, StatusWritten
    <2>2. CASE e \in Speeches /\ Close(e, "done")
      BY <1>1, <2>1, <2>2, ProcessMoved
    <2>3. CASE e \notin Speeches /\ run' = [run EXCEPT ![e].pc = how, ![e].seen = "failed"]
      <3>1. Moved(e) /\ run'[e].pc = how
        BY <1>1, <2>3, ProcessMoved
      <3> QED BY <2>1, <2>3, <3>1
    <2> QED BY <1>2, <2>2, <2>3 DEF CommitFailure
  <1>3. CASE ~Present(Current(e)) /\ speech' = speech /\ End(e, "broken")
    BY <1>1, <1>3, ProcessEnded DEF TypeOK, WrittenForward
  <1> QED BY <1>2, <1>3 DEF CommitFailure

\* Every step of _process_audio_speech, the refusal of a text and a worker's
\* giving up write the row of their own speech forward, and nothing else but it.
LEMMA WorkingEffect ==
  ASSUME SpeechInv, NEW e \in Executors, Working(e)
  PROVE  /\ Moved(e) /\ speech' \in [Speeches -> Speech]
         /\ WrittenForward(Current(e)) /\ StepsForward(e)
         /\ UNCHANGED <<backend, job, file, deleting, uploads, crashes, erased>>
  <1> DEFINE s == Current(e)
  <1>0. /\ run \in [Executors -> Run] /\ speech \in [Speeches -> Speech]
        /\ run[e] \in Run /\ s \in Speeches /\ speech[s] \in Speech
    BY DEF SpeechInv, TypeOK, Run, Current
  <1>1. e \in Speeches => e \notin Workers /\ run[e].pc \notin {"reporting", "failing", "broken"}
    BY DisjointExecutors DEF SpeechInv, RequestsStayAtHome
  <1>2. e \notin Speeches => e \in Workers /\ run[e].pc \notin {"uploading", "refused", "done"}
    BY DEF Executors, SpeechInv, WorkersTakeJobs
  <1>3. speech[s].status = "completed" => speech[s].analysis = "stored"
    BY <1>0 DEF SpeechInv, CompletedHasAnalysis
  <1>4. run[e].pc = "loaded" /\ run[e].seen = "processing" => speech[s].status # "pending"
    BY DEF SpeechInv, LoadedIsPast, At
  <1>a. speech' = speech => speech' \in [Speeches -> Speech] /\ WrittenForward(s)
    BY <1>0 DEF WrittenForward
  <1>b. TypeOK /\ SpeechStatuses = {"absent", "pending", "processing", "completed", "failed", "deleted"}
    BY DEF SpeechInv, SpeechStatuses
  <1>c. PCs = {"idle", "uploading", "refused", "starting", "loaded", "begun", "analysed",
               "reporting", "failing", "broken", "done"}
    BY DEF PCs
  <1>5. CASE Load(e)
    <2>1. CASE /\ Present(s)
               /\ run' = [run EXCEPT ![e].pc = "loaded", ![e].seen = speech[s].status]
      <3>1. Moved(e) /\ run'[e].pc = "loaded"
        BY <2>1, <1>0, <1>b, <1>c, ProcessMoved DEF Speech
      <3>2. run'[e].seen = speech[s].status
        BY <2>1, <1>0
      <3> QED BY <1>5, <1>a, <3>1, <3>2 DEF Load, StepsForward, At
    <2>2. CASE ~Present(s) /\ End(e, "broken")
      <3>1. Moved(e) /\ run'[e].pc = IF e \in Speeches THEN "done" ELSE "broken"
        BY <2>2, <1>b, <1>c, ProcessEnded
      <3> QED BY <1>5, <1>a, <1>1, <2>2, <3>1 DEF Load, StepsForward, At
    <2> QED BY <1>5, <2>1, <2>2 DEF Load
  <1>6. CASE Begin(e)
    <2>1. CASE run[e].seen = "processing" /\ Go(e, "begun") /\ speech' = speech
      BY <1>6, <2>1, <1>a, <1>b, <1>c, <1>4, ProcessMoved DEF Begin, StepsForward, At
    <2>2. CASE /\ Present(s)
               /\ SetStatus(s, "processing")
               /\ run' = [run EXCEPT ![e].pc = "begun", ![e].seen = "processing"]
      <3>1. Moved(e) /\ run'[e].pc = "begun"
        BY <2>2, <1>b, <1>c, ProcessMoved
      <3>2. speech' \in [Speeches -> Speech] /\ WrittenForward(s) /\ speech'[s].status = "processing"
        BY <2>2, <1>0, <1>b, StatusWritten
      <3> QED BY <1>6, <3>1, <3>2 DEF Begin, StepsForward, At
    <2>3. CASE ~Present(s) /\ End(e, "broken") /\ speech' = speech
      <3>1. Moved(e) /\ run'[e].pc = IF e \in Speeches THEN "done" ELSE "broken"
        BY <2>3, <1>b, <1>c, ProcessEnded
      <3> QED BY <1>6, <1>1, <2>3, <3>1, <1>a DEF Begin, StepsForward, At, Present
    <2> QED BY <1>6, <2>1, <2>2, <2>3 DEF Begin
  <1>7. CASE Analyse(e)
    <2>1. CASE Go(e, "analysed") /\ speech' = speech
      BY <1>7, <2>1, <1>a, <1>b, <1>c, ProcessMoved DEF Analyse, StepsForward, At
    <2>2. CASE CommitFailure(e, "failing")
      BY <1>7, <2>2, <1>1, <1>b, <1>c, FailureCommitted DEF Analyse, StepsForward, At
    <2>3. CASE "short" \in OutcomesOf(e) /\ CommitFailure(e, "reporting")
      <3>1. e \in Workers => "short" \in WorkerOutcomes[s]
        BY <2>3, <1>1 DEF OutcomesOf
      <3> QED BY <1>7, <2>3, <3>1, <1>1, <1>b, <1>c, FailureCommitted DEF Analyse, StepsForward, At
    <2>4. CASE End(e, "failing") /\ speech' = speech
      <3>1. Moved(e) /\ run'[e].pc = IF e \in Speeches THEN "done" ELSE "failing"
        BY <2>4, <1>b, <1>c, ProcessEnded
      <3> QED BY <1>7, <1>1, <1>a, <2>4, <3>1 DEF Analyse, StepsForward, At
    <2> QED BY <1>7, <2>1, <2>2, <2>3, <2>4 DEF Analyse, Provided
  <1>8. CASE Store(e)
    <2>1. CASE /\ Present(s) /\ speech[s].analysis = "none"
               /\ speech' = [speech EXCEPT ![s].status = "completed", ![s].analysis = "stored"]
               /\ End(e, "reporting")
      <3>1. Moved(e) /\ run'[e].pc = IF e \in Speeches THEN "done" ELSE "reporting"
        BY <2>1, <1>b, <1>c, ProcessEnded
      <3>2. speech'[s] = [status |-> "completed", analysis |-> "stored"]
        BY <2>1, <1>0 DEF Speech
      <3>3. speech' \in [Speeches -> Speech] /\ WrittenForward(s)
        BY <2>1, <1>0, <1>b, <3>2 DEF WrittenForward, Speech
      <3> QED BY <1>8, <1>1, <3>1, <3>2, <3>3 DEF Store, StepsForward, At
    <2>2. CASE speech' = speech /\ End(e, "broken")
      <3>1. Moved(e) /\ run'[e].pc = IF e \in Speeches THEN "done" ELSE "broken"
        BY <2>2, <1>b, <1>c, ProcessEnded
      <3> QED BY <1>8, <1>1, <1>a, <2>2, <3>1 DEF Store, StepsForward, At
    <2> QED BY <1>8, <2>1, <2>2 DEF Store
  <1>9. CASE e \in Speeches /\ TextRefused(e)
    BY <1>9, <1>1, <1>b, <1>c, FailureCommitted DEF TextRefused, StepsForward, At
  <1> QED BY <1>5, <1>6, <1>7, <1>8, <1>9 DEF Working, Process

-----------------------------------------------------------------------------
(* The invariant *)

\* A worker between two jobs is a process like any other.
LEMMA RestingIsRun == /\ Resting \in Run
                      /\ \A s \in Speeches : [Resting EXCEPT !.speech = s] \in Run
  <1>1. (CHOOSE s \in Speeches : TRUE) \in Speeches
    BY SomeSpeech
  <1> QED BY <1>1 DEF Resting, Run, PCs, SpeechStatuses

\* It holds at the start: no request has begun.
LEMMA InitSpeechInv == Init => SpeechInv
  <1> SUFFICES ASSUME Init PROVE SpeechInv
    OBVIOUS
  <1>2. \A e \in Executors : run[e] = IF e \in Speeches THEN [Resting EXCEPT !.speech = e] ELSE Resting
    BY DEF Init
  <1>3. run \in [Executors -> Run]
    BY RestingIsRun DEF Init
  <1>4. TypeOK
    BY <1>3 DEF Init, TypeOK, NoSpeech, NoJob, Speech, SpeechStatuses, Job, JobStatuses
  <1>5. Speeches \subseteq Executors /\ Workers \subseteq Executors
    BY DEF Executors
  <1>6. /\ \A s \in Speeches : speech[s].status = "absent" /\ job[s].status = "none"
        /\ file = {} /\ deleting = {}
    BY DEF Init, NoSpeech, NoJob
  <1>a. /\ \A e \in Executors : run[e].pc = "idle"
        /\ \A s \in Speeches : run[s].speech = s
        /\ \A w \in Workers : run[w].speech \in Speeches
    BY <1>2, <1>3, <1>5 DEF Run, Resting
  <1>7. RequestsStayAtHome /\ RowsComeWithTheRequest /\ FilesComeFirst
    BY <1>5, <1>6, <1>a DEF RequestsStayAtHome, RowsComeWithTheRequest, FilesComeFirst, Current, At, JobExists
  <1>8. WorkersTakeJobs /\ OneWorkerPerJob /\ ReportsAreEarned /\ LoadedIsPast
    BY <1>5, <1>6, <1>a DEF WorkersTakeJobs, OneWorkerPerJob, ReportsAreEarned, LoadedIsPast, Busy, At, Queued
  <1>9. CompletedHasAnalysis /\ JobCompletedMeansAnalysed /\ PendingIsNotForgotten /\ FilesMatchRows
    BY <1>6 DEF CompletedHasAnalysis, JobCompletedMeansAnalysed, PendingIsNotForgotten, FilesMatchRows, Present
  <1> QED BY <1>4, <1>7, <1>8, <1>9 DEF SpeechInv

\* The steps of _process_audio_speech and of the error paths keep it.
LEMMA WorkingInv ==
  ASSUME SpeechInv, NEW e \in Executors, Working(e)
  PROVE  SpeechInv'
  <1> DEFINE s == Current(e)
  <1>1. /\ Moved(e) /\ speech' \in [Speeches -> Speech]
        /\ WrittenForward(s) /\ StepsForward(e)
        /\ UNCHANGED <<backend, job, file, deleting, uploads, crashes, erased>>
    BY WorkingEffect
  <1>2. /\ s \in Speeches /\ Speeches \subseteq Executors /\ Workers \subseteq Executors
        /\ e \in Speeches => e \notin Workers
        /\ e \notin Speeches => e \in Workers
    BY DisjointExecutors DEF SpeechInv, TypeOK, Run, Current, Executors
  <1>3. \A x \in Executors : Current(x)' = Current(x)
    BY <1>1 DEF Moved, Current
  <1>4. \A x \in Speeches : /\ Present(x)' <=> Present(x)
                            /\ (speech[x].status = "absent")' <=> speech[x].status = "absent"
                            /\ JobExists(x)' <=> JobExists(x)
                            /\ Queued(x)' <=> Queued(x)
    BY <1>1 DEF WrittenForward, Present, JobExists, Queued
  <1>5. \A x \in Speeches : /\ speech[x].analysis = "stored" => speech'[x].analysis = "stored"
                            /\ speech'[x].status = "pending" => speech[x].status = "pending"
    BY <1>1, <1>2 DEF WrittenForward
  <1>6. \A w \in Workers : Busy(w)' => Busy(w)
    BY <1>1, <1>2 DEF Busy, Moved, StepsForward
  <1>7. \A x \in Speeches : /\ (run[x].pc \in {"idle", "uploading"})'
                                 <=> run[x].pc \in {"idle", "uploading"}
                            /\ At(x, "idle")' <=> At(x, "idle")
                            /\ At(x, "uploading")' <=> At(x, "uploading")
    BY <1>1, <1>2 DEF At, Moved, StepsForward
  <1>8. TypeOK'
    BY <1>1 DEF SpeechInv, TypeOK, Moved
  <1>9. RequestsStayAtHome'
    BY <1>1, <1>2, <1>3 DEF SpeechInv, RequestsStayAtHome, Moved, StepsForward
  <1>10. RowsComeWithTheRequest'
    BY <1>1, <1>4, <1>7 DEF SpeechInv, RowsComeWithTheRequest
  <1>11. FilesComeFirst'
    BY <1>1, <1>7 DEF SpeechInv, FilesComeFirst
  <1>12. WorkersTakeJobs'
    <2> SUFFICES ASSUME NEW w \in Workers
                 PROVE  /\ run'[w].pc \notin {"uploading", "refused", "done"}
                        /\ Busy(w)' => speech'[Current(w)].status # "absent"
      BY <1>2, <1>3 DEF WorkersTakeJobs
    <2>1. Current(w) \in Speeches
      BY <1>2 DEF SpeechInv, TypeOK, Run, Current
    <2>2. run'[w].pc \notin {"uploading", "refused", "done"}
      BY <1>1, <1>2 DEF SpeechInv, WorkersTakeJobs, Moved, StepsForward
    <2> QED BY <1>4, <1>6, <2>1, <2>2 DEF SpeechInv, WorkersTakeJobs
  <1>13. OneWorkerPerJob'
    <2> SUFFICES ASSUME NEW w \in Workers, Busy(w)'
                 PROVE  /\ JobExists(Current(w))' => job[Current(w)].status = "processing"
                        /\ \A v \in Workers : Busy(v)' /\ Current(v) = Current(w) => v = w
      BY <1>1, <1>2, <1>3 DEF OneWorkerPerJob
    <2>1. Busy(w) /\ JobExists(Current(w))' = JobExists(Current(w))
      BY <1>1, <1>2, <1>3, <1>6 DEF JobExists
    <2> QED BY <1>6, <2>1 DEF SpeechInv, OneWorkerPerJob
  <1>14. CompletedHasAnalysis'
    BY <1>1, <1>2 DEF SpeechInv, CompletedHasAnalysis, WrittenForward
  <1>15. ReportsAreEarned'
    <2> SUFFICES ASSUME NEW w \in Workers, run'[w].pc = "reporting",
                        JobExists(Current(w))
                 PROVE  speech'[Current(w)].analysis = "stored" \/ "short" \in WorkerOutcomes[Current(w)]
      BY <1>1, <1>2, <1>3 DEF ReportsAreEarned, At, JobExists
    <2>1. CASE w = e
      BY <1>1, <2>1 DEF StepsForward
    <2>2. CASE w # e
      <3>1. run'[w] = run[w] /\ Current(w) \in Speeches
        BY <1>1, <1>2, <2>2 DEF Moved, SpeechInv, TypeOK, Run, Current
      <3> QED BY <1>5, <3>1 DEF SpeechInv, ReportsAreEarned, At
    <2> QED BY <2>1, <2>2
  <1>16. JobCompletedMeansAnalysed'
    BY <1>1, <1>5 DEF SpeechInv, JobCompletedMeansAnalysed
  <1>17. LoadedIsPast'
    <2> SUFFICES ASSUME NEW x \in Executors, run'[x].pc = "loaded", run'[x].seen = "processing"
                 PROVE  speech'[Current(x)].status # "pending"
      BY <1>3 DEF LoadedIsPast, At
    <2>1. CASE x = e
      BY <1>1, <2>1 DEF StepsForward
    <2>2. CASE x # e
      <3>1. run'[x] = run[x] /\ Current(x) \in Speeches
        BY <1>1, <2>2 DEF Moved, SpeechInv, TypeOK, Run, Current
      <3> QED BY <1>5, <3>1 DEF SpeechInv, LoadedIsPast, At
    <2> QED BY <2>1, <2>2
  <1>18. PendingIsNotForgotten'
    BY <1>1, <1>2, <1>3, <1>4, <1>5 DEF SpeechInv, PendingIsNotForgotten, Moved, StepsForward, Present
  <1>19. FilesMatchRows'
    BY <1>1, <1>4, <1>7 DEF SpeechInv, FilesMatchRows
  <1> QED BY <1>8, <1>9, <1>10, <1>11, <1>12, <1>13, <1>14, <1>15, <1>16, <1>17, <1>18, <1>19 DEF SpeechInv

\* A request that has not committed yet: its speech has no row, no job, no worker
\* and no deletion, and nobody else is at work on it.
LEMMA NothingBeforeTheCommit ==
  ASSUME SpeechInv, NEW s \in Speeches, run[s].pc \in {"idle", "uploading"}
  PROVE  /\ s \in Executors /\ s \notin Workers /\ run[s] \in Run
         /\ speech[s].status = "absent" /\ speech[s].analysis \in {"none", "stored"}
         /\ ~Present(s) /\ ~JobExists(s) /\ ~Queued(s) /\ s \notin deleting
         /\ \A w \in Workers : Busy(w) => Current(w) # s
         /\ \A x \in Executors : Current(x) \in Speeches
         /\ \A x \in Speeches : Current(x) = x
  <1>1. s \in Executors /\ s \notin Workers /\ run \in [Executors -> Run] /\ speech[s] \in Speech
    BY DisjointExecutors DEF SpeechInv, TypeOK, Executors
  <1>2. speech[s].status = "absent" /\ ~JobExists(s) /\ s \notin deleting
    BY DEF SpeechInv, RowsComeWithTheRequest
  <1>3. \A w \in Workers : Busy(w) => Current(w) # s
    BY <1>2 DEF SpeechInv, WorkersTakeJobs
  <1> QED BY <1>1, <1>2, <1>3 DEF Present, JobExists, Queued, Run, Current, Speech, SpeechInv, RequestsStayAtHome

\* The first step of an upload writes its file.
LEMMA UploadFileInv ==
  ASSUME SpeechInv, NEW s \in Speeches, UploadFile(s)
  PROVE  SpeechInv'
  <1>1. /\ At(s, "idle") /\ s \notin file /\ file' = file \cup {s} /\ Go(s, "uploading")
        /\ UNCHANGED <<backend, speech, job, deleting, uploads, crashes, erased>>
    BY DEF UploadFile, SpeechInv, FilesComeFirst
  <1>3. /\ s \in Executors /\ s \notin Workers
        /\ ~Present(s) /\ ~JobExists(s) /\ ~Queued(s) /\ s \notin deleting
        /\ speech[s].status = "absent"
        /\ \A x \in Executors : Current(x) \in Speeches
        /\ \A x \in Speeches : Current(x) = x
        /\ Speeches \subseteq Executors /\ Workers \subseteq Executors
    BY <1>1, NothingBeforeTheCommit DEF At, Executors
  <1>4. /\ run' \in [Executors -> Run]
        /\ \A x \in Executors \ {s} : run'[x] = run[x]
        /\ run'[s].pc = "uploading" /\ run'[s].speech = run[s].speech
    <2>1. "uploading" \in PCs /\ "absent" \in SpeechStatuses
      BY DEF PCs, SpeechStatuses
    <2> QED BY <1>1, <1>3, <2>1, ProcessMoved DEF SpeechInv, Moved
  <1>5. \A x \in Executors : Current(x)' = Current(x)
    BY <1>4 DEF Current
  <1>7. TypeOK'
    BY <1>1, <1>4 DEF SpeechInv, TypeOK
  <1>8. RequestsStayAtHome' /\ RowsComeWithTheRequest'
    BY <1>1, <1>3, <1>4, <1>5
    DEF SpeechInv, RequestsStayAtHome, RowsComeWithTheRequest, JobExists, Present
  <1>9. FilesComeFirst'
    BY <1>1, <1>3, <1>4 DEF SpeechInv, FilesComeFirst, At
  <1>10. WorkersTakeJobs' /\ OneWorkerPerJob' /\ ReportsAreEarned'
    BY <1>1, <1>3, <1>4, <1>5
    DEF SpeechInv, WorkersTakeJobs, OneWorkerPerJob, ReportsAreEarned, Busy, At, JobExists, Queued, Current
  <1>11. CompletedHasAnalysis' /\ JobCompletedMeansAnalysed'
    BY <1>1 DEF SpeechInv, CompletedHasAnalysis, JobCompletedMeansAnalysed
  <1>12. LoadedIsPast' /\ PendingIsNotForgotten'
    <2>1. LoadedIsPast'
      BY <1>1, <1>4 DEF SpeechInv, LoadedIsPast, At, Current
    <2>2. PendingIsNotForgotten'
      BY <1>1, <1>3, <1>4 DEF SpeechInv, PendingIsNotForgotten, At, Queued, Current
    <2> QED BY <2>1, <2>2
  <1>13. FilesMatchRows'
    BY <1>1, <1>3, <1>4 DEF SpeechInv, FilesMatchRows, At, Present, JobExists
  <1> QED BY <1>7, <1>8, <1>9, <1>10, <1>11, <1>12, <1>13 DEF SpeechInv

\* The first commit of a request: the rows of an upload appear together, with its
\* job in the queue; a text appears with the log of its analysis.
LEMMA SubmittedInv ==
  ASSUME SpeechInv, NEW s \in Speeches, UploadCommit(s) \/ TextSubmit(s)
  PROVE  SpeechInv'
  <1>1. /\ run[s].pc \in {"idle", "uploading"}
        /\ UNCHANGED <<backend, file, deleting, crashes, erased>>
    BY DEF UploadCommit, TextSubmit, At
  <1>2. /\ s \in Executors /\ s \notin Workers
        /\ speech[s].status = "absent"
        /\ ~Present(s) /\ ~JobExists(s) /\ ~Queued(s) /\ s \notin deleting
        /\ \A w \in Workers : Busy(w) => Current(w) # s
        /\ \A x \in Executors : Current(x) \in Speeches
        /\ \A x \in Speeches : Current(x) = x
        /\ Speeches \subseteq Executors /\ Workers \subseteq Executors
    BY <1>1, NothingBeforeTheCommit DEF Executors
  <1>3. PICK pc \in {"starting", "analysed", "refused"}, seen \in SpeechStatuses :
          \/ pc = "starting" /\ UploadCommit(s) /\ Go(s, pc)
          \/ /\ pc # "starting" /\ TextSubmit(s)
             /\ run' = [run EXCEPT ![s].pc = pc, ![s].seen = seen]
    BY DEF UploadCommit, TextSubmit, SpeechStatuses
  <1>4. /\ run' \in [Executors -> Run]
        /\ \A x \in Executors \ {s} : run'[x] = run[x]
        /\ run'[s].pc = pc /\ run'[s].speech = run[s].speech
    <2>1. pc \in PCs
      BY DEF PCs
    <2> QED BY <1>2, <1>3, <2>1, ProcessMoved DEF SpeechInv, Moved
  <1>5. \A x \in Executors : Current(x)' = Current(x)
    BY <1>4 DEF Current
  <1>6. /\ speech' \in [Speeches -> Speech]
        /\ \A x \in Speeches \ {s} : speech'[x] = speech[x]
        /\ speech'[s].status \in {"pending", "processing"}
        /\ speech'[s].status = "pending" <=> pc = "starting"
        /\ speech'[s].analysis = speech[s].analysis
    <2>1. PICK status \in {"pending", "processing"} :
            speech' = [speech EXCEPT ![s].status = status] /\ (status = "pending" <=> pc = "starting")
      BY <1>3 DEF UploadCommit, TextSubmit, SetStatus
    <2>2. speech[s] \in Speech /\ speech \in [Speeches -> Speech]
      BY DEF SpeechInv, TypeOK
    <2>3. speech'[s] = [status |-> status, analysis |-> speech[s].analysis]
      BY <2>1, <2>2 DEF Speech
    <2>4. speech'[s] \in Speech
      BY <2>1, <2>2, <2>3 DEF Speech, SpeechStatuses
    <2> QED BY <2>1, <2>2, <2>3, <2>4
  <1>7. /\ job' \in [Speeches -> Job] /\ uploads' \in Nat
        /\ \A x \in Speeches \ {s} : job'[x] = job[x]
        /\ job'[s].status \in {"none", "queued"}
        /\ job'[s].status = "queued" <=> pc = "starting"
    <2>1. CASE pc = "starting"
      BY <1>2, <1>3, <2>1 DEF UploadCommit, SpeechInv, TypeOK, Job, JobStatuses
    <2>2. CASE pc # "starting"
      BY <1>2, <1>3, <2>2 DEF TextSubmit, SpeechInv, TypeOK, JobExists
    <2> QED BY <2>1, <2>2
  <1>8. pc = "starting" => s \in file
    BY <1>3 DEF UploadCommit, SpeechInv, FilesComeFirst
  <1>9. TypeOK'
    BY <1>1, <1>4, <1>6, <1>7 DEF SpeechInv, TypeOK
  <1>10. RequestsStayAtHome' /\ FilesComeFirst'
    BY <1>1, <1>2, <1>4, <1>5 DEF SpeechInv, RequestsStayAtHome, FilesComeFirst, At
  <1>11. RowsComeWithTheRequest'
    BY <1>1, <1>2, <1>4, <1>6, <1>7 DEF SpeechInv, RowsComeWithTheRequest, JobExists, Present
  <1>12. WorkersTakeJobs'
    BY <1>2, <1>4, <1>6 DEF SpeechInv, WorkersTakeJobs, Busy, Current
  <1>13. OneWorkerPerJob'
    BY <1>2, <1>4, <1>7 DEF SpeechInv, OneWorkerPerJob, Busy, JobExists, Current
  <1>14. CompletedHasAnalysis' /\ JobCompletedMeansAnalysed'
    BY <1>6, <1>7 DEF SpeechInv, CompletedHasAnalysis, JobCompletedMeansAnalysed
  <1>15. ReportsAreEarned'
    BY <1>2, <1>4, <1>6, <1>7 DEF SpeechInv, ReportsAreEarned, At, Busy, JobExists, Current
  <1>16. LoadedIsPast'
    <2> SUFFICES ASSUME NEW x \in Executors, run'[x].pc = "loaded", run'[x].seen = "processing"
                 PROVE  speech'[Current(x)].status # "pending"
      BY <1>5 DEF LoadedIsPast, At
    <2>1. x # s /\ run'[x] = run[x]
      BY <1>4
    <2>2. Current(x) # s
      BY <1>2, <2>1 DEF Busy, Executors
    <2> QED BY <1>2, <1>6, <2>1, <2>2 DEF SpeechInv, LoadedIsPast, At
  <1>17. PendingIsNotForgotten'
    BY <1>1, <1>2, <1>4, <1>6, <1>7 DEF SpeechInv, PendingIsNotForgotten, Queued, Current
  <1>18. FilesMatchRows'
    BY <1>1, <1>2, <1>4, <1>6, <1>7, <1>8 DEF SpeechInv, FilesMatchRows, At, Present, JobExists
  <1> QED BY <1>9, <1>10, <1>11, <1>12, <1>13, <1>14, <1>15, <1>16, <1>17, <1>18 DEF SpeechInv

\* A worker claims a queued job: nobody else is at it.
LEMMA ClaimInv ==
  ASSUME SpeechInv, NEW w \in Workers, Claim(w)
  PROVE  SpeechInv'
  <1>1. /\ run[w].pc = "idle" /\ w \in Executors /\ w \notin Speeches
        /\ UNCHANGED <<backend, speech, file, deleting, uploads, crashes, erased>>
        /\ Speeches \subseteq Executors /\ Workers \subseteq Executors
        /\ \A x \in Executors : Current(x) \in Speeches
        /\ run \in [Executors -> Run] /\ job \in [Speeches -> Job]
    BY DisjointExecutors DEF Claim, At, Executors, SpeechInv, TypeOK, Run, Current
  <1>2. PICK s \in Speeches :
          /\ Queued(s)
          /\ job' = [job EXCEPT ![s].status = "processing", ![s].attempts = @ + 1]
          /\ run' = [run EXCEPT ![w].pc = "starting", ![w].speech = s]
    BY DEF Claim
  <1>3. /\ run' \in [Executors -> Run]
        /\ \A x \in Executors \ {w} : run'[x] = run[x]
        /\ run'[w].pc = "starting" /\ run'[w].speech = s
    <2>1. run'[w] = [run[w] EXCEPT !.pc = "starting", !.speech = s]
      BY <1>1, <1>2
    <2>2. run[w] \in Run /\ "starting" \in PCs
      BY <1>1 DEF PCs
    <2>3. /\ run'[w] = [pc |-> "starting", speech |-> s, seen |-> run[w].seen]
          /\ run'[w] \in Run
      BY <2>1, <2>2 DEF Run
    <2> QED BY <1>1, <1>2, <2>3
  <1>4. /\ job[s].status = "queued" /\ JobExists(s) /\ job[s] \in Job
        /\ speech[s].status # "absent"
    BY <1>1, <1>2 DEF SpeechInv, RowsComeWithTheRequest, Queued, JobExists
  <1>5. /\ job' \in [Speeches -> Job]
        /\ \A x \in Speeches \ {s} : job'[x] = job[x]
        /\ job'[s].status = "processing"
    BY <1>1, <1>2, <1>4 DEF Job, JobStatuses
  <1>6. \A v \in Workers : Busy(v) => Current(v) # s
    BY <1>4 DEF SpeechInv, OneWorkerPerJob
  <1>7. \A v \in Workers : Busy(v)' => v = w \/ (v # w /\ Busy(v) /\ run'[v] = run[v])
    BY <1>1, <1>3 DEF Busy
  <1>8. TypeOK' /\ RequestsStayAtHome' /\ FilesComeFirst'
    BY <1>1, <1>3, <1>5 DEF SpeechInv, TypeOK, RequestsStayAtHome, FilesComeFirst, At, Current
  <1>9. RowsComeWithTheRequest'
    BY <1>1, <1>3, <1>4, <1>5 DEF SpeechInv, RowsComeWithTheRequest, JobExists, Present
  <1>10. WorkersTakeJobs'
    BY <1>1, <1>3, <1>4, <1>7 DEF SpeechInv, WorkersTakeJobs, Current
  <1>11. OneWorkerPerJob'
    BY <1>1, <1>3, <1>5, <1>6, <1>7 DEF SpeechInv, OneWorkerPerJob, JobExists, Current
  <1>12. CompletedHasAnalysis' /\ JobCompletedMeansAnalysed'
    BY <1>1, <1>5 DEF SpeechInv, CompletedHasAnalysis, JobCompletedMeansAnalysed
  <1>13. ReportsAreEarned' /\ LoadedIsPast'
    BY <1>1, <1>3, <1>4, <1>5 DEF SpeechInv, ReportsAreEarned, LoadedIsPast, At, JobExists, Current
  <1>14. PendingIsNotForgotten'
    BY <1>1, <1>3, <1>5 DEF SpeechInv, PendingIsNotForgotten, Queued, Current
  <1>15. FilesMatchRows'
    BY <1>1, <1>3, <1>4, <1>5 DEF SpeechInv, FilesMatchRows, At, Present, JobExists
  <1> QED BY <1>8, <1>9, <1>10, <1>11, <1>12, <1>13, <1>14, <1>15 DEF SpeechInv

\* A worker that goes back to its poll.
LEMMA RestedWorker ==
  ASSUME SpeechInv, NEW w \in Executors, Rest(w)
  PROVE  /\ run' \in [Executors -> Run]
         /\ \A x \in Executors \ {w} : run'[x] = run[x]
         /\ run'[w].pc = "idle" /\ run'[w].speech \in Speeches
  <1>1. run'[w] = Resting /\ Resting \in Run /\ Resting.pc = "idle"
    BY RestingIsRun DEF Rest, SpeechInv, TypeOK, Resting
  <1> QED BY <1>1 DEF Rest, SpeechInv, TypeOK, Run

\* A worker settles its job: completed over an analysis, failed_retryable or
\* dead_letter otherwise.  No other worker holds the job, and it is not queued again.
LEMMA SettleInv ==
  ASSUME SpeechInv, NEW w \in Workers, Report(w) \/ Fail(w)
  PROVE  SpeechInv'
  <1> DEFINE s == Current(w)
  <1>1. /\ run[w].pc \in {"reporting", "failing"} /\ w \in Executors /\ w \notin Speeches
        /\ UNCHANGED <<backend, file, deleting, uploads, crashes, erased>>
        /\ Speeches \subseteq Executors /\ Workers \subseteq Executors
        /\ \A x \in Executors : Current(x) \in Speeches
        /\ run \in [Executors -> Run] /\ job \in [Speeches -> Job] /\ speech \in [Speeches -> Speech]
    BY DisjointExecutors DEF Report, Fail, At, Executors, SpeechInv, TypeOK, Run, Current
  <1>2. /\ run' \in [Executors -> Run]
        /\ \A x \in Executors \ {w} : run'[x] = run[x]
        /\ run'[w].pc = "idle" /\ run'[w].speech \in Speeches
    BY <1>1, RestedWorker DEF Report, Fail
  <1>3. /\ Busy(w)
        /\ JobExists(s) => job[s].status = "processing" /\ Present(s)
    BY <1>1 DEF Busy, SpeechInv, WorkersTakeJobs, OneWorkerPerJob, RowsComeWithTheRequest
  <1>4. /\ job' \in [Speeches -> Job]
        /\ \A x \in Speeches \ {s} : job'[x] = job[x]
        /\ JobExists(s) => job'[s].status \in {"completed", "dead_letter", "failed_retryable"}
        /\ ~JobExists(s) => job'[s] = job[s]
        /\ job'[s].status = "completed" => speech[s].analysis = "stored" \/ "short" \in WorkerOutcomes[s]
    <2>1. CASE Report(w)
      <3>1. JobExists(s) => speech[s].analysis = "stored" \/ "short" \in WorkerOutcomes[s]
        BY <2>1 DEF Report, SpeechInv, ReportsAreEarned
      <3> QED BY <1>1, <2>1, <3>1 DEF Report, Job, JobStatuses, JobExists
    <2>2. CASE Fail(w)
      BY <1>1, <1>3, <2>2 DEF Fail, Job, JobStatuses, JobExists
    <2> QED BY <2>1, <2>2
  <1>5. /\ speech' \in [Speeches -> Speech] /\ WrittenForward(s)
    <2>1. CASE speech' = speech
      BY <1>1, <2>1 DEF WrittenForward
    <2>2. CASE JobExists(s) /\ SetStatus(s, "failed")
      BY <1>1, <1>3, <2>2, StatusWritten DEF SpeechInv
    <2> QED BY <2>1, <2>2 DEF Report, Fail
  <1>6. \A x \in Speeches : /\ Present(x)' <=> Present(x)
                            /\ (speech[x].status = "absent")' <=> speech[x].status = "absent"
                            /\ JobExists(x)' <=> JobExists(x)
                            /\ Queued(x)' <=> Queued(x)
                            /\ speech[x].analysis = "stored" => speech'[x].analysis = "stored"
                            /\ speech'[x].status = "pending" => speech[x].status = "pending"
    BY <1>1, <1>3, <1>4, <1>5 DEF WrittenForward, Present, JobExists, Queued
  <1>7. \A v \in Workers : Busy(v)' => v # w /\ Busy(v) /\ run'[v] = run[v] /\ Current(v) # s
    <2> SUFFICES ASSUME NEW v \in Workers, Busy(v)'
                 PROVE  v # w /\ Busy(v) /\ run'[v] = run[v] /\ Current(v) # s
      OBVIOUS
    <2>1. v # w /\ run'[v] = run[v] /\ Busy(v)
      BY <1>1, <1>2 DEF Busy
    <2> QED BY <1>3, <2>1 DEF SpeechInv, OneWorkerPerJob
  <1>8. TypeOK' /\ RequestsStayAtHome' /\ FilesComeFirst'
    BY <1>1, <1>2, <1>4, <1>5 DEF SpeechInv, TypeOK, RequestsStayAtHome, FilesComeFirst, At, Current
  <1>9. RowsComeWithTheRequest'
    BY <1>1, <1>2, <1>4, <1>6 DEF SpeechInv, RowsComeWithTheRequest
  <1>10. WorkersTakeJobs'
    BY <1>1, <1>2, <1>6, <1>7 DEF SpeechInv, WorkersTakeJobs, Current
  <1>11. OneWorkerPerJob'
    BY <1>1, <1>4, <1>7 DEF SpeechInv, OneWorkerPerJob, JobExists, Current
  <1>12. CompletedHasAnalysis' /\ JobCompletedMeansAnalysed'
    BY <1>1, <1>4, <1>5, <1>6
    DEF SpeechInv, CompletedHasAnalysis, JobCompletedMeansAnalysed, WrittenForward
  <1>13. ReportsAreEarned' /\ LoadedIsPast'
    BY <1>1, <1>2, <1>6 DEF SpeechInv, ReportsAreEarned, LoadedIsPast, At, Current
  <1>14. PendingIsNotForgotten'
    BY <1>1, <1>2, <1>6 DEF SpeechInv, PendingIsNotForgotten, Current
  <1>15. FilesMatchRows'
    BY <1>1, <1>2, <1>6 DEF SpeechInv, FilesMatchRows, At
  <1> QED BY <1>8, <1>9, <1>10, <1>11, <1>12, <1>13, <1>14, <1>15 DEF SpeechInv

\* Rows that go take their jobs with them and leave everything else as it is: the
\* files and rows are the one thing to be looked at case by case.
LEMMA RowsGoInv ==
  ASSUME SpeechInv, NEW gone \in SUBSET Speeches,
         \A s \in gone : speech[s].status # "absent",
         speech' = [s \in Speeches |-> IF s \in gone THEN DeletedSpeech ELSE speech[s]],
         job' = [s \in Speeches |-> IF s \in gone THEN NoJob ELSE job[s]],
         UNCHANGED <<backend, file, run, uploads, crashes>>,
         deleting' \subseteq deleting, erased' \in BOOLEAN,
         FilesMatchRows'
  PROVE  SpeechInv'
  <1>1. /\ speech \in [Speeches -> Speech] /\ job \in [Speeches -> Job]
        /\ \A e \in Executors : Current(e) \in Speeches
        /\ Speeches \subseteq Executors /\ Workers \subseteq Executors
    BY DEF SpeechInv, TypeOK, Run, Current, Executors
  <1>2. \A s \in gone : /\ speech'[s] = DeletedSpeech /\ job'[s] = NoJob
                        /\ speech'[s].status = "deleted" /\ job'[s].status = "none"
    BY DEF DeletedSpeech, NoJob
  <1>3. \A s \in Speeches \ gone : speech'[s] = speech[s] /\ job'[s] = job[s]
    OBVIOUS
  <1>4. speech' \in [Speeches -> Speech] /\ job' \in [Speeches -> Job]
    <2>1. DeletedSpeech \in Speech /\ NoJob \in Job
      BY DEF DeletedSpeech, NoJob, Speech, SpeechStatuses, Job, JobStatuses
    <2> QED BY <1>1, <2>1
  <1>5. \A s \in Speeches :
          /\ speech'[s].analysis = speech[s].analysis \/ speech'[s].status = "deleted"
          /\ speech'[s].status = "deleted" \/ speech'[s].status = speech[s].status
          /\ (speech'[s].status = "absent") <=> (speech[s].status = "absent")
          /\ job'[s].status \in {"none", job[s].status}
          /\ JobExists(s)' => s \notin gone /\ JobExists(s)
          /\ Queued(s)' => Queued(s)
          /\ speech'[s].status # "deleted" => s \notin gone
    BY <1>2, <1>3 DEF JobExists, Queued
  <1>6. TypeOK'
    BY <1>4 DEF SpeechInv, TypeOK
  <1>7. RequestsStayAtHome' /\ FilesComeFirst'
    BY DEF SpeechInv, RequestsStayAtHome, FilesComeFirst, At, Current
  <1>8. RowsComeWithTheRequest'
    <2> SUFFICES ASSUME NEW s \in Speeches
                 PROVE  /\ run[s].pc \in {"idle", "uploading"} => speech'[s].status = "absent"
                        /\ speech'[s].status = "absent" =>
                             ~JobExists(s)' /\ s \notin deleting'
                        /\ JobExists(s)' => Present(s)'
      BY DEF RowsComeWithTheRequest
    <2> QED BY <1>3, <1>5 DEF SpeechInv, RowsComeWithTheRequest, Present
  <1>9. WorkersTakeJobs' /\ OneWorkerPerJob'
    BY <1>1, <1>5 DEF SpeechInv, WorkersTakeJobs, OneWorkerPerJob, Busy, Current, JobExists
  <1>10. CompletedHasAnalysis' /\ JobCompletedMeansAnalysed' /\ ReportsAreEarned' /\ LoadedIsPast'
    BY <1>1, <1>2, <1>3, <1>5
    DEF SpeechInv, CompletedHasAnalysis, JobCompletedMeansAnalysed, ReportsAreEarned, LoadedIsPast, At, Current,
        JobExists
  <1>11. PendingIsNotForgotten'
    BY <1>3, <1>5 DEF SpeechInv, PendingIsNotForgotten, Current, Queued
  <1> QED BY <1>6, <1>7, <1>8, <1>9, <1>10, <1>11 DEF SpeechInv

\* Deletion, by speech or by account, keeps it.
LEMMA DeletionInv ==
  ASSUME SpeechInv,
         \/ \E s \in Speeches : DeleteFile(s) \/ DeleteRow(s) \/ CrashDelete(s)
         \/ EraseAccount
  PROVE  SpeechInv'
  <1>0. /\ speech \in [Speeches -> Speech] /\ job \in [Speeches -> Job] /\ crashes \in Nat
        /\ deleting \subseteq Speeches /\ backend \in Backends
    BY DEF SpeechInv, TypeOK
  <1>1. ASSUME NEW s \in Speeches, DeleteFile(s)
        PROVE  SpeechInv'
    <2>1. /\ Present(s) /\ deleting' = deleting \cup {s}
          /\ file' = file \/ file' = file \ {s}
          /\ file' = file \ {s} \/ backend = "s3"
          /\ UNCHANGED <<backend, speech, job, run, uploads, crashes, erased>>
      BY <1>1 DEF DeleteFile
    <2>2. ~At(s, "uploading") /\ speech[s].status # "absent"
      BY <2>1 DEF SpeechInv, RowsComeWithTheRequest, At, Present
    <2>3. TypeOK'
      BY <2>1 DEF SpeechInv, TypeOK
    <2>4. FilesComeFirst'
      BY <2>1, <2>2 DEF SpeechInv, FilesComeFirst, At
    <2>5. RowsComeWithTheRequest'
      BY <2>1, <2>2 DEF SpeechInv, RowsComeWithTheRequest, JobExists, Present
    <2>6. FilesMatchRows'
      BY <2>1, <2>2 DEF SpeechInv, FilesMatchRows, At, Present, JobExists
    <2>7. /\ RequestsStayAtHome' /\ WorkersTakeJobs' /\ OneWorkerPerJob' /\ CompletedHasAnalysis'
          /\ ReportsAreEarned' /\ JobCompletedMeansAnalysed' /\ LoadedIsPast' /\ PendingIsNotForgotten'
      BY <2>1 DEF SpeechInv, RequestsStayAtHome, WorkersTakeJobs, OneWorkerPerJob, CompletedHasAnalysis,
                  ReportsAreEarned, JobCompletedMeansAnalysed, LoadedIsPast, PendingIsNotForgotten,
                  Busy, At, Current, JobExists, Queued
    <2> QED BY <2>3, <2>4, <2>5, <2>6, <2>7 DEF SpeechInv
  <1>2. ASSUME NEW s \in Speeches, DeleteRow(s)
        PROVE  SpeechInv'
    <2> DEFINE gone == {s}
    <2>1. s \in deleting /\ speech[s].status # "absent"
      BY <1>2 DEF DeleteRow, SpeechInv, RowsComeWithTheRequest
    <2>2. /\ speech' = [x \in Speeches |-> IF x \in gone THEN DeletedSpeech ELSE speech[x]]
          /\ job' = [x \in Speeches |-> IF x \in gone THEN NoJob ELSE job[x]]
      BY <1>0, <1>2 DEF DeleteRow
    <2>3. UNCHANGED <<backend, file, run, uploads, crashes, erased>> /\ deleting' = deleting \ {s}
      BY <1>2 DEF DeleteRow
    <2>4. FilesMatchRows'
      <3> SUFFICES ASSUME NEW x \in Speeches
                   PROVE  /\ x \in file /\ ~Present(x)' =>
                               \/ At(x, "uploading") \/ crashes > 0 \/ backend = "s3"
                               \/ (erased /\ x \in Deletable)
                          /\ Present(x)' /\ JobExists(x)' /\ x \notin file => x \in deleting' \/ crashes > 0
        BY <2>3 DEF FilesMatchRows, At
      <3>1. CASE x = s
        <4>1. job'[s].status = "none"
          BY <2>2, <3>1 DEF NoJob
        <4>2. s \in file => backend = "s3"
          BY <2>1 DEF SpeechInv, FilesComeFirst
        <4> QED BY <2>3, <3>1, <4>1, <4>2 DEF JobExists
      <3>2. CASE x # s
        <4>1. speech'[x] = speech[x] /\ job'[x] = job[x]
          BY <2>2, <3>2
        <4> QED BY <2>3, <3>2, <4>1 DEF SpeechInv, FilesMatchRows, Present, JobExists
      <3> QED BY <3>1, <3>2
    <2>5. erased' \in BOOLEAN /\ deleting' \subseteq deleting
      BY <2>3 DEF SpeechInv, TypeOK
    <2>6. gone \in SUBSET Speeches /\ \A x \in gone : speech[x].status # "absent"
      BY <2>1
    <2> HIDE DEF gone
    <2> QED BY <2>2, <2>3, <2>4, <2>5, <2>6, RowsGoInv
  <1>3. ASSUME NEW s \in Speeches, CrashDelete(s)
        PROVE  SpeechInv'
    <2>1. /\ crashes' = crashes + 1 /\ crashes' \in Nat /\ crashes' > 0
          /\ deleting' = deleting \ {s}
          /\ UNCHANGED <<backend, speech, job, file, run, uploads, erased>>
      BY <1>0, <1>3 DEF CrashDelete
    <2>2. TypeOK' /\ RowsComeWithTheRequest' /\ FilesComeFirst' /\ FilesMatchRows'
      BY <2>1 DEF SpeechInv, TypeOK, RowsComeWithTheRequest, FilesComeFirst, FilesMatchRows, At, JobExists, Present
    <2>3. PendingIsNotForgotten'
      BY <2>1 DEF PendingIsNotForgotten
    <2>4. /\ RequestsStayAtHome' /\ WorkersTakeJobs' /\ OneWorkerPerJob' /\ CompletedHasAnalysis'
          /\ ReportsAreEarned' /\ JobCompletedMeansAnalysed' /\ LoadedIsPast'
      BY <2>1 DEF SpeechInv, RequestsStayAtHome, WorkersTakeJobs, OneWorkerPerJob, CompletedHasAnalysis,
                  ReportsAreEarned, JobCompletedMeansAnalysed, LoadedIsPast,
                  Busy, At, Current, JobExists, Queued
    <2> QED BY <2>2, <2>3, <2>4 DEF SpeechInv
  <1>4. CASE EraseAccount
    <2> DEFINE gone == {s \in Deletable : s \in Speeches /\ Present(s)}
    <2>1. /\ speech' = [x \in Speeches |-> IF x \in gone THEN DeletedSpeech ELSE speech[x]]
          /\ job' = [x \in Speeches |-> IF x \in gone THEN NoJob ELSE job[x]]
          /\ erased' = TRUE
          /\ UNCHANGED <<backend, file, run, deleting, uploads, crashes>>
      BY <1>4 DEF EraseAccount
    <2>2. \A s \in gone : speech[s].status # "absent"
      BY DEF Present
    <2>3. FilesMatchRows'
      <3> SUFFICES ASSUME NEW x \in Speeches
                   PROVE  /\ x \in file /\ ~Present(x)' =>
                               At(x, "uploading") \/ crashes > 0 \/ backend = "s3" \/ x \in Deletable
                          /\ Present(x)' /\ JobExists(x)' /\ x \notin file => x \in deleting \/ crashes > 0
        BY <2>1 DEF FilesMatchRows, At
      <3>1. CASE x \in gone
        <4>1. job'[x].status = "none"
          BY <2>1, <3>1 DEF NoJob
        <4> QED BY <3>1, <4>1 DEF JobExists
      <3>2. CASE x \notin gone
        <4>1. speech'[x] = speech[x] /\ job'[x] = job[x]
          BY <2>1, <3>2
        <4> QED BY <4>1 DEF SpeechInv, FilesMatchRows, Present, JobExists
      <3> QED BY <3>1, <3>2
    <2> HIDE DEF gone
    <2>4. gone \in SUBSET Speeches
      BY DEF gone
    <2> QED BY <2>1, <2>2, <2>3, <2>4, RowsGoInv
  <1> QED BY <1>1, <1>2, <1>3, <1>4

\* A process that dies or gives up forgets what it had loaded; the rows keep what
\* is committed.
LEMMA LeaveInv ==
  ASSUME SpeechInv, NEW e \in Executors, Crash(e) \/ (e \in Workers /\ GiveUp(e))
  PROVE  SpeechInv'
  <1>1. /\ UNCHANGED <<backend, speech, job, file, deleting, uploads, erased>>
        /\ crashes' \in Nat /\ (crashes' > 0 \/ (crashes' = crashes /\ At(e, "broken")))
        /\ crashes > 0 => crashes' > 0
        /\ run[e].pc \notin {"idle", "done"}
        /\ Speeches \subseteq Executors /\ Workers \subseteq Executors
        /\ e \in Speeches => e \notin Workers
        /\ e \notin Speeches => e \in Workers
    BY DisjointExecutors DEF Crash, GiveUp, At, SpeechInv, TypeOK, Executors
  <1>2. /\ run' \in [Executors -> Run]
        /\ \A x \in Executors \ {e} : run'[x] = run[x]
        /\ run'[e].pc = (IF e \in Speeches THEN "done" ELSE "idle")
        /\ e \in Speeches => run'[e].speech = run[e].speech
    <2>1. "done" \in PCs /\ "absent" \in SpeechStatuses
      BY DEF PCs, SpeechStatuses
    <2>2. CASE e \in Speeches
      BY <1>1, <2>1, <2>2, ProcessMoved DEF Crash, SpeechInv, Moved
    <2>3. CASE e \notin Speeches
      BY <2>3, RestedWorker DEF Crash, GiveUp
    <2> QED BY <2>2, <2>3
  <1>3. \A w \in Workers : Busy(w)' => Busy(w) /\ w # e
    BY <1>1, <1>2 DEF Busy
  <1>4. TypeOK'
    BY <1>1, <1>2 DEF SpeechInv, TypeOK
  <1>5. RequestsStayAtHome' /\ RowsComeWithTheRequest' /\ FilesComeFirst'
    BY <1>1, <1>2
    DEF SpeechInv, RequestsStayAtHome, RowsComeWithTheRequest, FilesComeFirst, At, Current, JobExists, Present
  <1>6. WorkersTakeJobs' /\ OneWorkerPerJob'
    BY <1>1, <1>2, <1>3 DEF SpeechInv, WorkersTakeJobs, OneWorkerPerJob, Current, JobExists
  <1>7. CompletedHasAnalysis' /\ JobCompletedMeansAnalysed' /\ ReportsAreEarned' /\ LoadedIsPast'
    BY <1>1, <1>2
    DEF SpeechInv, CompletedHasAnalysis, JobCompletedMeansAnalysed, ReportsAreEarned, LoadedIsPast, At, Current,
        JobExists
  <1>8. PendingIsNotForgotten'
    <2> SUFFICES ASSUME crashes' = 0, NEW s \in Speeches, speech[s].status = "pending"
                 PROVE  \/ Queued(s)
                        \/ \E x \in Executors : Current(x)' = s /\ run'[x].pc \in {"starting", "loaded"}
      BY <1>1 DEF PendingIsNotForgotten, Queued
    <2>1. crashes = 0 /\ At(e, "broken")
      BY <1>1
    <2>2. CASE ~Queued(s)
      <3>1. PICK x \in Executors : Current(x) = s /\ run[x].pc \in {"starting", "loaded"}
        BY <2>1, <2>2 DEF SpeechInv, PendingIsNotForgotten
      <3>2. run'[x] = run[x]
        BY <1>2, <2>1, <3>1 DEF At
      <3> QED BY <3>1, <3>2 DEF Current
    <2> QED BY <2>2
  <1>9. FilesMatchRows'
    BY <1>1, <1>2 DEF SpeechInv, FilesMatchRows, At, Present, JobExists
  <1> QED BY <1>4, <1>5, <1>6, <1>7, <1>8, <1>9 DEF SpeechInv

\* Every step keeps it.
LEMMA NextSpeechInv == SpeechInv /\ [Next]_vars => SpeechInv'
  <1> SUFFICES ASSUME SpeechInv, [Next]_vars PROVE SpeechInv'
    OBVIOUS
  <1>1. ASSUME NEW s \in Speeches, Submit(s) PROVE SpeechInv'
    BY <1>1, UploadFileInv, SubmittedInv DEF Submit
  <1>2. ASSUME NEW s \in Speeches, RequestStep(s) PROVE SpeechInv'
    <2>1. CASE UploadCommit(s)
      BY <2>1, SubmittedInv
    <2>2. CASE TextRefused(s) \/ Process(s)
      BY <2>2, WorkingInv DEF Working, Executors
    <2> QED BY <1>2, <2>1, <2>2 DEF RequestStep
  <1>3. ASSUME NEW w \in Workers, WorkerStep(w) PROVE SpeechInv'
    <2>1. CASE Claim(w)
      BY <2>1, ClaimInv
    <2>2. CASE Process(w) \/ GiveUp(w)
      BY <2>2, WorkingInv, LeaveInv DEF Working, Executors
    <2>3. CASE Report(w) \/ Fail(w)
      BY <2>3, SettleInv
    <2> QED BY <1>3, <2>1, <2>2, <2>3 DEF WorkerStep
  <1>4. CASE EraseAccount \/ \E s \in Speeches : DeleteFile(s) \/ DeleteRow(s) \/ CrashDelete(s)
    BY <1>4, DeletionInv
  <1>5. ASSUME NEW e \in Executors, Crash(e) PROVE SpeechInv'
    BY <1>5, LeaveInv
  <1>6. CASE UNCHANGED vars
    BY <1>6 DEF vars, SpeechInv, TypeOK, RequestsStayAtHome, RowsComeWithTheRequest, FilesComeFirst,
                WorkersTakeJobs, OneWorkerPerJob, CompletedHasAnalysis, ReportsAreEarned,
                JobCompletedMeansAnalysed, LoadedIsPast, PendingIsNotForgotten, FilesMatchRows,
                Busy, At, Current, JobExists, Queued, Present
  <1> QED BY <1>1, <1>2, <1>3, <1>4, <1>5, <1>6 DEF Next

\* Speech practice keeps its invariant, whatever the number of speeches, of
\* workers and of crashes, and whatever the provider answers.
THEOREM SpeechInvariant == Spec => []SpeechInv
  <1>1. Init => SpeechInv
    BY InitSpeechInv
  <1>2. SpeechInv /\ [Next]_vars => SpeechInv'
    BY NextSpeechInv
  <1> QED BY <1>1, <1>2, PTL DEF Spec

\* Type correctness.
THEOREM SpeechTypeCorrect == Spec => []TypeOK
  <1>1. SpeechInv => TypeOK
    BY DEF SpeechInv
  <1> QED BY <1>1, SpeechInvariant, PTL

\* FOR UPDATE SKIP LOCKED with the job's status keeps a job with one worker
\* (worker.py, process_one_job), for any number of workers.
THEOREM OneWorker == Spec => []OneWorkerPerJob
  <1>1. SpeechInv => OneWorkerPerJob
    BY DEF SpeechInv
  <1> QED BY <1>1, SpeechInvariant, PTL

\* A speech shown as completed has its analysis, whoever of the request and the
\* worker writes it (_process_audio_speech).
THEOREM CompletedIsAnalysed == Spec => []CompletedHasAnalysis
  <1>1. SpeechInv => CompletedHasAnalysis
    BY DEF SpeechInv
  <1> QED BY <1>1, SpeechInvariant, PTL

\* A job is marked completed only over an analysed speech, or over one that was
\* given up because next to nothing was transcribed (process_one_job).
THEOREM CompletedJobs == Spec => []JobCompletedMeansAnalysed
  <1>1. SpeechInv => JobCompletedMeansAnalysed
    BY DEF SpeechInv
  <1> QED BY <1>1, SpeechInvariant, PTL

\* Without a crash a pending upload is in somebody's hands or in the queue
\* (create_audio_speech commits the job with the speech).
THEOREM PendingIsHeld == Spec => []PendingIsNotForgotten
  <1>1. SpeechInv => PendingIsNotForgotten
    BY DEF SpeechInv
  <1> QED BY <1>1, SpeechInvariant, PTL

\* Files and rows go together but for the exits the code leaves open: a crash,
\* S3's swallowed errors, the deletion of the account (delete_speech, storage.py).
THEOREM FilesAndRows == Spec => []FilesMatchRows
  <1>1. SpeechInv => FilesMatchRows
    BY DEF SpeechInv
  <1> QED BY <1>1, SpeechInvariant, PTL
=============================================================================
