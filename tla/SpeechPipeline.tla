--------------------------- MODULE SpeechPipeline ---------------------------
(***************************************************************************)
(* Speech practice: app/services/speech_service.py run by the upload       *)
(* requests, worker.py run by the worker processes, and the file storage   *)
(* of app/services/storage.py.                                             *)
(*                                                                         *)
(* An upload commits three rows (asset, speech, job) and then processes    *)
(* the speech inside the request; a worker claims the same job from the    *)
(* table and runs the same _process_audio_speech.  Both executors are      *)
(* processes here, split at every commit; what a process does between two  *)
(* commits without the tables (finding the file, waiting for the provider) *)
(* goes with the commit that shows its outcome.  A speech, its job, its    *)
(* file and the request that creates them share one name.                  *)
(*                                                                         *)
(* A session keeps the status it has loaded or written itself (commits do  *)
(* not expire it) and sends an UPDATE only for a status that differs.      *)
(* After a failed flush (a unique or foreign key violation, an UPDATE that *)
(* matches no row) the database session refuses every further statement,   *)
(* the commits of the exception handlers included: pc "broken".            *)
(***************************************************************************)
EXTENDS Integers

CONSTANTS
  Speeches,        \* speeches, each with the request that submits it
  Workers,         \* worker processes
  Deletable,       \* the speeches whose owner may delete them, or the account
  Backends,        \* the values settings.storage_backend may have
  InlineOutcomes,  \* what the AI provider may do to a speech's own request
  WorkerOutcomes,  \* ... and to a worker that has taken the speech's job
  MaxAttempts,     \* ProcessingJob.max_attempts of each speech's job
  MaxCrashes       \* bound: processes that die

Executors == Speeches \cup Workers
Outcomes == {"ok", "error", "short", "unexpected"}

ASSUME SomeSpeech == Speeches # {}
ASSUME DisjointExecutors == Speeches \cap Workers = {}
ASSUME BackendsAssumption == Backends \subseteq {"local", "s3"}
ASSUME OutcomesAssumption == {InlineOutcomes, WorkerOutcomes} \subseteq [Speeches -> SUBSET Outcomes]
ASSUME LimitsAreNatural == MaxAttempts \in [Speeches -> Nat] /\ MaxCrashes \in Nat

VARIABLES
  backend,   \* settings.storage_backend, read at start
  speech,    \* the speeches table, with the row of speech_analyses
  job,       \* the processing_jobs table
  file,      \* the audio files the storage backend keeps
  run,       \* where each request and each worker stands
  deleting,  \* the delete requests between the file and the row
  uploads,   \* jobs inserted so far: created_at, the order of the queue
  crashes,   \* processes that have died
  erased     \* delete_my_account has been committed for the owner of Deletable

vars == <<backend, speech, job, file, run, deleting, uploads, crashes, erased>>

SpeechStatuses == {"absent", "pending", "processing", "completed", "failed", "deleted"}
JobStatuses == {"none", "queued", "processing", "completed", "failed_retryable", "dead_letter"}
PCs == {"idle", "uploading", "refused", "starting", "loaded", "begun", "analysed",
        "reporting", "failing", "broken", "done"}

Speech == [status : SpeechStatuses, analysis : {"none", "stored"}]
Job == [status : JobStatuses, attempts : Nat, seq : Nat]
Run == [pc : PCs, speech : Speeches, seen : SpeechStatuses]

TypeOK == /\ backend \in Backends
          /\ speech \in [Speeches -> Speech]
          /\ job \in [Speeches -> Job]
          /\ file \in SUBSET Speeches
          /\ run \in [Executors -> Run]
          /\ deleting \in SUBSET Speeches
          /\ uploads \in Nat
          /\ crashes \in Nat
          /\ erased \in BOOLEAN

NoSpeech == [status |-> "absent", analysis |-> "none"]
NoJob == [status |-> "none", attempts |-> 0, seq |-> 0]

\* A worker between two jobs; the speech it names means nothing.
Resting == [pc |-> "idle", speech |-> CHOOSE s \in Speeches : TRUE, seen |-> "absent"]

Init == /\ backend \in Backends
        /\ speech = [s \in Speeches |-> NoSpeech]
        /\ job = [s \in Speeches |-> NoJob]
        /\ file = {}
        /\ run = [e \in Executors |-> IF e \in Speeches THEN [Resting EXCEPT !.speech = e] ELSE Resting]
        /\ deleting = {}
        /\ uploads = 0
        /\ crashes = 0
        /\ erased = FALSE

-----------------------------------------------------------------------------
Present(s) == speech[s].status \notin {"absent", "deleted"}
Current(e) == run[e].speech
At(e, pc) == run[e].pc = pc
Go(e, pc) == run' = [run EXCEPT ![e].pc = pc]

\* The session is closed: what it had loaded is gone.
Close(e, pc) == run' = [run EXCEPT ![e].pc = pc, ![e].seen = "absent"]
Rest(w) == run' = [run EXCEPT ![w] = Resting]

\* _process_audio_speech returns or raises: a request swallows both and
\* answers, a worker goes on to its job row.
End(e, how) == IF e \in Speeches THEN Close(e, "done") ELSE Go(e, how)

SetStatus(s, status) == speech' = [speech EXCEPT ![s].status = status]

\* The commit of the status failed, which fails itself if the row is gone.
CommitFailure(e, how) ==
  \/ /\ Present(Current(e))
     /\ SetStatus(Current(e), "failed")
     /\ IF e \in Speeches THEN Close(e, "done")
                          ELSE run' = [run EXCEPT ![e].pc = how, ![e].seen = "failed"]
  \/ /\ ~Present(Current(e))
     /\ UNCHANGED speech
     /\ End(e, "broken")

OutcomesOf(e) == IF e \in Speeches THEN InlineOutcomes[e] ELSE WorkerOutcomes[Current(e)]

-----------------------------------------------------------------------------
(* create_audio_speech up to its commit, create_text_speech *)

UploadFile(s) ==
  /\ At(s, "idle")
  /\ file' = file \cup {s}
  /\ Go(s, "uploading")
  /\ UNCHANGED <<backend, speech, job, deleting, uploads, crashes, erased>>

UploadCommit(s) ==
  /\ At(s, "uploading")
  /\ SetStatus(s, "pending")
  /\ job' = [job EXCEPT ![s] = [status |-> "queued", attempts |-> 0, seq |-> uploads]]
  /\ uploads' = uploads + 1
  /\ Go(s, "starting")
  /\ UNCHANGED <<backend, file, deleting, crashes, erased>>

\* The Speech row of a text is flushed with the status "processing", and comes
\* with the first commit: the one analyze_speech makes for its AIRequestLog.
TextSubmit(s) ==
  /\ At(s, "idle")
  /\ \E pc \in {"analysed", "refused"} :
       /\ pc = "analysed" => "ok" \in InlineOutcomes[s]
       /\ pc = "refused" => "error" \in InlineOutcomes[s]
       /\ run' = [run EXCEPT ![s].pc = pc, ![s].seen = "processing"]
  /\ SetStatus(s, "processing")
  /\ UNCHANGED <<backend, job, file, deleting, uploads, crashes, erased>>

TextRefused(s) ==
  /\ At(s, "refused")
  /\ CommitFailure(s, "done")
  /\ UNCHANGED <<backend, job, file, deleting, uploads, crashes, erased>>

-----------------------------------------------------------------------------
(* _process_audio_speech, by a request or by a worker *)

\* The refresh after the upload's commit, or the worker's get.  A worker that finds
\* no speech writes dead_letter to a job that went with it, which fails.
Load(e) ==
  /\ At(e, "starting")
  /\ \/ /\ Present(Current(e))
        /\ run' = [run EXCEPT ![e].pc = "loaded", ![e].seen = speech[Current(e)].status]
     \/ ~Present(Current(e)) /\ End(e, "broken")
  /\ UNCHANGED <<backend, speech, job, file, deleting, uploads, crashes, erased>>

\* Mutation of Begin: the new status is flushed but not committed.
BeginUncommitted(e) ==
  /\ At(e, "loaded") /\ Go(e, "begun")
  /\ UNCHANGED <<backend, speech, job, file, deleting, uploads, crashes, erased>>

Begin(e) ==
  /\ At(e, "loaded")
  /\ \/ /\ run[e].seen = "processing"
        /\ Go(e, "begun") /\ UNCHANGED speech
     \/ /\ run[e].seen # "processing" /\ Present(Current(e))
        /\ SetStatus(Current(e), "processing")
        /\ run' = [run EXCEPT ![e].pc = "begun", ![e].seen = "processing"]
     \/ /\ run[e].seen # "processing" /\ ~Present(Current(e))
        /\ End(e, "broken") /\ UNCHANGED speech
  /\ UNCHANGED <<backend, job, file, deleting, uploads, crashes, erased>>

\* get_local_path gives None for S3 and for a file that is gone.
Located(e) == backend = "local" /\ Current(e) \in file

\* transcribe_audio and analyze_speech answer, one of them raises AIProviderError,
\* the transcription is next to nothing, or something is raised that the code does
\* not catch (a body that is not JSON).
Provided(e) ==
  \/ "ok" \in OutcomesOf(e) /\ Go(e, "analysed") /\ UNCHANGED speech
  \/ "error" \in OutcomesOf(e) /\ CommitFailure(e, "failing")
  \/ "short" \in OutcomesOf(e) /\ CommitFailure(e, "reporting")
  \/ "unexpected" \in OutcomesOf(e) /\ End(e, "failing") /\ UNCHANGED speech

\* Mutation of Analyse: without a local file it returns instead of raising.
AnalyseNothing(e) ==
  /\ At(e, "begun")
  /\ IF Located(e) THEN Provided(e) ELSE End(e, "reporting") /\ UNCHANGED speech
  /\ UNCHANGED <<backend, job, file, deleting, uploads, crashes, erased>>

\* From the commit of "processing" to the analysis, or to the commit of a failure.
Analyse(e) ==
  /\ At(e, "begun")
  /\ IF Located(e) THEN Provided(e) ELSE End(e, "failing") /\ UNCHANGED speech
  /\ UNCHANGED <<backend, job, file, deleting, uploads, crashes, erased>>

\* Mutation of Store: the status is committed before the analysis.
StoreStatusFirst(e) ==
  /\ At(e, "analysed") /\ Present(Current(e))
  /\ SetStatus(Current(e), "completed") /\ End(e, "reporting")
  /\ UNCHANGED <<backend, job, file, deleting, uploads, crashes, erased>>

\* The analysis and the status go in one commit.  speech_analyses.speech_id is
\* unique: a second analysis fails the flush and with it the session.
Store(e) ==
  LET s == Current(e)
  IN /\ At(e, "analysed")
     /\ \/ /\ Present(s) /\ speech[s].analysis = "none"
           /\ speech' = [speech EXCEPT ![s].status = "completed", ![s].analysis = "stored"]
           /\ End(e, "reporting")
        \/ /\ ~Present(s) \/ speech[s].analysis = "stored"
           /\ UNCHANGED speech
           /\ End(e, "broken")
     /\ UNCHANGED <<backend, job, file, deleting, uploads, crashes, erased>>

-----------------------------------------------------------------------------
(* process_one_job *)

Queued(s) == job[s].status = "queued"

\* Mutations of Claim: the claimed job is not marked, and only the jobs of
\* pending speeches are taken.
ClaimUnmarked(w) ==
  /\ At(w, "idle")
  /\ \E s \in Speeches : Queued(s) /\ run' = [run EXCEPT ![w].pc = "starting", ![w].speech = s]
  /\ UNCHANGED <<backend, speech, job, file, deleting, uploads, crashes, erased>>

ClaimPendingOnly(w) ==
  /\ At(w, "idle")
  /\ \E s \in Speeches :
       /\ Queued(s) /\ speech[s].status = "pending"
       /\ job' = [job EXCEPT ![s].status = "processing", ![s].attempts = @ + 1]
       /\ run' = [run EXCEPT ![w].pc = "starting", ![w].speech = s]
  /\ UNCHANGED <<backend, speech, file, deleting, uploads, crashes, erased>>

\* SELECT the oldest queued job FOR UPDATE SKIP LOCKED, mark it, commit.
Claim(w) ==
  /\ At(w, "idle")
  /\ \E s \in Speeches :
       /\ Queued(s)
       /\ \A x \in Speeches : Queued(x) => job[s].seq <= job[x].seq
       /\ job' = [job EXCEPT ![s].status = "processing", ![s].attempts = @ + 1]
       /\ run' = [run EXCEPT ![w].pc = "starting", ![w].speech = s]
  /\ UNCHANGED <<backend, speech, file, deleting, uploads, crashes, erased>>

JobExists(s) == job[s].status # "none"

Report(w) ==
  LET s == Current(w)
  IN /\ At(w, "reporting")
     /\ job' = IF JobExists(s) THEN [job EXCEPT ![s].status = "completed"] ELSE job
     /\ Rest(w)
     /\ UNCHANGED <<backend, speech, file, deleting, uploads, crashes, erased>>

\* dead_letter writes the status only if this session has not done so before:
\* what the request has committed meanwhile stays.
Fail(w) ==
  LET s == Current(w)
  IN /\ At(w, "failing")
     /\ \/ /\ JobExists(s) /\ job[s].attempts >= MaxAttempts[s]
           /\ job' = [job EXCEPT ![s].status = "dead_letter"]
           /\ IF run[w].seen = "failed" THEN UNCHANGED speech ELSE SetStatus(s, "failed")
        \/ /\ JobExists(s) /\ job[s].attempts < MaxAttempts[s]
           /\ job' = [job EXCEPT ![s].status = "failed_retryable"]
           /\ UNCHANGED speech
        \/ ~JobExists(s) /\ UNCHANGED <<job, speech>>
     /\ Rest(w)
     /\ UNCHANGED <<backend, file, deleting, uploads, crashes, erased>>

\* The handler's own commit raises: the loop logs it and polls again.
GiveUp(w) ==
  /\ At(w, "broken")
  /\ Rest(w)
  /\ UNCHANGED <<backend, speech, job, file, deleting, uploads, crashes, erased>>

-----------------------------------------------------------------------------
(* delete_speech: the file first, then the row; the job and the analysis go by
   cascade *)

DeletedSpeech == [status |-> "deleted", analysis |-> "none"]

\* Mutation of DeleteFile: a file that cannot be removed is forgotten.
DeleteFileSwallows(s) ==
  /\ s \in Deletable \ deleting
  /\ Present(s)
  /\ file' \in {file, file \ {s}}
  /\ deleting' = deleting \cup {s}
  /\ UNCHANGED <<backend, speech, job, run, uploads, crashes, erased>>

DeleteFile(s) ==
  /\ s \in Deletable \ deleting
  /\ Present(s)
  /\ \/ file' = file \ {s}
     \/ backend = "s3" /\ UNCHANGED file     \* StorageError is swallowed
  /\ deleting' = deleting \cup {s}
  /\ UNCHANGED <<backend, speech, job, run, uploads, crashes, erased>>

DeleteRow(s) ==
  /\ s \in deleting
  /\ speech' = [speech EXCEPT ![s] = DeletedSpeech]
  /\ job' = [job EXCEPT ![s] = NoJob]
  /\ deleting' = deleting \ {s}
  /\ UNCHANGED <<backend, file, run, uploads, crashes, erased>>

\* delete_my_account deletes the rows of the owner in one statement: jobs and
\* analyses go by cascade, files and assets stay.  Requests that have been let in
\* before go on.
EraseAccount ==
  LET gone == {s \in Deletable : s \in Speeches /\ Present(s)}
  IN /\ ~erased
     /\ erased' = TRUE
     /\ speech' = [s \in Speeches |-> IF s \in gone THEN DeletedSpeech ELSE speech[s]]
     /\ job' = [s \in Speeches |-> IF s \in gone THEN NoJob ELSE job[s]]
     /\ UNCHANGED <<backend, file, run, deleting, uploads, crashes>>

\* A process dies between two commits; a worker is started again.
Crash(e) ==
  /\ crashes < MaxCrashes
  /\ crashes' = crashes + 1
  /\ run[e].pc \notin {"idle", "done"}
  /\ IF e \in Speeches THEN Close(e, "done") ELSE Rest(e)
  /\ UNCHANGED <<backend, speech, job, file, deleting, uploads, erased>>

CrashDelete(s) ==
  /\ crashes < MaxCrashes
  /\ crashes' = crashes + 1
  /\ s \in deleting
  /\ deleting' = deleting \ {s}
  /\ UNCHANGED <<backend, speech, job, file, run, uploads, erased>>

-----------------------------------------------------------------------------
Submit(s) == UploadFile(s) \/ TextSubmit(s)
Process(e) == Load(e) \/ Begin(e) \/ Analyse(e) \/ Store(e)
RequestStep(s) == UploadCommit(s) \/ TextRefused(s) \/ Process(s)
WorkerStep(w) == Claim(w) \/ Process(w) \/ Report(w) \/ Fail(w) \/ GiveUp(w)

Next == \/ \E s \in Speeches : \/ Submit(s) \/ RequestStep(s)
                               \/ DeleteFile(s) \/ DeleteRow(s) \/ CrashDelete(s)
        \/ \E w \in Workers : WorkerStep(w)
        \/ \E e \in Executors : Crash(e)
        \/ EraseAccount

Spec == Init /\ [][Next]_vars

\* Requests are served, and the worker loop polls as long as its process is up.
Fairness == /\ \A s \in Speeches : WF_vars(RequestStep(s)) /\ WF_vars(DeleteRow(s))
            /\ \A w \in Workers : WF_vars(WorkerStep(w))

FairSpec == Spec /\ Fairness

-----------------------------------------------------------------------------
(* Properties *)

Busy(w) == run[w].pc # "idle"

\* FOR UPDATE SKIP LOCKED and the status keep a job with one worker: nobody
\* else takes it while it runs, and while it exists it says so.
OneWorkerPerJob ==
  \A w \in Workers : Busy(w) =>
    /\ JobExists(Current(w)) => job[Current(w)].status = "processing"
    /\ \A v \in Workers : Busy(v) /\ Current(v) = Current(w) => v = w

\* Whichever of the request and the worker comes first, second or not at all,
\* a speech shown as completed has its analysis.
CompletedHasAnalysis ==
  \A s \in Speeches : speech[s].status = "completed" => speech[s].analysis = "stored"

\* A job is marked completed only over an analysed speech (or, where the
\* provider may return next to nothing, one that was given up).
JobCompletedMeansAnalysed ==
  \A s \in Speeches :
    job[s].status = "completed" =>
      speech[s].analysis = "stored" \/ "short" \in WorkerOutcomes[s]

\* As long as nothing crashes an upload that is still pending is in the hands
\* of its request, of a worker about to begin it, or in the queue.
PendingIsNotForgotten ==
  crashes = 0 =>
    \A s \in Speeches : speech[s].status = "pending" =>
      Queued(s) \/ \E e \in Executors : Current(e) = s /\ run[e].pc \in {"starting", "loaded"}

\* Files and rows go together: a file whose speech is gone is one that an
\* upload has just written, or was left by a crash, by S3's swallowed errors or
\* by the deletion of the account, which looks at no file; and an uploaded
\* speech lacks its file only while it is being deleted.
FilesMatchRows ==
  \A s \in Speeches :
    /\ s \in file /\ ~Present(s) =>
         At(s, "uploading") \/ crashes > 0 \/ backend = "s3" \/ (erased /\ s \in Deletable)
    /\ Present(s) /\ JobExists(s) /\ s \notin file => s \in deleting \/ crashes > 0

\* Every queued job is taken up (or its speech deleted) while a worker polls.
QueuedIsClaimed == \A s \in Speeches : Queued(s) ~> ~Queued(s)

\* When the provider fails the request and answers the workers, a worker has the
\* upload on local storage analysed, unless its owner deletes it or a process
\* dies.  (Its status is another matter: the request's own failure may be
\* committed after the worker's success.)
WorkerRecovers ==
  \A s \in Speeches : WorkerOutcomes[s] = {"ok"} =>
    (backend = "local" /\ speech[s].status = "pending" ~>
       speech[s].analysis = "stored" \/ speech[s].status = "deleted" \/ crashes > 0)

\* models.py gives a job max_attempts (3 by default) and the status
\* failed_retryable, and worker.py gives up "after several attempts": a job that
\* may be retried is.
RetryableIsRetried ==
  \A s \in Speeches : job[s].status = "failed_retryable" ~> job[s].status # "failed_retryable"

\* README: POST /api/speech/audio uploads and analyses: whoever puts a speech
\* under way settles it.
ProcessingSettles ==
  \A s \in Speeches :
    speech[s].status = "processing" ~> speech[s].status \in {"completed", "failed", "deleted"}
=============================================================================
