\* Two speeches, two workers, both backends, deletion, a crash and every answer of the provider.
SPECIFICATION FairSpec
CONSTANTS
  p1 = p1 p2 = p2 w1 = w1 w2 = w2
  Speeches <- TwoSpeeches
  Workers <- TwoWorkers
  Deletable <- OneSpeech
  Backends <- AnyBackend
  InlineOutcomes <- AnyThenOutage
  WorkerOutcomes <- AnyThenRecovery
  MaxAttempts <- OneOrThree
  MaxCrashes = 1
INVARIANTS OneWorkerPerJob CompletedHasAnalysis JobCompletedMeansAnalysed PendingIsNotForgotten FilesMatchRows
PROPERTIES QueuedIsClaimed WorkerRecovers
CHECK_DEADLOCK FALSE
