\* One upload, one worker, no failure anywhere.
SPECIFICATION FairSpec
CONSTANTS
  p1 = p1 p2 = p2 w1 = w1 w2 = w2
  Speeches <- OneSpeech
  Workers <- OneWorker
  Deletable = {}
  Backends <- OnLocal
  InlineOutcomes <- NoFailure
  WorkerOutcomes <- NoFailure
  MaxAttempts <- Thrice
  MaxCrashes = 0
PROPERTIES ProcessingSettles
CHECK_DEADLOCK FALSE
