\* One upload, one worker, a provider that is down: the job may be tried three times.
SPECIFICATION FairSpec
CONSTANTS
  p1 = p1 p2 = p2 w1 = w1 w2 = w2
  Speeches <- OneSpeech
  Workers <- OneWorker
  Deletable = {}
  Backends <- OnLocal
  InlineOutcomes <- Outage
  WorkerOutcomes <- Outage
  MaxAttempts <- Thrice
  MaxCrashes = 0
PROPERTIES RetryableIsRetried
CHECK_DEADLOCK FALSE
