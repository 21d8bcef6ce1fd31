\* Two scenarios in sequence and the level that opens after them; the log's commit may fail.
SPECIFICATION Spec
CONSTANTS
  s1 = s1 s2 = s2
  NoScenario = NoScenario NoConv = NoConv
  Curriculum <- TwoLevels
  Active <- BothActive
  Convs = {c1, c2, c3}
  Requests = {r1, r2}
  MinMessages = 1
  LogFails = TRUE
  MaxMessages = 1
INVARIANTS CompletedMeansPractised LinkIsLive StartedOnce FinishedUnlessDeleted
PROPERTIES ClosesOnlyAfterDeletion
SYMMETRY Symmetric
CHECK_DEADLOCK FALSE
