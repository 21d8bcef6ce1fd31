\* Four speeches on four days, one summary at a time; a trend compares one or two rows with as many.
SPECIFICATION Spec
CONSTANTS
  s1 = s1 s2 = s2 s3 = s3 s4 = s4
  Speeches <- FourSpeeches
  LastDay = 3
  RecentN = 2
INVARIANTS StreakIsTheRun TrendComparesNeighbours
PROPERTIES StreakBreaksByAMissedDay SummaryIsConsistent
SYMMETRY SpeechSymmetry
CHECK_DEADLOCK FALSE
