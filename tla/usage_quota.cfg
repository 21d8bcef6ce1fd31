\* Three requests of one user across a month boundary, three plans.
SPECIFICATION Spec
CONSTANTS
  u1 = u1 free = free base = base pro = pro
  r1 = r1 r2 = r2 r3 = r3
  Users <- OneUser
  Requests <- ThreeRequests
  Plans <- ThreePlans
  UnlimitedPlans <- ProOnly
  SpeechLimit <- Speeches12
  SecondsLimit <- Seconds35
  AudioSeconds <- TextOrAudio
  LastMonth = 1
INVARIANTS CountIsExact WithinTheLimit DenialsAreExplained
SYMMETRY RequestSymmetry
CHECK_DEADLOCK FALSE
