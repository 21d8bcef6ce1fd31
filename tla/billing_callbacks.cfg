\* Two purchases of one user, their callbacks, one expiry sweep and one grant.
SPECIFICATION Spec
CONSTANTS
  u1 = u1 u2 = u2 base = base pro = pro c1 = c1 c2 = c2
  k1 = k1 k2 = k2 d1 = d1 d2 = d2 s1 = s1
  Free = Free NoTxn = NoTxn
  Users <- OneUser
  PaidPlans <- TwoPlans
  Checkouts <- TwoCheckouts
  Callbacks <- TwoCallbacks
  DemoPays = {}
  Sweeps <- OneSweep
  Grants <- GrantBase
  Leavers = {}
  Demo = FALSE
  Duration = 1
  Window = 0
  MaxTime = 2
INVARIANTS ActivatedOnce PaidIffActivated VerifiedBeforePaid
PROPERTIES TerminalIsFinal ImplementsLedger CoverageNeverShrinks
SYMMETRY RequestSymmetry
CHECK_DEADLOCK FALSE
