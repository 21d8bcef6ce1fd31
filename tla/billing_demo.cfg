\* The demo provider: callbacks and one demo-pay request for the same transactions; every wait for the row lock ends, and one user leaves.
SPECIFICATION FairSpec
CONSTANTS
  u1 = u1 u2 = u2 base = base pro = pro c1 = c1 c2 = c2
  k1 = k1 k2 = k2 d1 = d1 d2 = d2 s1 = s1
  Free = Free NoTxn = NoTxn
  Users <- TwoUsers
  PaidPlans <- OnePlan
  Checkouts <- TwoCheckouts
  Callbacks <- TwoCallbacks
  DemoPays <- OneDemoPay
  Sweeps = {}
  Grants = {}
  Leavers <- OneUser
  Demo = TRUE
  Duration = 1
  Window = 0
  MaxTime = 0
INVARIANTS PlanIsExplained
PROPERTIES CallbackAnswered
CHECK_DEADLOCK FALSE
