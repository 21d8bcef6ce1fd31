\* Two demo-pay requests of one transaction.
SPECIFICATION Spec
CONSTANTS
  u1 = u1 u2 = u2 base = base pro = pro c1 = c1 c2 = c2
  k1 = k1 k2 = k2 d1 = d1 d2 = d2 s1 = s1
  Free = Free NoTxn = NoTxn
  Users <- OneUser
  PaidPlans <- OnePlan
  Checkouts <- OneCheckout
  Callbacks = {}
  DemoPays <- TwoDemoPays
  Sweeps = {}
  Grants = {}
  Leavers = {}
  Demo = TRUE
  Duration = 1
  Window = 0
  MaxTime = 0
INVARIANTS ActivatedOnce
SYMMETRY RequestSymmetry
CHECK_DEADLOCK FALSE
