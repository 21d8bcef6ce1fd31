\* Two processes with two calls at a time; two requests may pass in a window of two ticks.
SPECIFICATION Spec
CONSTANTS
  Requests = {r1, r2, r3, r4}
  Processes = {p1, p2}
  Threads = 2
  MaxAllowed = 2
  Window = 2
  MaxTime = 2
INVARIANTS RedisWindow MemoryWindow RefusalsAreEarned
SYMMETRY Symmetric
CHECK_DEADLOCK FALSE
