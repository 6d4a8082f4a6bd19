SPECIFICATION Spec
CONSTANTS
  Keys = {k1, k2}
  Requests = {r1, r2, r3}
  None = None
  Sweeper = Sweeper
  MaxOpen = 1
  MaxCancels = 1
INVARIANT NothingIsPinned
CHECK_DEADLOCK FALSE
