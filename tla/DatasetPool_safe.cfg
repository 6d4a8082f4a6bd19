\* Three requests for two files in a pool of one, two cancellations at any await.
SPECIFICATION FairSpec
CONSTANTS
  Keys = {k1, k2}
  Requests = {r1, r2, r3}
  None = None
  Sweeper = Sweeper
  MaxOpen = 1
  MaxCancels = 2
INVARIANTS ReadersHaveOpenHandle ShutdownClosesAll CapacityAtRest NothingLeaks
PROPERTIES LeaseSpec AcquireEnds CancelledOpenIsClosed
CHECK_DEADLOCK FALSE
