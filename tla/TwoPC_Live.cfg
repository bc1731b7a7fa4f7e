SPECIFICATION FairSpec
CONSTANTS
  N = 2
  MaxTx = 1
  MaxCrashes = 2
  XA = {2}
  Memberships = {{1, 2}}
  LateSaves = FALSE
  LatePrepares = TRUE
INVARIANTS Atomicity
PROPERTIES AbortIsFinished
CHECK_DEADLOCK FALSE
