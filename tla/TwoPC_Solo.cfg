SPECIFICATION Spec
CONSTANTS
  N = 2
  MaxTx = 2
  MaxCrashes = 1
  XA = {2}
  Memberships = {{1, 2}}
  LateSaves = FALSE
  LatePrepares = FALSE
INVARIANTS CommittedIsApplied
CHECK_DEADLOCK FALSE
