SPECIFICATION Spec
CONSTANTS
  N = 3
  MaxTx = 2
  MaxCrashes = 1
  XA = {2}
  Memberships = {{1, 2}, {2, 3}}
  LateSaves = FALSE
  LatePrepares = FALSE
INVARIANTS Atomicity PreparedIsNamed GroupCommitIsComplete InDoubtIsDecided IndInv
PROPERTIES DecisionFirst DecisionStands ImplementsPromise
CHECK_DEADLOCK FALSE
