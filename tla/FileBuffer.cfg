CONSTANTS
  MaxMsg = 4
  Size = 2
  RingCap = 1
  MaxFaults = 2
SPECIFICATION FairSpec
INVARIANTS Kept IndInv
PROPERTIES DrainsIfCounted
CHECK_DEADLOCK FALSE
