SPECIFICATION FairSpec
CONSTANTS
  MaxMessage = 9
  Change <- CrossedChange
  Start <- CrossedStart
  Size <- CrossedSize
  Commit <- CrossedCommit
  ChanCap = 2
  HeapSlack = 0
  MaxFaults = 1
INVARIANTS ConfirmedIsAcked IndInv
PROPERTIES EveryChangeArrives SlotMovesOn
CHECK_DEADLOCK FALSE
