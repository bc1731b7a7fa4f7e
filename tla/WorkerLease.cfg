CONSTANTS
  w1 = w1  w2 = w2  None = None
  Worker <- MCWorker
  TTL = 1
  MaxRenewFails = 2
  MaxEngines = 2
  Kinds <- MCAll
  First = w1
  MaxEvents = 2
  StopMayGiveUp = TRUE
SPECIFICATION FairSpec
PROPERTIES  RunsUnlessWedged
CHECK_DEADLOCK FALSE
