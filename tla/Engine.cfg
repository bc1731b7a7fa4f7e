SPECIFICATION FairSpec
CONSTANTS
  MaxMsg = 3
  Sink = {s1}
  Worker = {w1, w2}
  Shared = shared
  WorkerOf <- Keys
  BufferCap = 1
  QueueCap = 1
  BatchSize = 2
  MaxPm = 3
  Strategies = {"block", "drop_oldest", "sampling"}
  DrainTimeout = TRUE
  DeadLetter = TRUE
  Validating = {s1}
INVARIANTS IndInv AckedIsKept InOrder PoolIsSound ClosedIsQuiet
PROPERTIES StopCompletes
CHECK_DEADLOCK FALSE
