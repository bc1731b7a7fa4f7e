SPECIFICATION Spec
CONSTANTS
  MaxMsg = 2
  Sink = {s1, s2}
  Worker = {w1}
  Shared = shared
  WorkerOf <- Keys
  BufferCap = 1
  QueueCap = 1
  BatchSize = 2
  MaxPm = 5
  Strategies = {"block", "spill_to_disk"}
  DrainTimeout = FALSE
  DeadLetter = FALSE
  Validating = {s1, s2}
SYMMETRY SinkSymmetry
INVARIANTS AckedIsKept PoolIsSound
CHECK_DEADLOCK FALSE
