SPECIFICATION Spec
CONSTANTS
  MaxItem = 3
  MaxPending = 4
  MaxCrashes = 0
  NewestFirst = TRUE
  PageCursor = FALSE
  Limit = 3
  LatestPage = TRUE
  IdOf <- OwnIds
INVARIANTS MarkPassesOnlyAcked
CHECK_DEADLOCK FALSE
