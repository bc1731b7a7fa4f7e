SPECIFICATION FairSpec
CONSTANTS
  MaxItem = 5
  MaxPending = 3
  MaxCrashes = 2
  NewestFirst = TRUE
  PageCursor = TRUE
  Limit = 3
  LatestPage = TRUE
  IdOf <- OwnIds
INVARIANTS NothingSkipped IndInv
PROPERTIES SavedForward CaughtUp
CHECK_DEADLOCK FALSE
