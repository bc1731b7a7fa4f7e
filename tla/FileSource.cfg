SPECIFICATION FairSpec
CONSTANTS
  MaxFile = 4
  RowsOf <- MixedRows
  MaxOpen = 2
  MaxPending = 2
  OpenFails = TRUE
  MaxCrashes = 2
INVARIANTS RegisteredFilesWhole CompleteOnce IndInv
PROPERTIES WatermarkCatchesUp
CHECK_DEADLOCK FALSE
