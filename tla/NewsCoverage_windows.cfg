SPECIFICATION Spec
CONSTANTS
  US = US
  KR = KR
  Markets = {US}
  SlotLength = 2
  Overlap = 0
  MaxLookback = 3
  FirstWindow = 2
  CatchupMax = 2
  Backfill = 4
  Day = 2
  OneRunner = TRUE
  Start = 3
  MaxNow = 6
  MaxBatches = 2
INVARIANTS
  CompleteMeansShown
  CatchUpReachesTheWindow
PROPERTIES
  WatermarkNeverMovesBack
CHECK_DEADLOCK FALSE
