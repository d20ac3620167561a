SPECIFICATION Spec
CONSTANTS
  US = US
  KR = KR
  Markets = {US}
  SlotLength = 2
  Overlap = 1
  MaxLookback = 3
  FirstWindow = 2
  CatchupMax = 2
  Backfill = 4
  Day = 2
  OneRunner = TRUE
  Start = 3
  MaxNow = 6
  MaxBatches = 2
INVARIANTS
  DocCompleteWindowsMissNothing
CHECK_DEADLOCK FALSE
