SPECIFICATION Spec
CONSTANTS
  Indices = {1, 2}
  Jobs = {1, 2}
  EndOfDate = 5
  LastInstant = 8
  Lookback = 2
  MaxReplays = 1
INVARIANTS
  PricesAreFinal
  ReadyPagesAreCurrent
  NotesTellTheOldest
CHECK_DEADLOCK FALSE
