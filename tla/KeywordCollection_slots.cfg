SPECIFICATION FairSpec
CONSTANTS
  Articles = {1, 2, 3, 4}
  Published <- Dates
  Undated = {4}
  Mentions <- Finds
  KeywordOrder <- Order
  Market <- MarketOf
  SlotEnds = {4}
  SlotLength = 2
  Overlap = 1
  PageSize = 1
  MaxStart = 2
  Workers = {w1, w2}
  MaxAttempts = 2
INVARIANTS
  CoveredMeansReadable
PROPERTIES
  SlotsEnd
CHECK_DEADLOCK FALSE
