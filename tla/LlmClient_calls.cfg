SPECIFICATION LCSpec
CONSTANTS
  c1 = c1
  c2 = c2
  c3 = c3
  c4 = c4
  Calls = {c1, c2, c3, c4}
  Kind <- KindOf
  BaseTokens <- Bases
  ArticleTokens <- Articles
  Actuals = {2}
  Rpm = 2
  Tpm = 3
  Window = 2
  Concurrency = 2
  Threshold = 1
  Reset = 1
  MaxCallAttempts = 2
  Backoffs = {1}
  Exhausted = FALSE
INVARIANTS
  SlotsPerWindow
  TokensPerWindow
  RejectionsBounded
PROPERTIES
  EveryCallEnds
CHECK_DEADLOCK FALSE
