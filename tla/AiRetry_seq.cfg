SPECIFICATION Spec
CONSTANTS
  r1 = r1
  r2 = r2
  headline = headline
  market = market
  detail = detail
  GlobalHeadline = headline
  SourceJob = source
  RetryJobs = {r1, r2}
  Targets = {headline, market, detail}
  DetailTargets = {detail}
  SourceQuality <- AllFailed
  BaseIssue = FALSE
  OneRunner = TRUE
  MaxAttempts = 2
INVARIANTS
  NoWastedCalls
  SuccessIsTrue
PROPERTIES
  EffectiveNeverRegresses
  LatestPageKeepsRecoveries
  EveryRetryEnds
CHECK_DEADLOCK FALSE
