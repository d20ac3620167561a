SPECIFICATION Spec
CONSTANTS
  LastAttempt = 2
  TargetsOf <- ClusterAndTwoSummaries
  Kind <- KindOf
  LlmMaxRetries = 1
  StaleLoads = FALSE
INVARIANTS
  ContextIsTrue
  NothingPaidTwice
  OnePagePerJob
PROPERTIES
  AnswersAreKept
  AttemptsEnd
CHECK_DEADLOCK FALSE
