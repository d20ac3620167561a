SPECIFICATION Spec
CONSTANTS
  LastAttempt = 2
  TargetsOf <- TwoClusters
  Kind <- KindOf
  LlmMaxRetries = 1
  StaleLoads = TRUE
PROPERTIES
  DocCheckpointIsFenced
CHECK_DEADLOCK FALSE
