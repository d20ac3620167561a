SPECIFICATION Spec
CONSTANTS
  w1 = w1
  w2 = w2
  Workers = {w1, w2}
  Jobs = {1, 2}
  RunMode <- FullThenNews
  MaxAttempts = 2
  LlmMaxRetries = 1
  LeaseSeconds = 1
  RetryDelay = 1
  LlmDelays = {0}
  MaxNow = 2
  MaxReplays = 1
SYMMETRY WorkerSymmetry
INVARIANTS
  HolderRunOpen
  Ownership
  NoStrandedJob
  GenuineBudgetKept
  LlmWideningBounded
PROPERTIES
  ZombieIsInert
  LiveLeaseNotStolen
  ImplementsLifecycle
