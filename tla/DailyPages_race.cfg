SPECIFICATION Spec
CONSTANTS
  Requests = {1, 2, 3, 4, 5}
  K1 = K1
  K2 = K2
  NoKey = NoKey
  Ask <- StartTwiceRebuildRetryTwice
  Workers = 2
  MaxInterrupts = 2
INVARIANTS AcceptedMeansMine OneDailyJob VersionsNeverCollide
PROPERTY AcceptedJobsEnd
CHECK_DEADLOCK FALSE
