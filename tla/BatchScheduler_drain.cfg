SPECIFICATION Spec
CONSTANTS
  j1 = j1
  j2 = j2
  NoJob = NoJob
  Jobs = {j1, j2}
  NewsJobs = {j1}
  MaxAttempts = 2
  LeaseSeconds = 2
  Delays = {2, 3}
  StartupRecovery = {TRUE, FALSE}
  MaxStops = 1
  MaxErrors = 1
INVARIANTS
  NoJobForgotten
  OnlyABusyDrainGoesOn
PROPERTIES
  QueuedJobsEnd
