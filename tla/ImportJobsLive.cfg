SPECIFICATION FairSpec
CONSTANTS
  j1 = j1
  j2 = j2
  Jobs = {j1, j2}
  UploadJobs = {j1}
  Shared = TRUE
  Faulty = {"save", "recover"}
  MaxCrashes = 1
  MaxPanics = 1
  None = None
INVARIANTS
  WorkerFailureQuarantined
PROPERTIES
  ImportsEnd
  UploadSettles
CHECK_DEADLOCK FALSE
