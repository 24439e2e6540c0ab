SPECIFICATION Spec
CONSTANTS
  j1 = j1
  j2 = j2
  Jobs = {j1, j2}
  UploadJobs = {j1}
  Shared = TRUE
  Faulty = {}
  MaxCrashes = 2
  MaxPanics = 0
  None = None
INVARIANT
  InterruptedImportQuarantined
CHECK_DEADLOCK FALSE
