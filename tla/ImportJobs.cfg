SPECIFICATION Spec
CONSTANTS
  j1 = j1
  j2 = j2
  Jobs = {j1, j2}
  UploadJobs = {j1, j2}
  Shared = TRUE
  Faulty = {"insert", "claim", "close", "begin", "save", "finish", "manifest", "recover"}
  MaxCrashes = 3
  MaxPanics = 1
  None = None
INVARIANTS
  TypeOK
  NoPartialServed
  RollbackKept
  SucceededMeansApplied
  FailedMeansUntouched
  UploadAppliedOnce
SYMMETRY UploadTwins
CHECK_DEADLOCK FALSE
