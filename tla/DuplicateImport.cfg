SPECIFICATION Spec
CONSTANTS
  j1 = j1
  j2 = j2
  Jobs = {j1, j2}
  UploadJobs = {j1, j2}
  Shared = TRUE
  Faulty = {}
  MaxCrashes = 1
  MaxPanics = 1
  None = None
INVARIANT
  NoDuplicateMutation
SYMMETRY UploadTwins
CHECK_DEADLOCK FALSE
