SPECIFICATION Spec
CONSTANTS
  MaxWrites = 1
  MaxStarts = 1
  MaxCrashes = 2
INVARIANTS
  OtherTenantKept
CHECK_DEADLOCK FALSE
