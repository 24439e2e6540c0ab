SPECIFICATION MCSpec
CONSTANTS
  a = a
  b = b
  Tenants <- MCTenants
  Sizes = {1, 2}
  Capacity = 3
  MaxTenants = 2
  MaxOps = 1
  MaxFaults = 0
  MaxCrashes = 1
  MaxAll = 2
CHECK_DEADLOCK FALSE
INVARIANT DeletionStaysRetryable
