SPECIFICATION MCSpec
CONSTANTS
  a = a
  b = b
  Tenants <- MCTenants
  Sizes = {1, 2}
  Capacity = 3
  MaxTenants = 2
  MaxOps = 2
  MaxFaults = 2
  MaxCrashes = 1
  MaxAll = 4
CHECK_DEADLOCK FALSE
INVARIANTS
  TypeOK
  CapacityIsBacked
  OpenRoutesAreSecured
  QuarantineClosesRoutes
  NoOrphanAfterBoot
  StopIsHonored
  SettledStateAgrees
PROPERTIES
  Settles
  BootCompletes
