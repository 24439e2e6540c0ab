SPECIFICATION FairSpec
CONSTANTS
  small = small
  medium = medium
  large = large
  Jobs = {small, medium, large}
  Cost <- MCCost
  Settings <- MCSettings
  AvailableMemory <- MCMemory
  AvailableCpu <- MCCpu
  Dynamic = dynamic
  Manual = manual
INVARIANTS
  TypeOK
  AccountingIsExact
  LimitsHold
  WorkConserving
  BypassBounded
PROPERTIES
  NobodyStarves
