SPECIFICATION FairSpec
CONSTANTS
  MaxWrites = 2
  MaxStarts = 3
  MaxCrashes = 3
INVARIANTS
  AuthoritativeCopyComplete
  RoutesFollowMetadata
  TerminalLeavesNothing
  BootSettles
  UnfinishedStaysFenced
  TenantStaysReserved
PROPERTIES
  WorkerEnds
CHECK_DEADLOCK FALSE
