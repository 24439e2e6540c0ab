SPECIFICATION StoreSpec
CONSTANTS
  Instances = {i1, i2}
  Metadata <- MCMetadata
  Users <- MCUsers
  Databases <- MCDatabases
  Passwords <- MCPasswords
  NoInstance = none
  NoMetadata = nometa
  NoPassword = nopassword
  NoDatabase = nodatabase
  NoLimit = nolimit
  MaxRevision = 5
INVARIANTS
  RoutesAreSound
  PinnedStaysFenced
PROPERTIES
  EveryChangeBumps
CHECK_DEADLOCK FALSE
