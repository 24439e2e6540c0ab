SPECIFICATION FairSpec
CONSTANTS
  Instances = {i1}
  Tenants = {i1}
  Conns = {c1, c2}
  Waiters = {w1}
  Metadata <- MCMetadata
  Users <- MCUsers
  Databases <- MCDatabases
  Passwords <- MCPasswords
  NoInstance = none
  NoTenant = none
  NoMetadata = nometa
  NoPassword = nopassword
  NoDatabase = nodatabase
  NoLimit = nolimit
  NoSessionLimit = nolimit
  Plain = plain
  Postgres = postgres
  Mongodb = mongodb
  MaxRevision = 3
INVARIANTS
  EntriesMatchSessions
  FenceIsABarrier
  DrainedIsQuiet
  QuotaIsHeld
PROPERTIES
  EstablishedIsCurrent
  StaleConnectionsClose
CHECK_DEADLOCK FALSE
