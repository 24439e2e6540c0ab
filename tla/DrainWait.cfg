SPECIFICATION Spec
CONSTANTS
  Instances = {i1}
  Tenants = {i1}
  Conns = {c1, c2}
  Waiters = {w1}
  Metadata <- LiveMetadata
  Users <- MCUsers
  Databases <- MCDatabases
  Passwords <- MCPasswords
  NoInstance = none
  NoTenant = none
  NoMetadata = nometa
  NoPassword = nopassword
  NoDatabase = nodatabase
  NoLimit = nolimit
  NoSessionLimit = nolimit
  Plain = plain
  Postgres = postgres
  Mongodb = mongodb
  MaxRevision = 4
INVARIANTS
  ParkedWaiterHasSessions
SYMMETRY ConnSymmetry
CHECK_DEADLOCK FALSE
