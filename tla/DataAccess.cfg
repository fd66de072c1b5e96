SPECIFICATION DataSpec
CONSTANTS
  Parents = {0, 1, 2}
  Children = {1, 2}
  Loads <- MCLoads
  Tables <- MCTables
  Nothing = 9
  Few = 2
  MaxWrites = 1
  Writers = {1, 2}
  Databases = {"mysql", "postgres", "sqlite", "mssql", "oracledb"}
  Indexes <- MCIndexes
  Hidings <- MCHidings
  Calls <- MCCalls
  StreamDialects = {"mysql", "postgres", "sqlite", "mssql", "oracledb"}
  RowCount = 3
  Adapters = {"memory", "redis"}
  Names = {"u", "us"}
  Prefixed <- MCPrefixed
  Users = {"x", "y"}
  MaxVersion = 2
  Readers = {1, 2}
  ReplicaCount = 2
  Documents = {1, 2, 3, 4}
  Contents <- MCContents
  Clauses <- MCClauses
  Hooks <- MCHooks
  MaxClauses = 2
  Managers = {1, 2}
  Within = {1}
  SessionCalls <- MCSessionCalls
  MaxCalls = 2
  MaxClients = 2
  RedisUsers = {"x", "y"}
  Channels = {"c"}
  Commands <- MCCommands
  MaxCommands = 2
  Requests <- MCRequests
  Configurations <- MCConfigurations
INVARIANTS
  LoadsRelated
  
  StreamSettles
  NeverStale
  ReadsItsWrite
  DocumentsMeant
  DocumentsAnswered
  RedisServes
CHECK_DEADLOCK FALSE
