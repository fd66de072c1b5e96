SPECIFICATION Spec
CONSTANTS
  Databases <- MCDatabases
  ModelSets <- MCModelSets
  PkNames <- MCPkNames
  MaxSyncs = 2
  Interrupts = TRUE
INVARIANTS
  Applicable
  SettlesAtOnce
  KeepsWanted
  DownUndoes
CHECK_DEADLOCK FALSE
