SPECIFICATION Spec
CONSTANTS
  Dialects = {"postgres", "mssql"}
  AutoColumns = 1
  MaxCalls = 3
  MaxClauses = 2
INVARIANTS
  OwnValue
  Connected
  ShownIsExecuted
  CountsThePage
CHECK_DEADLOCK FALSE
