SPECIFICATION SessionSpec
CONSTANTS
  Managers = {1}
  Within = {1}
  SessionCalls <- MCInserts
  MaxCalls = 1
INVARIANTS
  AbortUndoes
CHECK_DEADLOCK FALSE
