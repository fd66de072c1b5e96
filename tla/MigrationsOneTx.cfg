SPECIFICATION Spec
CONSTANTS
  p1 = p1
  Proc = {p1}
  FileCount = 2
  Steps = 1
  PoolSize = 2
  Dialects = {"postgres"}
  Overlap = FALSE
  NoLock = NoLock
INVARIANTS
  SingleTransaction
CHECK_DEADLOCK FALSE
