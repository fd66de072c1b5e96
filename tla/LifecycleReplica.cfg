SPECIFICATION FairSpec
CONSTANTS
  c1 = c1
  c2 = c2
  c3 = c3
  d1 = d1
  d2 = d2
  r1 = r1
  None = None
  Master = Master
  Caller = {c1, c2, c3}
  Direct = {c1}
  Closer = {d1, d2}
  Replica = {r1}
  MayFail = TRUE
  Overlap = FALSE
INVARIANTS
  SingleAttempt
  PoolsAccounted
  CleanSlate
  NoDeadPool
PROPERTIES
  Retriable
CHECK_DEADLOCK FALSE
