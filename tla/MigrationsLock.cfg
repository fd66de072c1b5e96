SPECIFICATION FairSpec
CONSTANTS
  p1 = p1
  p2 = p2
  Proc = {p1, p2}
  FileCount = 2
  Steps = 2
  PoolSize = 2
  Dialects = {"postgres", "mysql"}
  Overlap = FALSE
  NoLock = NoLock
INVARIANTS
  OneAtATime
  PrefixRecorded
  BooksAgree
  FailureUndone
PROPERTIES
  LockIsFreed
CHECK_DEADLOCK FALSE
