SPECIFICATION FairSpec
CONSTANTS
  a1 = a1
  a2 = a2
  a3 = a3
  e1 = e1
  e2 = e2
  None = None
  Starter = {a1, a2, a3}
  Ender = {e1, e2}
  BeginMayFail = TRUE
  Overlap = FALSE
INVARIANTS
  ActiveIsGlobal
  NothingLeaked
PROPERTIES
  StartSettles
  EventuallyClosed
CHECK_DEADLOCK FALSE
