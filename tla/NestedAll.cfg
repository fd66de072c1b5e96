SPECIFICATION Spec
CONSTANTS
  x1 = x1
  x2 = x2
  x3 = x3
  w1 = w1
  w2 = w2
  w3 = w3
  Root = Root
  NoScope = NoScope
  Scope = {x1, x2, x3}
  Write = {w1, w2, w3}
  Dialects = {"postgres", "mysql", "oracledb"}
  Overlap = FALSE
  Swallow = {"oracledb", "mysql"}
SYMMETRY ScopeWriteSymmetry
INVARIANTS
  ScopedUndo
PROPERTIES
  AtomicScopes
CHECK_DEADLOCK FALSE
