SPECIFICATION Spec
CONSTANTS
  t1 = t1
  t2 = t2
  c1 = c1
  c2 = c2
  s1 = s1
  e1 = e1
  e2 = e2
  NoTrx = NoTrx
  NoConn = NoConn
  Trx = {t1, t2}
  Conn = {c1, c2}
  Stmt = {s1}
  Ender = {e1, e2}
  Callback = {t1}
  Dialect = "postgres"
  BeginMayFail = TRUE
  EndMayFail = TRUE
  ReleaseMayFail = FALSE
  Awaited = TRUE
  CrossContext = FALSE
SYMMETRY DataSymmetry
INVARIANTS
  Dedicated
  NoLeak
  CleanPool
  InsideTransaction
  AnswerIsTrue
PROPERTIES
  OutcomeIsFinal
CHECK_DEADLOCK FALSE
