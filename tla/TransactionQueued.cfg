SPECIFICATION Spec
CONSTANTS
  t1 = t1
  t2 = t2
  t3 = t3
  c1 = c1
  s1 = s1
  e1 = e1
  NoTrx = NoTrx
  NoConn = NoConn
  Trx = {t1, t2, t3}
  Conn = {c1}
  Stmt = {s1}
  Ender = {e1}
  Callback = {}
  Dialect = "postgres"
  BeginMayFail = FALSE
  EndMayFail = FALSE
  ReleaseMayFail = FALSE
  Awaited = TRUE
  CrossContext = FALSE
INVARIANTS
  Dedicated
CHECK_DEADLOCK FALSE
