SPECIFICATION FairSpec
CONSTANTS
  t1 = t1
  t2 = t2
  t3 = t3
  c1 = c1
  s1 = s1
  e1 = e1
  NoTrx = NoTrx
  NoConn = NoConn
  Trx = {t1, t2, t3}
  Conn = {c1}
  Stmt = {s1}
  Ender = {e1}
  Callback = {t1}
  Dialect = "oracledb"
  BeginMayFail = FALSE
  EndMayFail = TRUE
  ReleaseMayFail = FALSE
  Awaited = FALSE
  CrossContext = FALSE
PROPERTIES
  EventuallyServed
  EventuallyEnded
CHECK_DEADLOCK FALSE
