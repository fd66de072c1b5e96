----------------------------- MODULE Transaction -----------------------------
(***************************************************************************)
(* Top-level transactions of one connected SqlDataSource: every call of    *)
(* SqlDataSource.transaction() clones the data source, borrows one         *)
(* connection of the shared driver pool, runs BEGIN on it and hands a      *)
(* Transaction to the application, which addresses statements to it and    *)
(* ends it with commit() or rollback(), possibly from several asynchronous *)
(* tasks at once.  An action is the code between two awaits.               *)
(*                                                                         *)
(* A command is executed at the moment it is sent: a driver connection     *)
(* runs its commands in the order they are sent, and nothing in this       *)
(* module can tell the server's answer from the promise it settles.        *)
(*                                                                         *)
(* The driver's pool and the database session are external: the pool       *)
(* serves requests first come first served and a released client goes      *)
(* straight to the first waiter; a session is "in a transaction" or in     *)
(* autocommit mode and holds the writes it has not committed.              *)
(***************************************************************************)
EXTENDS Naturals, Sequences, FiniteSets

CONSTANTS
  Trx,             \* top-level Transaction objects, one per transaction() call
  Conn,            \* the connections the pool may open (its maximum size)
  Stmt,            \* write statements the application issues
  Ender,           \* tasks that may each call commit() or rollback() once
  Callback,        \* the transactions started in callback form
  Dialect,         \* the driver's family
  BeginMayFail,    \* BEGIN or the isolation level statement may be rejected
  EndMayFail,      \* COMMIT or ROLLBACK may be rejected
  ReleaseMayFail,  \* giving the connection back may report an error
  Awaited,         \* the application awaits its statements before it ends
  CrossContext,    \* one transaction is used inside the callback of another
  NoTrx, NoConn

ASSUME DialectAssumption == Dialect \in {"postgres", "mysql", "oracledb"}
ASSUME FlagAssumption ==
  {BeginMayFail, EndMayFail, ReleaseMayFail, Awaited, CrossContext} \subseteq BOOLEAN
ASSUME NoneAssumption == NoTrx \notin Trx /\ NoConn \notin Conn
ASSUME CallbackAssumption == Callback \subseteq Trx

VARIABLES
  pc,         \* where the transaction() call of a transaction stands
  isActive,   \* Transaction.isActive
  released,   \* Transaction.connectionReleased
  sqlConn,    \* sqlConnection of the clone the transaction runs on
  call,       \* the commit()/rollback() call of each task
  pool,       \* who leases each connection, who waits, what was delivered
  inTx,       \* the sessions inside an explicit transaction
  buf,        \* the uncommitted writes of each session
  db,         \* the committed writes
  stmt        \* the application's statements

trxVars == <<pc, isActive, released, sqlConn>>
serverVars == <<inTx, buf, db>>
vars == <<pc, isActive, released, sqlConn, call, pool, inTx, buf, db, stmt>>

Stage == {"idle", "sent", "closing", "released", "clearing",
          "resolved", "rejected", "ignored"}

Call == [stage : Stage, kind : {"commit", "rollback"},
         ok : BOOLEAN, relErr : BOOLEAN]

NoCall == [stage |-> "idle", kind |-> "commit", ok |-> TRUE, relErr |-> FALSE]

Pool == [holder : [Conn -> Trx \cup {NoTrx}], waiters : Seq(Trx),
         grant : [Trx -> Conn \cup {NoConn}]]

\* to: the transaction a statement is addressed to; via: the one whose data
\* source it was bound to; ran: how it was executed
Statement == [to : Trx \cup {NoTrx}, via : Trx \cup {NoTrx},
              ran : {"unissued", "bound", "tx", "auto", "failed"}]

Init ==
  /\ pc = [t \in Trx |-> "new"]
  /\ isActive = [t \in Trx |-> FALSE]
  /\ released = [t \in Trx |-> FALSE]
  /\ sqlConn = [t \in Trx |-> NoConn]
  /\ call = [t \in Trx |-> [e \in Ender |-> NoCall]]
  /\ pool = [holder |-> [c \in Conn |-> NoTrx], waiters |-> <<>>,
             grant |-> [t \in Trx |-> NoConn]]
  /\ inTx = [c \in Conn |-> FALSE]
  /\ buf = [c \in Conn |-> {}]
  /\ db = {}
  /\ stmt = [s \in Stmt |-> [to |-> NoTrx, via |-> NoTrx, ran |-> "unissued"]]

-----------------------------------------------------------------------------
(* The driver's pool.                                                      *)

\* pg and mysql2 hand out the same client object again and again, so release()
\* ends whatever lease the client has now; an oracledb connection object is
\* the lease itself, and closing it twice is an error.
SharedHandle == Dialect # "oracledb"

Idle == {c \in Conn : pool.holder[c] = NoTrx}

\* Mutant: waiters are never served.
ForgetsWaiters(p, c) == [p EXCEPT !.holder[c] = NoTrx]
\* The lease of c ends: the first waiter, if any, has the connection at once.
Lend(p, c) ==
  IF p.waiters = <<>>
    THEN [p EXCEPT !.holder[c] = NoTrx]
    ELSE [holder |-> [p.holder EXCEPT ![c] = Head(p.waiters)],
          waiters |-> Tail(p.waiters),
          grant |-> [p.grant EXCEPT ![Head(p.waiters)] = c]]

\* Mutant: the connection is not released.
NeverGivesBack(p, t, c) == p

\* One release() or close() by transaction t through its handle on c.
GiveBack(p, t, c) ==
  IF (SharedHandle /\ p.holder[c] # NoTrx) \/ p.holder[c] = t
    THEN Lend(p, c)
    ELSE p

HandleClosed(t) ==
  /\ ~SharedHandle
  /\ sqlConn[t] # NoConn
  /\ pool.holder[sqlConn[t]] # t

-----------------------------------------------------------------------------
(* SqlDataSource.transaction(): clone, getConnection, BEGIN.               *)

\* clone() shares the pool; getConnection() asks it for a connection.
GetConnection(t) ==
  /\ pc[t] = "new"
  /\ pc' = [pc EXCEPT ![t] = "waiting"]
  /\ \/ /\ pool.waiters = <<>>
        /\ \E c \in Idle :
             pool' = [pool EXCEPT !.holder[c] = t, !.grant[t] = c]
     \/ /\ pool.waiters # <<>> \/ Idle = {}
        /\ pool' = [pool EXCEPT !.waiters = Append(@, t)]
  /\ UNCHANGED <<isActive, released, sqlConn, call, serverVars, stmt>>

\* Mutant: BEGIN is sent to the pool.
BeginsOnPool(t) ==
  LET c == pool.grant[t] IN
  /\ pc[t] = "waiting"
  /\ c # NoConn
  /\ pc' = [pc EXCEPT ![t] = "open"]
  /\ isActive' = [isActive EXCEPT ![t] = TRUE]
  /\ sqlConn' = [sqlConn EXCEPT ![t] = c]
  /\ \E d \in Idle \cup {c} : inTx' = [inTx EXCEPT ![d] = TRUE]
  /\ UNCHANGED <<released, call, pool, buf, db, stmt>>

\* The connection arrived and the server accepted BEGIN (and SET TRANSACTION).
\* Nobody else knows the Transaction before transaction() resolves, so the
\* awaits inside it are one step.  A BEGIN on a session that is already in a
\* transaction commits it implicitly on mysql and is a warning on postgres.
Begin(t) ==
  LET c == pool.grant[t] IN
  /\ pc[t] = "waiting"
  /\ c # NoConn
  /\ pc' = [pc EXCEPT ![t] = "open"]
  /\ isActive' = [isActive EXCEPT ![t] = TRUE]
  /\ sqlConn' = [sqlConn EXCEPT ![t] = c]
  /\ inTx' = [inTx EXCEPT ![c] = TRUE]
  /\ IF Dialect = "mysql"
       THEN /\ db' = db \cup buf[c]
            /\ buf' = [buf EXCEPT ![c] = {}]
       ELSE UNCHANGED <<db, buf>>
  /\ UNCHANGED <<released, call, pool, stmt>>

\* BEGIN or the isolation level statement is rejected: transaction() rejects
\* with no handler on the way, and the borrowed connection stays borrowed.
BeginFails(t) ==
  LET c == pool.grant[t] IN
  /\ BeginMayFail
  /\ pc[t] = "waiting"
  /\ c # NoConn
  /\ pc' = [pc EXCEPT ![t] = "failed"]
  /\ sqlConn' = [sqlConn EXCEPT ![t] = c]
  /\ \E begun \in BOOLEAN : inTx' = [inTx EXCEPT ![c] = @ \/ begun]
  /\ UNCHANGED <<isActive, released, call, pool, buf, db, stmt>>

-----------------------------------------------------------------------------
(* Statements addressed to a transaction.                                  *)

\* The asynchronous contexts code that uses t may run in: none, its own
\* callback, and the callback of another transaction of the data source.
Contexts(t) ==
  {NoTrx} \cup (Callback \cap {t})
  \cup (IF CrossContext THEN {x \in Callback : pc[x] = "open"} ELSE {})

\* getTransactionBoundSqlDataSource() ?? this, asked of t's clone in context x
Resolve(t, x) == IF x \in Callback /\ isActive[x] THEN x ELSE t

Started(t) == \E e \in Ender : call[t][e].stage # "idle"

\* Every statement addressed to t has settled.
Quiet(t) == \A s \in Stmt : stmt[s].to = t => stmt[s].ran # "bound"

\* trx.sql.from(...), trx.sql.rawQuery(...): the data source is chosen now,
\* the connection only after ensureConnected() and the observers.
Issue(s, t, x) ==
  /\ stmt[s].ran = "unissued"
  /\ pc[t] = "open"
  /\ Awaited => isActive[t] /\ ~Started(t)
  /\ stmt' = [stmt EXCEPT ![s] = [to |-> t, via |-> Resolve(t, x), ran |-> "bound"]]
  /\ UNCHANGED <<trxVars, call, pool, serverVars>>

\* execSql: conn = sqlConnection ?? getPool(); a pool.query() borrows an idle
\* connection for the one statement.
Target(t) == IF sqlConn[t] # NoConn THEN {sqlConn[t]} ELSE Idle

Execute(s) ==
  LET r == stmt[s].via IN
  /\ stmt[s].ran = "bound"
  /\ \/ /\ ~HandleClosed(r)
        /\ \E c \in Target(r) :
             IF inTx[c]
               THEN /\ buf' = [buf EXCEPT ![c] = @ \cup {s}]
                    /\ stmt' = [stmt EXCEPT ![s].ran = "tx"]
                    /\ UNCHANGED db
               ELSE /\ db' = db \cup {s}
                    /\ stmt' = [stmt EXCEPT ![s].ran = "auto"]
                    /\ UNCHANGED buf
     \/ /\ HandleClosed(r)
        /\ stmt' = [stmt EXCEPT ![s].ran = "failed"]
        /\ UNCHANGED <<buf, db>>
  /\ UNCHANGED <<trxVars, call, pool, inTx>>

-----------------------------------------------------------------------------
(* Transaction.commit() and Transaction.rollback().                        *)

\* Mutant: release() is trusted to roll back.
ForgetsRollback(c, kind, ok) ==
  IF kind = "rollback"
    THEN UNCHANGED serverVars
    ELSE /\ ok \/ EndMayFail
         /\ inTx' = [inTx EXCEPT ![c] = FALSE]
         /\ buf' = [buf EXCEPT ![c] = {}]
         /\ db' = IF ok THEN db \cup buf[c] ELSE db

\* The server ends the transaction of session c.  A rejected COMMIT may have
\* been applied (the answer was lost) or not (the server rolled it back).
\* Oracle has no autocommit mode on a borrowed connection.
ServerEnds(c, kind, ok) ==
  /\ ok \/ EndMayFail
  /\ inTx' = [inTx EXCEPT ![c] = Dialect = "oracledb"]
  /\ buf' = [buf EXCEPT ![c] = {}]
  /\ \/ /\ kind = "commit"
        /\ db' = db \cup buf[c]
     \/ /\ kind = "commit" => ~ok
        /\ UNCHANGED db

\* COMMIT or ROLLBACK is sent.  postgres sends it with rawQuery(), which binds
\* it like any statement; the other drivers call a method of sqlConnection,
\* a TypeError once that is null.
Send(t, e, kind, x) ==
  LET r == IF Dialect = "postgres" THEN Resolve(t, x) ELSE t
      Sent(ok) == call' = [call EXCEPT ![t][e] =
                    [stage |-> "sent", kind |-> kind, ok |-> ok, relErr |-> FALSE]]
  IN \/ /\ ~HandleClosed(r)
        /\ sqlConn[r] # NoConn \/ Dialect = "postgres"
        /\ \E c \in Target(r), ok \in BOOLEAN : ServerEnds(c, kind, ok) /\ Sent(ok)
     \/ /\ HandleClosed(r) \/ (sqlConn[r] = NoConn /\ Dialect # "postgres")
        /\ Sent(FALSE)
        /\ UNCHANGED serverVars

\* An application task calls commit() or rollback() (or the callback settles).
End(t, e, kind, x) ==
  /\ pc[t] = "open"
  /\ call[t][e].stage = "idle"
  /\ Awaited => Quiet(t)
  /\ \/ /\ isActive[t]
        /\ Send(t, e, kind, x)
     \/ /\ ~isActive[t]
        /\ call' = [call EXCEPT ![t][e] = [@ EXCEPT !.stage = "ignored", !.kind = kind]]
        /\ UNCHANGED serverVars
  /\ UNCHANGED <<trxVars, pool, stmt>>

\* Callback form: a rejected commit() reaches the catch, which rolls back if
\* the transaction still says it is active, and rethrows.
CatchRollsBack(t, e) ==
  /\ t \in Callback
  /\ call[t][e].stage = "rejected"
  /\ call[t][e].kind = "commit"
  /\ \/ /\ isActive[t]
        /\ Send(t, e, "rollback", NoTrx)
     \/ /\ ~isActive[t]
        /\ call' = [call EXCEPT ![t][e] = [@ EXCEPT !.kind = "rollback"]]
        /\ UNCHANGED serverVars
  /\ UNCHANGED <<trxVars, pool, stmt>>

\* Mutant: the clone keeps the released connection.
KeepsConnection(t) == UNCHANGED sqlConn

\* disconnect() of the borrowed clone forgets the connection it ran on.
DropConnection(t) == sqlConn' = [sqlConn EXCEPT ![t] = NoConn]

\* The finally block up to its first await: releaseConnection() gives the
\* connection back and, on pg and mysql2 where that is synchronous, goes on to
\* disconnect() of the borrowed clone, which gives it back once more.
Release(t, e) ==
  LET c == sqlConn[t]
      Goes(stage, relErr) ==
        call' = [call EXCEPT ![t][e] = [@ EXCEPT !.stage = stage, !.relErr = relErr]]
  IN
  /\ call[t][e].stage = "sent"
  /\ \/ /\ released[t]
        /\ Goes("clearing", FALSE)
        /\ UNCHANGED <<pool, sqlConn, inTx, buf>>
     \/ /\ ~released[t]
        /\ c = NoConn
        /\ Goes("released", TRUE)
        /\ UNCHANGED <<pool, sqlConn, inTx, buf>>
     \/ /\ ~released[t]
        /\ c # NoConn
        /\ SharedHandle
        /\ pool' = GiveBack(GiveBack(pool, t, c), t, c)
        /\ DropConnection(t)
        /\ \E fails \in BOOLEAN :
             /\ fails => ReleaseMayFail
             /\ Goes("released",
                     fails \/ (Dialect = "postgres" /\ pool.holder[c] = NoTrx))
        /\ UNCHANGED <<inTx, buf>>
     \/ /\ ~released[t]
        /\ c # NoConn
        /\ ~SharedHandle
        /\ \E fails \in BOOLEAN :
             /\ fails => ReleaseMayFail
             /\ Goes("closing", fails \/ HandleClosed(t))
        /\ pool' = GiveBack(pool, t, c)
        /\ IF HandleClosed(t)
             THEN UNCHANGED <<inTx, buf>>
             ELSE /\ inTx' = [inTx EXCEPT ![c] = FALSE]
                  /\ buf' = [buf EXCEPT ![c] = {}]
        /\ UNCHANGED sqlConn
  /\ UNCHANGED <<pc, isActive, released, db, stmt>>

\* oracledb: close() settled; disconnect() closes the dead handle again, which
\* is logged, and drops it.
Closed(t, e) ==
  /\ call[t][e].stage = "closing"
  /\ call' = [call EXCEPT ![t][e] = [@ EXCEPT !.stage = "released"]]
  /\ DropConnection(t)
  /\ UNCHANGED <<pc, isActive, released, pool, serverVars, stmt>>

\* Mutant: connectionReleased is not set.
ForgetsMark(t, e) ==
  /\ call[t][e].stage = "released"
  /\ DropConnection(t)
  /\ call' = [call EXCEPT ![t][e] = [@ EXCEPT !.stage = "clearing"]]
  /\ UNCHANGED <<pc, isActive, released, pool, serverVars, stmt>>

\* releaseConnection() after disconnect(): it rethrows the release error, and
\* the finally block of commit() then never reaches isActive = false.
MarkReleased(t, e) ==
  /\ call[t][e].stage = "released"
  /\ DropConnection(t)
  /\ released' = [released EXCEPT ![t] = TRUE]
  /\ call' = [call EXCEPT ![t][e] = [@ EXCEPT !.stage =
                IF call[t][e].relErr THEN "rejected" ELSE "clearing"]]
  /\ UNCHANGED <<pc, isActive, pool, serverVars, stmt>>

\* Mutant: a rejected command is swallowed.
SwallowsRejection(t, e) ==
  /\ call[t][e].stage = "clearing"
  /\ isActive' = [isActive EXCEPT ![t] = FALSE]
  /\ call' = [call EXCEPT ![t][e] = [@ EXCEPT !.stage = "resolved"]]
  /\ UNCHANGED <<pc, released, sqlConn, pool, serverVars, stmt>>

\* isActive = false, and the call settles as its command did.
Clear(t, e) ==
  /\ call[t][e].stage = "clearing"
  /\ isActive' = [isActive EXCEPT ![t] = FALSE]
  /\ call' = [call EXCEPT ![t][e] = [@ EXCEPT !.stage =
                IF call[t][e].ok THEN "resolved" ELSE "rejected"]]
  /\ UNCHANGED <<pc, released, sqlConn, pool, serverVars, stmt>>

-----------------------------------------------------------------------------
Next ==
  \/ \E t \in Trx : GetConnection(t) \/ Begin(t) \/ BeginFails(t)
  \/ \E s \in Stmt, t \in Trx : \E x \in Contexts(t) : Issue(s, t, x)
  \/ \E s \in Stmt : Execute(s)
  \/ \E t \in Trx, e \in Ender, kind \in {"commit", "rollback"} :
       \E x \in Contexts(t) : End(t, e, kind, x)
  \/ \E t \in Trx, e \in Ender :
       \/ CatchRollsBack(t, e)
       \/ Release(t, e)
       \/ Closed(t, e)
       \/ MarkReleased(t, e)
       \/ Clear(t, e)

Spec == Init /\ [][Next]_vars

\* The event loop runs every continuation that is ready, the server answers,
\* and the application ends each transaction it was given.
Fairness ==
  /\ \A t \in Trx : WF_vars(GetConnection(t)) /\ WF_vars(Begin(t))
  /\ \A s \in Stmt : WF_vars(Execute(s))
  /\ \A t \in Trx : WF_vars(\E e \in Ender, kind \in {"commit", "rollback"} :
                              \E x \in Contexts(t) : End(t, e, kind, x))
  /\ \A t \in Trx, e \in Ender :
       WF_vars(CatchRollsBack(t, e) \/ Release(t, e) \/ Closed(t, e)
               \/ MarkReleased(t, e) \/ Clear(t, e))

FairSpec == Spec /\ Fairness
-----------------------------------------------------------------------------
(* Properties.                                                             *)

\* The shape of every variable; a call settles in one of the stages above.
TypeOK ==
  /\ pc \in [Trx -> {"new", "waiting", "open", "failed"}]
  /\ isActive \in [Trx -> BOOLEAN]
  /\ released \in [Trx -> BOOLEAN]
  /\ sqlConn \in [Trx -> Conn \cup {NoConn}]
  /\ call \in [Trx -> [Ender -> Call]]
  /\ pool \in Pool
  /\ inTx \in [Conn -> BOOLEAN]
  /\ buf \in [Conn -> SUBSET Stmt]
  /\ db \subseteq Stmt
  /\ stmt \in [Stmt -> Statement]

\* The writes addressed to t that were sent.
Writes(t) == {s \in Stmt : stmt[s].to = t /\ stmt[s].ran # "unissued"}

Holds(t) == sqlConn[t] # NoConn /\ ~HandleClosed(t)

\* "Starts a transaction on a dedicated connection from the pool": no two
\* transactions hold a live handle on one connection.
Dedicated ==
  \A t1, t2 \in Trx :
    t1 # t2 /\ Holds(t1) /\ Holds(t2) => sqlConn[t1] # sqlConn[t2]

\* A connection the pool may hand out is never inside a transaction and never
\* carries somebody's uncommitted writes.
CleanPool == \A c \in Idle : ~inTx[c] /\ buf[c] = {}

\* A transaction that was ended leases no connection any more, whichever of its
\* concurrent commit() and rollback() calls gave the connection back.
NoLeak == \A t \in Trx : released[t] => \A c \in Conn : pool.holder[c] # t

\* Every statement addressed to a transaction runs inside that transaction.
InsideTransaction ==
  \A s \in Stmt :
    /\ stmt[s].via = stmt[s].to
    /\ stmt[s].ran # "auto"

\* What commit() and rollback() answer is what happened: the resolved commit()
\* persisted every write, the resolved rollback() none of them.  Of two calls
\* under way at once only the first one to reach the server says so.  When all
\* calls have settled and one of them did something, the transaction is inactive
\* (I10, F008, F009).
AnswerIsTrue ==
  \A t \in Trx :
    /\ \A e \in Ender :
         /\ call[t][e].stage = "resolved"
         /\ \A f \in Ender \ {e} : call[t][f].stage \in {"idle", "ignored"}
         =>
           IF call[t][e].kind = "commit" THEN Writes(t) \subseteq db
                                         ELSE Writes(t) \cap db = {}
    /\ /\ \A e \in Ender : call[t][e].stage \in {"idle", "resolved", "rejected", "ignored"}
       /\ \E e \in Ender : call[t][e].stage \in {"resolved", "rejected"}
       => ~isActive[t]

\* What an ended transaction left in the database is never changed by a late
\* call on it, nor by whoever uses its connection next.
OutcomeIsFinal ==
  [][\A t \in Trx : released[t] => Writes(t)' \cap db' = Writes(t) \cap db]_vars

\* Everyone who asks the pool for a connection eventually gets one.
EventuallyServed ==
  \A t \in Trx : pc[t] = "waiting" ~> pc[t] # "waiting"

\* Every transaction that was opened ends, inactive and without its connection.
EventuallyEnded ==
  \A t \in Trx : pc[t] = "open" ~> released[t] /\ ~isActive[t] /\ sqlConn[t] = NoConn

-----------------------------------------------------------------------------
(* The inductive invariants behind Dedicated, NoLeak and CleanPool.        *)

\* No transaction() call waits for a connection of a driver whose release()
\* acts on the client rather than on the lease.
NoQueue == SharedHandle => pool.waiters = <<>>

\* The connection t was given and has not dropped.
Borrowed(t) == IF pc[t] = "waiting" THEN pool.grant[t] ELSE sqlConn[t]

\* What a clone holds, the pool has leased to it; before BEGIN it holds nothing,
\* and only an opened transaction is ever ended.
ClonesLease ==
  \A t \in Trx :
    /\ pc[t] = "new" => pool.grant[t] = NoConn
    /\ pc[t] \in {"new", "waiting"} => sqlConn[t] = NoConn
    /\ pc[t] = "waiting" /\ pool.grant[t] # NoConn => pool.holder[pool.grant[t]] = t
    /\ SharedHandle /\ sqlConn[t] # NoConn => pool.holder[sqlConn[t]] = t
    /\ pc[t] # "open" => ~released[t] /\ \A e \in Ender : call[t][e].stage = "idle"

\* What the pool has leased to a transaction, the transaction holds.
LeasesHeld ==
  \A c \in Conn : pool.holder[c] # NoTrx => Borrowed(pool.holder[c]) = c

\* Who waits is waiting for the first time, once, and holds nothing.
WaitersHoldNothing ==
  /\ \A i \in 1..Len(pool.waiters) :
       /\ pc[pool.waiters[i]] = "waiting"
       /\ pool.grant[pool.waiters[i]] = NoConn
  /\ \A i, j \in 1..Len(pool.waiters) : pool.waiters[i] = pool.waiters[j] => i = j

\* A lease that was given back is over, also while the call that gave it back
\* has not recorded that yet.
GivenBackForGood ==
  \A t \in Trx, c \in Conn :
    \/ released[t]
    \/ \E e \in Ender : call[t][e].stage \in {"closing", "released"}
    => pool.holder[c] # t

\* What transactions hold and what the pool of transaction() lent agree.
LeaseInv == ClonesLease /\ LeasesHeld /\ WaitersHoldNothing /\ GivenBackForGood

\* A session is in a transaction, or carries uncommitted writes, only while it
\* is leased; and once commit() or rollback() has its answer it is out of it.
SessionInv ==
  /\ \A c \in Conn :
       /\ inTx[c] => pool.holder[c] # NoTrx
       /\ buf[c] # {} => inTx[c]
  /\ \A t \in Trx, e \in Ender :
       SharedHandle /\ call[t][e].stage = "sent" /\ sqlConn[t] # NoConn
         => ~inTx[sqlConn[t]]
=============================================================================
