----------------------------- MODULE Migrations -----------------------------
(***************************************************************************)
(* Processes that run the migration commands of the CLI on one database:   *)
(* the advisory lock around a command, the table of migrations, the        *)
(* transaction of a transactional run, and the statements of the           *)
(* migrations, any of which may be rejected; a process may die anywhere.   *)
(*                                                                         *)
(* Migrations are numbered in the order of their files.  The database is a *)
(* set of items: <<m, 0>> is the row of m in the migration table, <<m, i>> *)
(* the effect of the i-th statement of m.  The statements of a pool run on *)
(* whichever of its connections is free.                                   *)
(***************************************************************************)
EXTENDS Naturals, Sequences, FiniteSets

CONSTANTS
  Proc,       \* processes, each with a data source of its own
  FileCount,  \* the number of migration files
  Steps,      \* statements per migration
  PoolSize,   \* connections a data source may open
  Dialects,   \* the databases considered
  Overlap,    \* a ClientMigrator runs while another process is at work
  NoLock

ASSUME MigrationsAssumption ==
  /\ {FileCount, Steps, PoolSize} \subseteq Nat \ {0}
  /\ Dialects \subseteq {"postgres", "mysql"}
  /\ Overlap \in BOOLEAN
  /\ NoLock \notin Proc \X (1 .. PoolSize)

VARIABLES
  dialect,
  db,      \* the committed items
  lock,    \* the session that holds the advisory lock: a process and a connection
  pc,      \* where each process stands
  cmd,     \* what each process was asked to do: the phases left, until where, transactional
  todo,    \* the migrations left in the phase under way
  step,    \* the statements of the first of them that ran
  tx,      \* the transaction of a transactional run
  stray,   \* the connection each process keeps out of its pool after a rejected BEGIN
  before,  \* the committed items when the phase began
  cut      \* the migrations somebody failed or died at

vars == <<dialect, db, lock, pc, cmd, todo, step, tx, stray, before, cut>>

File == 1 .. FileCount
Connection == 1 .. PoolSize
Items == File \X (0 .. Steps)
Rows(items) == {m \in File : <<m, 0>> \in items}

\* bound: the Migrator runs its statements on the transaction's connection;
\* over: the server has committed the transaction by itself
NoTx == [open |-> FALSE, bound |-> FALSE, over |-> FALSE, conn |-> 0,
         add |-> {}, del |-> {}]

NoCommand == [cli |-> FALSE, phases |-> <<>>, until |-> 0, transactional |-> FALSE]

Stages == {"idle", "locking", "reading", "dropping", "beginning", "working",
           "hooking", "committing", "rollingback", "unlocking", "closing",
           "done", "dead"}

Init ==
  /\ dialect \in Dialects
  /\ \E m \in 0 .. FileCount : db = (1 .. m) \X (0 .. Steps)
  /\ lock = NoLock
  /\ pc = [p \in Proc |-> "idle"]
  /\ cmd = [p \in Proc |-> NoCommand]
  /\ todo = [p \in Proc |-> {}]
  /\ step = [p \in Proc |-> 0]
  /\ tx = [p \in Proc |-> NoTx]
  /\ stray = [p \in Proc |-> 0]
  /\ before = [p \in Proc |-> {}]
  /\ cut = {}

-----------------------------------------------------------------------------
\* A command is over, its variables are gone.
Forget(p) ==
  /\ cmd' = [cmd EXCEPT ![p] = NoCommand]
  /\ todo' = [todo EXCEPT ![p] = {}]
  /\ step' = [step EXCEPT ![p] = 0]
  /\ before' = [before EXCEPT ![p] = {}]
  /\ tx' = [tx EXCEPT ![p] = NoTx]

Goto(p, stage) == pc' = [pc EXCEPT ![p] = stage]

Direction(p) == Head(cmd[p].phases)

\* Mutant: rollback takes the migrations in the order of their files.
ForwardOnly(p) == {m \in todo[p] : \A n \in todo[p] : m <= n}

\* The migration a process is at: runs take them in the order of their files,
\* rollbacks in the opposite order.
At(p) ==
  {m \in todo[p] :
     \A n \in todo[p] : IF Direction(p) = "up" THEN m <= n ELSE n <= m}

Over(p) == pc[p] \in {"idle", "closing", "done", "dead"}

\* Only an overlapping application runs a ClientMigrator while others are at work.
MayRun(cli) == Overlap \/ \A p \in Proc : Over(p) \/ (cli /\ cmd[p].cli)

\* A command is entered: its phases, the migration it names if any, and whether
\* it is transactional.
Starts(p, cli, phases, untils) ==
  /\ pc[p] = "idle"
  /\ MayRun(cli)
  /\ \E until \in untils, transactional \in BOOLEAN :
       cmd' = [cmd EXCEPT ![p] = [cli |-> cli, phases |-> phases, until |-> until,
                                  transactional |-> transactional]]
  /\ Goto(p, IF cli THEN "locking" ELSE "reading")
  /\ UNCHANGED <<dialect, db, lock, todo, step, tx, stray, before, cut>>

Migrate(p) == Starts(p, TRUE, <<"up">>, 0 .. FileCount)

RollbackCommand(p) == Starts(p, TRUE, <<"down">>, 0 .. FileCount)

Refresh(p) ==
  \/ Starts(p, TRUE, <<"down", "up">>, {0})
  \/ Starts(p, TRUE, <<"drop", "up">>, {0})

\* up() and down() of a ClientMigrator take no lock.
ClientMigrate(p) ==
  \E direction \in {"up", "down"} : Starts(p, FALSE, <<direction>>, {0})

\* Mutant: what acquireLock() answers is not looked at.
LockAnyway(p) ==
  /\ pc[p] = "locking"
  /\ lock' = IF lock = NoLock THEN <<p, 1>> ELSE lock
  /\ Goto(p, "reading")
  /\ UNCHANGED <<dialect, db, cmd, todo, step, tx, stray, before, cut>>

\* acquireLock(): the session it happens to run on holds the lock; it answers
\* false if another session does, for too long where it waits, or on any error.
Lock(p) ==
  /\ pc[p] = "locking"
  /\ \/ /\ lock = NoLock
        /\ \E c \in Connection : lock' = <<p, c>>
        /\ Goto(p, "reading")
     \/ /\ Goto(p, "closing")
        /\ UNCHANGED lock
  /\ UNCHANGED <<dialect, db, cmd, todo, step, tx, stray, before, cut>>

-----------------------------------------------------------------------------
(* runMigrationsConnector() and rollbackMigrationsConnector().             *)

\* An error: a transaction is rolled back, the command ends.
Throw(p) ==
  /\ Goto(p, IF tx[p].open THEN "rollingback" ELSE "unlocking")
  /\ cut' = cut \cup At(p)

\* A phase is over: refresh goes on with the next one.
PhaseEnds(p) ==
  /\ cmd' = [cmd EXCEPT ![p].phases = Tail(@)]
  /\ Goto(p, IF Tail(cmd[p].phases) # <<>> THEN "reading" ELSE "unlocking")

\* The migrations of a run: those without a row, up to the one named; of a
\* rollback: those with one, down to the one named.
Plan(p) ==
  LET until == cmd[p].until
  IN IF Direction(p) = "up" THEN {m \in File \ Rows(db) : until = 0 \/ m <= until}
                            ELSE {m \in Rows(db) : until <= m}

\* A named migration must be among the pending ones.
Named(p) == cmd[p].until \in {0} \cup Plan(p)

\* The migration table is created if need be and read, before any transaction.
Read(p) ==
  /\ pc[p] = "reading"
  /\ Direction(p) # "drop"
  /\ \/ /\ Plan(p) = {} \/ ~Named(p)
        /\ PhaseEnds(p)
        /\ UNCHANGED <<todo, step, before, cut>>
     \/ /\ Plan(p) # {} /\ Named(p)
        /\ todo' = [todo EXCEPT ![p] = Plan(p)]
        /\ step' = [step EXCEPT ![p] = 0]
        /\ before' = [before EXCEPT ![p] = db]
        /\ Goto(p, IF cmd[p].transactional THEN "beginning" ELSE "working")
        /\ UNCHANGED <<cmd, cut>>
     \/ /\ Throw(p)
        /\ UNCHANGED <<cmd, todo, step, before>>
  /\ UNCHANGED <<dialect, db, lock, tx, stray>>

\* `refresh --force` lists the tables, and drops the listed ones and with them
\* the migration table in one statement.
List(p) ==
  /\ pc[p] = "reading"
  /\ Direction(p) = "drop"
  /\ before' = [before EXCEPT ![p] = db]
  /\ Goto(p, "dropping")
  /\ UNCHANGED <<dialect, db, lock, cmd, todo, step, tx, stray, cut>>

Drop(p) ==
  /\ pc[p] = "dropping"
  /\ \/ /\ db' = {i \in db : i[2] # 0 /\ i \notin before[p]}
        /\ PhaseEnds(p)
        /\ UNCHANGED cut
     \/ /\ Throw(p)
        /\ UNCHANGED <<db, cmd>>
  /\ UNCHANGED <<dialect, lock, todo, step, tx, stray, before>>

\* Mutant: the Migrator of a named run, too, keeps the data source outside.
BeginUnbound(p) ==
  /\ pc[p] = "beginning"
  /\ \E c \in Connection :
       tx' = [tx EXCEPT ![p] = [NoTx EXCEPT !.open = TRUE, !.conn = c]]
  /\ Goto(p, "working")
  /\ UNCHANGED <<dialect, db, lock, cmd, todo, step, stray, before, cut>>

\* The Migrator is given the transaction's data source only if a migration was
\* named, else the one outside.  A connection whose BEGIN is rejected is given back
\* by nobody; one that could not be had is no loss.
Begin(p) ==
  /\ pc[p] = "beginning"
  /\ \/ /\ \E c \in Connection, bound \in BOOLEAN :
             /\ bound <=> cmd[p].until # 0
             /\ tx' = [tx EXCEPT ![p] = [NoTx EXCEPT !.open = TRUE, !.conn = c,
                                           !.bound = bound]]
        /\ Goto(p, "working")
        /\ UNCHANGED <<stray, cut>>
     \/ /\ \E c \in {0} \cup Connection : stray' = [stray EXCEPT ![p] = c]
        /\ Throw(p)
        /\ UNCHANGED tx
  /\ UNCHANGED <<dialect, db, lock, cmd, todo, step, before>>

\* What the statements of a process see.
View(p) == (db \cup tx[p].add) \ tx[p].del

\* A connection that is not the transaction's is free.
HasConnection(p) == tx[p].bound \/ \E c \in Connection : tx[p].open => c # tx[p].conn

\* The item appears, or disappears on the way down.
Write(p, item) ==
  IF tx[p].bound /\ ~tx[p].over
    THEN /\ tx' = IF Direction(p) = "up"
                    THEN [tx EXCEPT ![p].add = @ \cup {item}, ![p].del = @ \ {item}]
                    ELSE [tx EXCEPT ![p].del = @ \cup {item}, ![p].add = @ \ {item}]
         /\ UNCHANGED db
    ELSE /\ db' = IF Direction(p) = "up" THEN db \cup {item} ELSE db \ {item}
         /\ UNCHANGED tx

\* mysql commits the transaction before a statement that changes the schema, and
\* runs it and what follows in autocommit mode.
WriteSchema(p, item) ==
  IF tx[p].bound /\ dialect = "mysql"
    THEN /\ db' = IF Direction(p) = "up" THEN View(p) \cup {item} ELSE View(p) \ {item}
         /\ tx' = [tx EXCEPT ![p].over = TRUE, ![p].add = {}, ![p].del = {}]
    ELSE Write(p, item)

\* The statement an up or a down migration runs next.
NextItem(p, m) ==
  <<m, IF Direction(p) = "up" THEN step[p] + 1 ELSE Steps - step[p]>>

\* Mutant: a rejected statement is logged and skipped.
SkipsRejected(p) ==
  /\ pc[p] = "working"
  /\ step[p] < Steps
  /\ HasConnection(p)
  /\ \/ \E m \in At(p) : WriteSchema(p, NextItem(p, m))
     \/ UNCHANGED <<db, tx>>
  /\ step' = [step EXCEPT ![p] = @ + 1]
  /\ UNCHANGED <<pc, cut, dialect, lock, cmd, todo, stray, before>>

\* The next statement of the migration; one that was run already, or was undone
\* already, is rejected, and so may any other be.
Statement(p) ==
  /\ pc[p] = "working"
  /\ step[p] < Steps
  /\ HasConnection(p)
  /\ \/ /\ \E m \in At(p) :
             /\ (NextItem(p, m) \in View(p)) = (Direction(p) = "down")
             /\ WriteSchema(p, NextItem(p, m))
        /\ step' = [step EXCEPT ![p] = @ + 1]
        /\ UNCHANGED <<pc, cut>>
     \/ /\ Throw(p)
        /\ UNCHANGED <<db, tx, step>>
  /\ UNCHANGED <<dialect, lock, cmd, todo, stray, before>>

\* The row of the migration is inserted, or deleted.
Record(p) ==
  /\ pc[p] = "working"
  /\ step[p] = Steps
  /\ HasConnection(p)
  /\ \/ /\ \E m \in At(p) : Write(p, <<m, 0>>)
        /\ Goto(p, "hooking")
        /\ UNCHANGED cut
     \/ /\ Throw(p)
        /\ UNCHANGED <<db, tx>>
  /\ UNCHANGED <<dialect, lock, cmd, todo, step, stray, before>>

\* afterMigration() of the migration, then the next one.
Hook(p) ==
  /\ pc[p] = "hooking"
  /\ \/ /\ todo' = [todo EXCEPT ![p] = @ \ At(p)]
        /\ step' = [step EXCEPT ![p] = 0]
        /\ IF todo[p] # At(p)
             THEN Goto(p, "working") /\ UNCHANGED cmd
             ELSE IF tx[p].open THEN Goto(p, "committing") /\ UNCHANGED cmd
                                ELSE PhaseEnds(p)
        /\ UNCHANGED cut
     \/ /\ Throw(p)
        /\ UNCHANGED <<cmd, todo, step>>
  /\ UNCHANGED <<dialect, db, lock, tx, stray, before>>

Commit(p) ==
  /\ pc[p] = "committing"
  /\ \/ /\ db' = View(p)
        /\ PhaseEnds(p)
        /\ UNCHANGED cut
     \/ /\ Throw(p)
        /\ UNCHANGED <<db, cmd>>
  /\ tx' = [tx EXCEPT ![p] = IF pc'[p] = "rollingback" THEN @ ELSE NoTx]
  /\ UNCHANGED <<dialect, lock, todo, step, stray, before>>

Rollback(p) ==
  /\ pc[p] = "rollingback"
  /\ tx' = [tx EXCEPT ![p] = NoTx]
  /\ Goto(p, "unlocking")
  /\ UNCHANGED <<dialect, db, lock, cmd, todo, step, stray, before, cut>>

-----------------------------------------------------------------------------
\* releaseLock() runs on whatever session is in the pool: it only frees a lock that
\* session holds, and answers false otherwise, which the CLI logs.  A ClientMigrator
\* is done.
Unlock(p) ==
  /\ pc[p] = "unlocking"
  /\ \E c \in Connection \ {stray[p]} : lock' = IF lock = <<p, c>> THEN NoLock ELSE lock
  /\ Goto(p, IF cmd[p].cli THEN "closing" ELSE "done")
  /\ Forget(p)
  /\ UNCHANGED <<dialect, db, stray, cut>>

\* The sessions of a process are gone, and what they held with them.
Freed(p) == IF \E c \in Connection : lock = <<p, c>> THEN NoLock ELSE lock

\* pool.end() of pg waits for the connection that is out, for ever.
Hangs(p) == dialect = "postgres" /\ stray[p] # 0

\* Mutant: the process leaves its pool open.
CloseNothing(p) ==
  /\ pc[p] = "closing"
  /\ Goto(p, "done")
  /\ UNCHANGED <<dialect, db, lock, cmd, todo, step, tx, stray, before, cut>>

\* disconnect() of the finally block ends the sessions of the pool: on mysql every
\* one, on postgres those in the pool, and it waits for one that is out.
Close(p) ==
  /\ pc[p] = "closing"
  /\ lock' = IF Hangs(p) /\ lock = <<p, stray[p]>> THEN lock ELSE Freed(p)
  /\ Goto(p, IF Hangs(p) THEN "closing" ELSE "done")
  /\ UNCHANGED <<dialect, db, cmd, todo, step, tx, stray, before, cut>>

\* The process dies: the server rolls its transaction back.
Crash(p) ==
  /\ pc[p] \notin {"idle", "done", "dead"}
  /\ Goto(p, "dead")
  /\ lock' = Freed(p)
  /\ cut' = cut \cup At(p)
  /\ stray' = [stray EXCEPT ![p] = 0]
  /\ Forget(p)
  /\ UNCHANGED <<dialect, db>>

Continue(p) ==
  \/ Lock(p) \/ Read(p) \/ List(p) \/ Drop(p) \/ Begin(p) \/ Statement(p)
  \/ Record(p) \/ Hook(p) \/ Commit(p) \/ Rollback(p) \/ Unlock(p) \/ Close(p)

Next ==
  \E p \in Proc :
    \/ Migrate(p) \/ RollbackCommand(p) \/ Refresh(p) \/ ClientMigrate(p)
    \/ Continue(p) \/ Crash(p)

Spec == Init /\ [][Next]_vars

\* A process that was started goes on: the server and the pool answer.
FairSpec == Spec /\ \A p \in Proc : WF_vars(Continue(p))

-----------------------------------------------------------------------------
(* Properties.                                                             *)

\* The shape of every variable.
TypeOK ==
  /\ dialect \in Dialects
  /\ db \subseteq Items
  /\ lock \in (Proc \X Connection) \cup {NoLock}
  /\ pc \in [Proc -> Stages]
  /\ cmd \in [Proc -> [cli : BOOLEAN, phases : Seq({"up", "down", "drop"}),
                       until : 0 .. FileCount, transactional : BOOLEAN]]
  /\ todo \in [Proc -> SUBSET File]
  /\ step \in [Proc -> 0 .. Steps]
  /\ tx \in [Proc -> [open : BOOLEAN, bound : BOOLEAN, over : BOOLEAN, conn : 0 .. PoolSize,
                      add : SUBSET Items, del : SUBSET Items]]
  /\ stray \in [Proc -> {0} \cup Connection]
  /\ before \in [Proc -> SUBSET Items]
  /\ cut \subseteq File

\* Between the two lock statements.
Exclusive(p) ==
  cmd[p].cli /\ pc[p] \notin {"idle", "locking", "closing", "done", "dead"}

\* "Acquire advisory lock before running migrations to prevent concurrent
\* execution": whichever sessions lock and unlock run on, no two locked commands
\* are at work at once.
OneAtATime ==
  \A p, q \in Proc : Exclusive(p) /\ Exclusive(q) => p = q

\* The migrations with a row are the first files, in order: whatever fails or
\* dies, a migration is never recorded before an earlier one nor undone after it.
PrefixRecorded ==
  \E m \in 0 .. FileCount : Rows(db) = 1 .. m

\* A migration with a row has all of its statements in the schema, one without a
\* row none, but for those a process is at, or was at when it failed or died.
BooksAgree ==
  \A m \in File :
    \/ \A i \in 0 .. Steps : <<m, i>> \in db
    \/ \A i \in 0 .. Steps : <<m, i>> \notin db
    \/ m \in cut \/ \E p \in Proc : m \in At(p)

\* A run or rollback with a named migration that fails in its transaction leaves
\* the database as it found it.
FailureUndone ==
  \A p \in Proc :
    pc[p] = "rollingback" /\ cmd[p].until # 0 /\ dialect = "postgres" => db = before[p]

\* "Runs all the pending migrations in a single transaction, only applies to
\* postgres": a transactional run that fails leaves the database as it found it.
SingleTransaction ==
  \A p \in Proc : pc[p] = "rollingback" /\ dialect = "postgres" => db = before[p]

\* Whichever connection the unlock runs on, and whatever fails or dies, the
\* advisory lock becomes free again; but where BEGIN was rejected on postgres on the
\* very session that holds it, which no disconnect() ends.
LockIsFreed ==
  lock # NoLock ~> \/ lock = NoLock
                   \/ \E p \in Proc : Hangs(p) /\ lock = <<p, stray[p]>>
=============================================================================
