# Formal models of hysteria-orm

TLA+ models of the parts of hysteria-orm whose correctness depends on ordering,
concurrency and failure, the TLC configurations that check them, and TLAPS
proofs of what matters most. Paths below are relative to the repository root
(`src/sql/...`); PROJECT.json names the exact lines behind each definition.

## 1. The system

hysteria-orm is a TypeScript ORM. A process holds one or more `SqlDataSource`
objects; each owns a driver pool and hands statements to it. Everything runs on
one event loop: code between two `await`s is atomic, and everything awaited can
interleave with every other asynchronous task of the process.

| Component | State it keeps | Operations | Hard part | What makes it correct |
|---|---|---|---|---|
| Connection lifecycle (`sql_data_source.ts` connect, ensureConnected, disconnect, clone) | `sqlPool`, `ownsPool`, `sqlConnection`, `connecting`, the replicas' pools | connect, ensureConnected (lazy), disconnect, useConnection | replica failure half way, concurrent connect/disconnect | a failed connect leaves a clean slate, one pool per data source, no pool is orphaned |
| Top-level transactions (`transactions/transaction.ts`, `SqlDataSource.transaction`) | `isActive`, `connectionReleased`, the clone's `sqlConnection` | transaction, commit, rollback, releaseConnection | concurrent ends, rejected commands, double release, queued callers | one connection per transaction, returned once and clean; answers tell the truth |
| Nested transactions (`nestedTransaction`, `@atomic`) | the savepoint stack of one connection | nestedTransaction, commit, rollback, callback form, atomic | sibling scopes overlap under `Promise.all` | rolling a scope back undoes that scope only |
| Global transaction (`startGlobalTransaction` ...) | `globalTransaction`, `globalTransactionLock` | start, commit, rollback, disconnect | start/commit/rollback interleave | at most one, never leaked, never orphaned |
| Asynchronous context (`transaction_context.ts`) | AsyncLocalStorage binding | run, getTransaction | statements rebind to the ambient transaction | a statement runs where it was addressed |
| SQL runner (`sql_runner/`) | a stream, the connection it borrowed, retry counter | execSql, execSqlStreaming, withRetry | errors and early destroy of a stream, retry of an asynchronous failure | a borrowed connection is returned exactly once |
| Query builders and model managers (`query_builder/`, `models/`) | the AST of a query, relation trees | many, stream, chunk, paginate, insert, update, upsert, relations | reads routed to replicas, paging while rows change, relation loading | what is read back is what was written |
| AST parser and interpreters (`ast/`, `interpreter/`) | node lists, binding index | parse, toSql | numbering of bindings across sub-queries | every placeholder has its value, in order |
| Replication (`getSlave`, `executeOnSlave`) | `roundRobinIndex`, replicas | read routing, failure callback | failover to the master | a read is answered once, by a live source |
| Cache (`src/cache`, `useCache`, `invalidCache`) | key store, timers | useCache, invalidCache, invalidateAllCache | fill races with invalidation, timers of overwritten keys | a cached value is not older than the last invalidation |
| Advisory locks (`acquireLock`, `releaseLock`) | session locks of the server | acquireLock, releaseLock | the lock belongs to a pool connection | mutual exclusion, and the holder can release |
| Migrations (`migrations/migrator.ts`, `cli/migration_*`) | migration table, applied schema | up, down, lock, transactional | one migration of several fails, crash between apply and record | the table says what was applied |
| Schema builder (`migrations/schema/`) | queued DDL operations | create, alter, drop | order of operations | DDL runs in the order written |
| Schema diff and generation (`schema_diff/`) | metadata of models and database | diff, generate, drop order | dependencies among drops | a drop never precedes what depends on it |
| Observers (`observers/`) | a chain | notifyBefore, notifyAfter | errors in an observer | an observer never changes a query's outcome |
| Models and decorators (`models/decorators`, `define_model`) | column and relation metadata | decorators | inheritance of metadata | a subclass does not change its parent |
| Serializer (`serializer.ts`) | none | parseDatabaseDataIntoModelResponse | casing, aliases | every selected column appears once |
| Mongo data source (`no_sql/mongo`) | client, session | query builder, transactions | session lifecycle | a session is ended once |
| Redis data source (`no_sql/redis`) | client | key, list, set, pub/sub operations | connect races | one client |
| CLI (`cli.ts`, `cli/`) | process | migrate, rollback, seed, generate | lock and transaction around migrations | exit releases the lock |
| AdminJS, OpenAPI, code templates, drivers, env, logging | none of their own | adapters | - | - |

Interactions: `SqlDataSource.transaction()` clones the data source (sharing the
pool), lends the clone a connection and wraps it in a `Transaction`; every
statement asks `getTransactionBoundSqlDataSource()` which data source it
belongs to (global transaction, asynchronous context, itself) and `execSql`
runs it on `sqlConnection ?? pool`; the cache and the replicas hang off the
same object; migrations use it through a lock, a transaction and a schema
builder.

What is hard to test here, each at its line, is the list `hazards` of
PROJECT.json; every property below is there because of one of its entries.

## 2. Plan

The order is that of what hurts most when it goes wrong. A module is written so
that it can be proved about: parameters are CONSTANTS with named assumptions,
one action per handler or per piece of code between two awaits, and invariants
are conjunctions of named parts. `QueryBuilder`, a pure algorithm that stays
with TLC, uses recursion where the code does.

| # | Module | Abstract specification | Run | Theorems |
|---|---|---|---|---|
| 1 | `Transaction` | one connection per transaction, all or nothing | `trx_pg`, `trx_live`, `trx_queued` | types, leases, sessions |
| 2 | `NestedTransaction` | `NestedScopes`, a tree of atomic scopes | `nested` | the refinement, scoped rollbacks |
| 3 | `GlobalTransaction` | at most one | `global_close` | lock and reference |
| 4 | `ConnectionLifecycle` | one connect() at a time, all pools accounted for | `lifecycle_replica` | exclusion, accounting |
| 5 | `Migrations`: advisory lock, Migrator, CLI commands and ClientMigrator | the table lists what is applied | `migrate`, `migrate_one_tx` | mutual exclusion |
| 6 | `QueryBuilder`: clauses, parser, operations | every value is where it was meant | `queries` | - |
| 7 | `SchemaSync`: diff, order of operations, sync, generated migrations | one sync settles | `schema` | all four properties of the run |
| 8 | `RelationLoading`, `ModelWrites` | what load() and insert() promise | `data_access` | one invariant each |
| 9 | `Streaming`, `Caching`, `Replication` | one release, nothing stale, own writes read | `data_access` | one invariant each |
| 10 | `MongoQuery`, `MongoSession`, `RedisSource` | the filter asked for, one session, one client | `data_access`, `mongo_abort` | one invariant each |

`Transaction`, `NestedTransaction` and `GlobalTransaction` describe the same
class at three zoom levels and are not composed: the top-level transaction is
`Root` of the second and one element of `Starter` in the third, where
everything a transaction does on its connection is reduced to "active" and
"leased". `Migrations` contains the lock, the pool's sessions, the transaction
of the command and the migration table together, because what goes wrong there
goes wrong between them.

The eight modules of the data path share no state: a stream, a cache, a filter
meet only in the statement that is handed on. `MCDataAccess` therefore checks
them in one run in which every behaviour belongs to one of them (`part`), with
the others at rest; the state space is the sum of the eight, not their product.

What is left for later: `Transaction` on mssql and sqlite, the relations'
sync() and attach(), and proofs about `QueryBuilder`.

## 3. How to read the modules

* An action is the code between two awaits; what a handler does before it first
  awaits is one action with its guard. PROJECT.json names the lines.
* Drivers and databases are external. A pool lends idle connections and serves
  waiters first come first served; a session is in a transaction or not and
  holds uncommitted writes; everything that can be rejected may be, when the
  constant that allows it is TRUE.
* A command takes effect when it is sent. A connection executes its commands in
  the order they were sent, so only the order of the answers could differ, and
  answers are separate actions wherever code runs on them.
* Operators marked "Mutant" are plausible slips of the code beside the
  definition they would replace; no action uses them. They document what each
  property would catch (`mutants` in PROJECT.json).
* `FairSpec` is weak fairness of continuations and answers only: the event loop
  runs whatever is ready, the server and the pool answer, and in `Transaction`
  the application ends the transactions it was given; in `Migrations` a process
  that was started goes on.
* A property lists its exceptions: where the code does something else than the
  plain statement, the causes are named with their lines, and the property says
  that nothing else happens. The findings are the exceptions a document of the
  repository contradicts.

## 4. Transaction

**State.** `pc` is where a `transaction()` call stands, `isActive`, `released`
(`connectionReleased`) and `sqlConn` (`sqlConnection` of the clone) are the
fields of the code, `call` records every commit() or rollback() call of every
task separately, because any number of them may be in flight on one
transaction. `pool`, `inTx`, `buf`, `db` are the driver's pool and the sessions.

**Actions.** `GetConnection`, `Begin`, `BeginFails` are `SqlDataSource.transaction()`.
`Issue` chooses the data source of a statement when it is called and `Execute`
the connection when `execSql` gets to it: the two halves that an end may slip
between. `End`, `Release`, `Closed`, `MarkReleased`, `Clear` are commit() and
rollback() split at their awaits, and `CatchRollsBack` the catch of the callback
form. On pg and mysql2 a client object is shared by its successive leases
(`SharedHandle`), so a second release() ends somebody else's lease; an oracledb
connection object is the lease. Release happens twice on purpose: once in
releaseConnection(), once in disconnect() of the borrowed clone.

**Runs.**

| Run | Instance | Shows |
|---|---|---|
| `trx_pg` | postgres, 2 transactions, 2 connections, one in callback form, 2 concurrent ends each, one write, BEGIN and COMMIT may fail | `Dedicated`, `NoLeak`, `CleanPool`, `InsideTransaction`, `AnswerIsTrue`, `OutcomeIsFinal` |
| `trx_live` | oracledb, 3 transactions on 1 connection, one end each, statements not awaited, ends may fail, fairness | `EventuallyServed`, `EventuallyEnded` |
| `trx_queued` | postgres, 3 transactions on 1 connection | violation of `Dedicated`, a finding: see below |

Two ends on one transaction are the interesting number: the second meets every
stage of the first. Two transactions are enough for every pairwise property; a
third matters only for the queue, where one connection, one holder and two
waiters show both the lease that is lost and the order of service. One write is
enough: the properties look at writes one by one, and at the session as a whole.

**Finding** (`trx_queued`). With a waiter in a pg pool, release() in
releaseConnection() hands the client to the waiter at once, and the second
release() in disconnect() of the clone ends that new lease: the third
transaction gets the same client, where `sql_data_source.ts:983` promises "a
dedicated connection from the pool".

**Proved** (`TransactionProofs`), for every number of transactions, connections,
statements and ends, every dialect and every failure: `TypeCorrect`; under
`[]NoQueue` (nobody waits for a connection of a driver with shared client
objects; trivially true on oracledb) `LeaseInvariant`, and from it
`DedicatedConnection` and `NoLeakedConnection`; `SessionInvariant` and
`PoolStaysClean` under `~CrossContext` in addition. `RoomForAll` proves
`[]NoQueue` of a pool with as many connections as transactions, by counting:
a call that finds no idle connection would hold one too many. `NoQueue` is
needed, as the finding shows. The argument is the invariant `LeaseInv`: what a
clone holds the pool has lent to it (`ClonesLease`), what the pool has lent is
held (`LeasesHeld`), who waits holds nothing, and a lease given back is over
also while the call that gave it back has not recorded it (`GivenBackForGood`).
The double release is harmless exactly because the first one leaves nobody's
lease behind. `SessionInv` adds that a session is in a transaction only while
leased, and that it is out of it when the answer to COMMIT arrived.

The outcomes are proved where the application awaits its statements before it
ends (`Awaited`) and keeps each transaction to its own callback
(`~CrossContext`), again under `[]NoQueue`. `WritesInv` follows each write: until
somebody calls commit() or rollback() its transaction is active, leases its
connection and has its session in a transaction; a write sent is in that session
and nowhere else; and no session carries a write of a transaction that has been
ended. So the first COMMIT or ROLLBACK to be sent decides all writes of the
transaction and a later one finds an empty session (`SettledKept`), whichever
task sends it. `EveryWriteInside` (`InsideTransaction`) and `DecidedForGood`
(`OutcomeIsFinal`) follow. `AnswersAreTrue` (`AnswerIsTrue`) needs
`~ReleaseMayFail` too: `AnswerInv` says that a transaction that is still active
either has its connection, or the call that gave it back without an error is on
its way to `isActive = false`; a call that was the only one to reach the server
therefore never settles as if it had not.

**Checked only**: liveness.

**Excluded by a constant, and what happens without**: `ReleaseMayFail` (a rejected
release rethrows before `isActive = false`, so `AnswerIsTrue` fails, against
TEST.MD:154); `CrossContext` (one transaction used inside the callback of another
has its statements, and on postgres its COMMIT, sent to the other:
`InsideTransaction` and `AnswerIsTrue` fail). Without `Awaited` a statement bound
before the end is sent after it, through the pool, in autocommit mode
(`sql_runner.ts:91`). With `BeginMayFail` a rejected BEGIN
keeps its connection for ever, so `trx_live` has it FALSE.

## 5. NestedTransaction and NestedScopes

`NestedScopes` is the promise: a tree of scopes, commit hands the writes to the
scope around, undo forgets them. `NestedTransaction` is the code: `Transaction`
objects (`status`, `parent`) sharing one session with its stack of savepoints
(`marks`) and its uncommitted writes in order (`log`). `Nest`, `CommitNested`,
`RollbackNested` are nestedTransaction(), commit() and rollback() of a nested
transaction, `CommitRoot` and `RollbackRoot` those of the top-level one, `Run` a
statement. `aborted` is the state in which postgres refuses everything until
a rollback. `failed` carries an error out of a callback the way a rejected
promise does, unless the application swallows it (`Swallow`). `Overlap` lets
sibling transactions be open at the same time, as with `Promise.all`.

| Run | Instance | Shows |
|---|---|---|
| `nested` | postgres, mysql and oracledb, 3 nested transactions, 3 writes, calls awaited, any statement rejected, errors swallowed or thrown on (thrown on postgres) | `AtomicScopes`: the savepoints implement `NestedScopes`; `ScopedUndo`: a rollback undoes its scope and nothing else, a commit persists what was not rolled back |

The refinement maps a scope's content to the writes of the session between its
savepoint and the one of the transaction open inside it. Three transactions make
a chain of three and two siblings under one parent; three writes put one before,
one inside and one after. On oracledb savepoints are never released, so stale
ones lie among those in use.

**Proved** (`NestedTransactionProofs`): `SavepointsAreScopes`, under the
assumption `Awaited` (no overlapping siblings, errors of postgres not swallowed)
`Spec => AtomicScopes`, for any number of transactions and writes. Initial states
map to initial states, and every action maps to the action of `NestedScopes` of
the same name or to a stutter. The argument is `NestedInvariant`: the open
transactions form a chain in which each has one savepoint, in the order they were
opened (`Chain`, `HasMark`, `MarksOrdered`), whatever savepoints of committed ones
lie between; the positions of savepoints in the log never decrease along the stack;
and where the session refuses everything, it is the innermost transaction that
failed (`AbortedStops`). `ROLLBACK TO` the savepoint of the innermost transaction
then cuts the log exactly where its scope begins, and the scopes around it keep
their span. Without `MarksOrdered` a stale savepoint could be found instead.

`RollbacksAreScoped` (`Spec => []ScopedUndo`, also under `Awaited`) goes beyond the
refinement: it follows each write from the scope it was made in to the database.
`Rooted` says that the transactions that were begun are a tree under the top-level
one whose innermost open member is inside of all the open ones, and `Placed` that a
write of the log lies behind the savepoints of exactly those open transactions it
was made in, and that none around it was rolled back. `ROLLBACK TO` then drops exactly the writes
that gain an undone scope around them. "Around" is the closure of `parent`, defined
as the least set closed under it (`Upward`), so that a step which gives one more
transaction a parent leaves everybody else's unchanged.

Excluded by a constant, and what happens without: `Overlap`. Two @atomic methods
run with `Promise.all` inside a transaction are savepoints of one session; when the
one that started first throws, `ROLLBACK TO SAVEPOINT` undoes the writes of the
other, whose commit() resolved (`ScopedUndo` fails), and on postgres the savepoint
of the other is gone. A swallowed error on postgres turns COMMIT into a rollback
that reports no error.

## 6. GlobalTransaction

`start` is the startGlobalTransaction() call of each task, and names the
Transaction it makes; `lock` is `globalTransactionLock`, `gt` is
`globalTransaction`, `active` and `leased` reduce section 4 to what matters here.
`WaitForLock`, `Check`, `Connected`, `Began` and their failures are the start,
split at its awaits; `EndGlobal` and `EndAnswered` are commitGlobalTransaction()
and rollbackGlobalTransaction(), which clear the reference to whichever
transaction is global when the answer arrives; `EndObject` ends the returned
object directly; `Disconnect`, `RolledBack`, `Ended` are disconnect() with a pool
that ends once every connection is back (pg).

| Run | Instance | Shows |
|---|---|---|
| `global_close` | 3 starts, 2 ends, disconnect(), connections and BEGIN may be rejected, ends wait for what is under way, fairness | `ActiveIsGlobal` (so at most one is active), `NothingLeaked`, `StartSettles`, `EventuallyClosed` |

Three starts put one in the transaction, one at the lock and one behind it; the
second and third wake up together, which is where the check must be repeated.

Excluded by the constant `Overlap`: ends take no lock, so an end whose answer
arrives late clears the reference to the next global transaction, which stays
active and unreachable while a further start is accepted (`ActiveIsGlobal` fails),
against `sql_data_source.ts:897-899`.

**Proved** (`GlobalTransactionProofs`): `TypeCorrect`; under `~Overlap`
`GlobalInvariant` and from it `OneGlobalTransaction`, `ActiveStaysGlobal` and
`NoLeakUnlessRejected`. The invariant says who holds the
lock (`StartsLocked`), what a held lock excludes (`LockExcludes`) and that
a running end is the end of the transaction that is global now
(`EndsTheGlobal`); the last is what overlapping ends break. With `BeginMayFail` a
rejected BEGIN leaks the connection and pg's pool.end() never settles; the two
properties name that one case, and nothing else leaks.

## 7. ConnectionLifecycle

`pool` and `spool` are `sqlPool` of the data source and its replicas, `connecting`
the promise that lazy callers share, `attempt` and `pending` the progress of each
connect() call, `call` what the caller learned, `close`, `todo`, `ending` each
disconnect() call; `live` and `lost` are history: pools that are open, and open
pools the code gave up on an error. `Connect` and `Ensure` are connect() of the
application and ensureConnected(); `MasterUp`, `ReplicaUp` and their failures are
the awaited createSqlPool() calls, with `Cleanup` the catch block (F001);
`Forget` is the `finally` of the shared promise; `Disconnect` to `PoolEndFails`
are disconnect() with cache adapter, replicas and pool in that order. A closed
replica is one step. pg pools that are closing lend nothing.

| Run | Instance | Shows |
|---|---|---|
| `lifecycle_replica` | 2 lazy callers, 1 direct, 2 disconnects, 1 replica, everything may be rejected, fairness | `SingleAttempt`, `PoolsAccounted`, `CleanSlate`, `NoDeadPool`, `Retriable` |

Two lazy callers are the one that connects and the one that shares its promise,
the direct one connects again after a failure or a disconnect. `isConnected` looks
at `sqlPool`, which connect() sets before the replicas are connected: a statement
that arrives in between is let through and reads from a replica without a pool
(hazard at 547).

**Proved** (`ConnectionLifecycleProofs`): `TypeCorrect`; under `~Overlap`
`LifecycleInvariant`, `OneAttempt`, `NeverDeadPool` for any number of callers,
closers and replicas; with at most one replica in addition `AccountInvariant`,
`NoPoolForgotten` and `AlwaysCleanSlate`. `OneAtATime` is the key: whoever
connects is alone or is the one all lazy callers share, and a disconnect() is
alone with a connected data source. `NothingLate` says that nothing is pending
after a connect() failed, which is exactly what two replicas break: the slower
one sets its pool after the cleanup, `CleanSlate` and `PoolsAccounted` fail
(the comment at 506-521 promises a clean slate). With `Overlap`, a disconnect()
during a connect() or two disconnects lose a pool as well.

## 8. Migrations

Processes run the migration commands of the CLI, or a ClientMigrator, on one
database. `pc` is where a process stands, `cmd` its command (the phases up, down
and drop that are left, the named migration, transactional or not), `lock` the
session that holds the advisory lock, `todo` and `step` the migrations and
statements left, `tx` the transaction of a transactional run. `db` is a set of
items: `<<m, 0>>` the row of migration m, `<<m, i>>` the effect of its i-th
statement. `Migrate`, `RollbackCommand`, `Refresh` and `ClientMigrate` are the
entries of the commands; `Continue` is the next await of whatever a process is at
(lock, table, read of the rows, statement, row, commit, rollback, unlock, close)
and its rejection; `Crash` is the death of a process at any point, after which the
server rolls its transaction back and frees its sessions' locks. The lock and the
unlock statement run on any of the process's connections that is in the pool. A
rejected BEGIN leaves the connection it borrowed with nobody
(`sql_data_source.ts:1026-1029`): `stray`.

| Run | Instance | Shows |
|---|---|---|
| `migrate` | 2 processes, 2 files of 2 statements, pools of 2, postgres and mysql, everything may be rejected, fairness | `OneAtATime`, `PrefixRecorded`, `BooksAgree`, `FailureUndone`, `LockIsFreed` |
| `migrate_one_tx` | 1 process, 2 files of 1 statement, postgres | violation of `SingleTransaction`, a finding |

Two processes are enough for exclusion; two files put one before the one that
fails, two statements one before the failing statement inside a migration; a pool
of two is where the unlock can reach the wrong session (the lock is then freed when
the process closes its pool). `BooksAgree` excepts the migrations somebody failed
or died at: nothing ties a migration's statements to its row.
`Overlap` excludes a ClientMigrator beside another process: it takes no lock.
`LockIsFreed` needs `Continue` to be fair: a process that was started goes on or
dies. It names one exception: where BEGIN is rejected on postgres on the very session
that holds the lock, the unlock runs on another one and pg's pool.end() waits for the
one that is out (`Hangs`), so the lock stays until somebody stops the process; mysql2's
end() closes every connection. A pool of one connection that is out, where the unlock
itself waits, and a pool that closes a session for being idle are not in the instance.

**Finding** (`migrate_one_tx`). A transactional run without a named migration
builds its Migrator with the data source outside of the transaction
(`migration_run_connector.ts:74`): a failing run keeps every statement before the
failure, where `cli.ts:342-345` says "in a single transaction".

**Proved** (`MigrationsProofs`): `MutualExclusion`, for any number of processes,
files, statements and connections. The invariant is that a locked command at work
is the one in whose session the lock is (`LockInv`); it holds whichever session the
unlock reaches, because the command is over by then.

Under `~Overlap` also `RecordedInOrder` (`PrefixRecorded`), `RowsMatchSchema`
(`BooksAgree`) and `NamedRunsUndone` (`FailureUndone`), for the same parameters. None
of the three is inductive. Their strengthening `BooksInv` rests on the exclusion just
proved: one process at most is at work (`Alone`), so its step leaves the others
quiet (`OthersKept`). About that process it says where its transaction may hold
writes (`TxShape`), that the migrations it has left are those next to the recorded
ones in what it sees (`Spans`: the rows end at m, a run goes on at m + 1, a rollback
at m), which of the first one's items are there (`Progress`), that every other
migration is in the books as a whole or not at all (`Books`), and that a named run
on postgres has written nothing outside its transaction (`Pending`). A statement
or a row changes what the process sees by one item (`WriteSeen`), wherever the item
goes: the database, the transaction, or both when mysql commits it.

## 9. QueryBuilder

`clause` maps every list of the builder to its nodes, `write` the write nodes the
builder holds, `made` the write operations that were made and may be awaited, `sent`
what the last operation showed, ran and counted. Each method is
an action that adds its node; `Extract` is the order of extractNodes, `Parse` the
AST parser with the interpreters of each kind of node, reduced to the placeholders
(number written, value meant), the bindings and the connectives. `Received` says
which value the driver gives to a placeholder: by number on postgres, by place
elsewhere (the runner renumbers those of mssql). A write operation is made (`Made`:
its nodes are on the builder, it keeps its data) and awaited (`Await`) apart: awaiting
it prepares its columns (`AutoColumns` more that the model fills in), lets a hook of
the model add a condition, and takes the conditions and joins the builder has then.

| Run | Instance | Shows |
|---|---|---|
| `queries` | postgres and mssql, every sequence of 3 calls of which the first two may add clauses, and one more that awaits an operation | `OwnValue`, `Connected`, `ShownIsExecuted`, `CountsThePage` |

Three calls are a clause with values, another that shifts its numbers, and the
operation, or an operation, a clause behind it and two times awaiting it. Groups,
sub-queries and joins hold raw conditions, other conditions or both, so every pair of
values that can be mixed up is two calls away at most. The two dialects are the
two ways of numbering with and without values in front (mssql's TOP).

What the code does otherwise, named in the properties (`MixedUp`; `OwnValue` says that
exactly these statements go wrong): on postgres, at any depth, a raw condition with a
value behind a value that is not raw, in a group or a sub-query too, because the runner
numbers every `?` of the text from 1 (`sql_runner.ts:121-129`); a value in a sub-query
of select or from, or in a condition of a join, behind values outside of it, because
those are numbered from 1; on mssql a limit alone (TOP) behind a with
clause that has values. A condition without a text (an undefined value, an empty group)
keeps the connective before it; update() and delete() show an order and a limit that
they do not run; an operation whose builder made another write shows that other one; a
write that was never awaited is run by the next read of its builder
(`query_builder.ts:1582`). `ShownIsExecuted` leaves out what the model adds by itself,
columns and hooks, which toSql() says it does not show. upsertMany() of the model
manager is not among the writes here: its preview parses the INSERT without the conflict
clause that runs (`model_manager.ts:520-538`). `CountsThePage` is about sources
and conditions: the total of a page ignores groupBy and distinct.

## 10. SchemaSync

`db` and `models` are sets of objects (tables, columns, keys, constraints,
indexes), `compared` the tables makeDiff() went through, `data` the operations it
found, `todo` and `ran` those left and done, `before` the objects at the start. A
sync compares table by table, then makes the operations in the order of the
DropOrderResolver and of the additions and runs them one by one; `Accepts` is what
the database requires of each (referenced keys stay, a constraint's column is
there). A sync may be cut off between two statements, be refused by one, and be
started again; a migration may be generated and rolled back by its down().

| Run | Instance | Shows |
|---|---|---|
| `schema` | 3 tables, every pair of a database and a model set, 2 syncs, interrupts | `Applicable`, `SettlesAtOnce`, `KeepsWanted`, `DownUndoes` |

The databases are what a sync of each model set leaves, the empty one, and eight
that no sync made (a key to a unique column, a key with a name of its own, a through
table without keys, of another type or with a key under the name of another, a table
without columns, an index name another table or a key has). The tables are a parent, a
child that may refer to it and a through table, which a relation, two or a model may
describe: all the dependencies between two objects of different kinds occur. A parent
may have its primary key by a name of the application's or of postgres' choice, with and
without a child that refers to it.

`IndexesHere` is what postgres lists: the unique constraints and the indexes of a table,
and its primary key too unless its name is LIKE 'pk_%' (`PkNames`;
`postgres/schema/index_info.ts:32`). One named otherwise is a unique constraint the
models lack (`AsUnique`). A sync drops it, which postgres refuses where a foreign key
refers to it, and the next one adds it again; `Applicable`, `SettlesAtOnce` and
`KeepsWanted` each name that case.

What the code does otherwise is in the comment of each property: a primary key that
moves gets no statement; a unique constraint is dropped before the key that refers
to it; a model default of null is set again by every sync; the through table of a
relation of a model with itself loses one of its keys in every sync and gets it
back in the next; a relation whose through table has a model adds, under a name of its
own, a key the next sync drops, unless the model has one on the same column; a name
that moves to another column, table or kind of object settles with the second sync;
down() runs in the order of up() and gets stuck when additions depend on each other.
Some of these were found by the proofs, and the instance was extended until the run
has them too: a table without columns is created a second time, the default name of the
key of a through table may be that of another key, and of the relations of a new table
only belongsTo ones are asked for, so that the second sync finds a relation's key
(`schema_diff.ts:71`, the branch for tables the database does not have).

**Proved** (`SchemaProofs`) for any sound database and any sound models, any number of
tables, relations and syncs, wherever they are cut off: all four properties of the run.
Sound is what every database is, and what the definitions of models make of them: an
object belongs to a table that is there and to a column of it, a foreign key of the
database refers to a key, columns are known by their names, a model has columns and at
most one primary key and gives no name twice, and none LIKE 'pk_%' to an index or a unique
constraint, which no comparison would see. Of relations it is assumed that those
through one table agree on its two columns, that a through table with a model has the
left one, and that the name of the relation's key is not the default name of a key of
the table, which it differs from by the column it leaves out
(`model_decorators.ts:1397`, `model_decorators_constants.ts:47`). A relation is taken to
name its through table by its model (`wasModelProvided`, `schema_diff.ts:1067`) exactly
if that table has a model. That leaves out relations that name by a string a table that
also has a model: it would be compared twice, by the sides of the relation and by its own
model, and the model's constraints would name the same objects.

- `WantedIsKept` (`KeepsWanted`) needs no look at the order of statements: the
  differences found take nothing that is as the models want it (`Spares`), which for a
  foreign key is what WithoutChurn is for, and `SyncInv` carries that with the soundness
  of the database through every statement, since a column that is dropped takes along
  only what is on it.
- `DownIsUndo` (`DownUndoes`) does need the order. `UndoInv` says that what a sync drops
  was there and what it adds was not (`Meant`), that the statements ran in the order of
  their ranks (`InOrder`), so that no constraint can disappear under an addition, and
  that the database differs from the one before by what the additions cover and nothing
  else (`OnlyAdded`). As long as each of them is still there (`Untouched`), down() can
  take it back; a statement that takes what another one made is about a part of it or
  refers to it (`Entangled`), and only then can down() get stuck.
- `StatementsApplicable` (`Applicable`) and `SyncsSettle` (`SettlesAtOnce`) rest on
  `SettleInv`, which has two halves. The first says what the comparison was: every
  statement has a reason in what the database held and the models ask for (`Found`),
  and everything the models ask for that was not there, and everything that was there
  and they do not ask for, has a statement (`AllNew`, `AllOld`). The second is the
  bookkeeping of the run (`Books`): what was there or was made is there unless a
  statement that ran took it (`Kept`), what was dropped is gone (`Gone`), and what is
  there was there before or is what a statement made of it, a column as the database
  stores it (`Origin`). That a statement is accepted is then a question about the ranks:
  what it needs was there, or is made by a statement of a lower rank, and nothing of a
  lower rank takes it. That the sync settles is a comparison of `Found` at the end with
  `AllNew` and `AllOld` at the start, one lemma for each kind of statement
  (`ConstraintsLast` ... `ChangesLast`); a modified or added column is found as the
  models give it because `Stored` keeps what SameColumn and DefaultChanged look at.

## 11. The data path

The run `data_access` checks these eight modules through `MCDataAccess`; the property
of each is proved as well.

**RelationLoading.** `links` are the foreign keys or through rows, `load` the query
(type of relation, strategy, where, limit, call), `parents` and `held` what the
first read found, `batches` the conditions that the relation's one builder has
collected, `attached` what every parent got. `ReadParents`, `LoadRelationViaJoin`,
`LoadRelationViaBatch`, `Fetch`, `StreamRow` and `FillRow` are many(), chunk() and
stream() between their awaits, `Relink` and `Alter` the writes of others.
`LoadsRelated`: nothing foreign is attached, and every related row is, but for the
causes in `Excused`: a builder used for an earlier page or row, keys 0, batch limits
counted before the where, parents' limits that count joined rows, a parent that the
second read does not find. The joined read puts the conditions of the relation's builder
behind those of the parents, all of them flat (2301-2304). Three things follow, and the
module has them: an OR of the parents' conditions lets the related rows of the parents
before it through whatever the relation's where says; a whereIn of an earlier batch, and
the hook's condition, still bind, so that a chunk() whose last page is short enough to be
joined attaches nothing to it; and a condition whose column both tables have, or one on
the row number of an earlier batch, is refused (`JoinRefused`). The where of the relation
is a sequence of the parts between its ORs, because the keys, the hook and the limit of a
batch bind to the last part only. Instance: 3 parents with one of key 0, 2 related rows,
one write between, `Few` 2 instead of 10, so that both strategies and the boundary
occur; chunks of 2, whose last page of 1 is joined after a batch; ORs on both sides. **Proved** (`DataPathProofs`, `LoadsAreRelated`) for any finite tables, any query,
any `Few` and any number of writes. The property is not inductive: what a fetch
attaches depends on the conditions the builder has by then. `LoadInv` adds that the
last keys given to the builder are those of the rows fetched next (for a streamed row
as long as it is the only one), and that a page nobody wrote behind is found again by
the second read. `JoinedRank` is why the limit of the parents may be applied to the
joined rows of a belongsTo without a where, as long as no batch was read: they are one
per parent (`PlainJoin`), in the same order, so that a bijection carries the ranks over. `PageLimit` is why a batch keeps its
limit: no two rows have the same rank. Assumed: the tables are finite, and a row has
one foreign key of a belongsTo.

**ModelWrites.** `FindOne`, `Insert`, `InsertNext`, `ReadBack`, `Settle`, `Upsert`,
`Refetch`, `UpdateRecord`, `FindUpdated`, `DeleteRecord` are the managers' writes
and the reads after them on five databases; two writers with one call each of a
table with or without a unique index. `hidden` is what a beforeFetch hook of the model
hides. Of the reads after a write, mysql's read-back (928-952) and the lookups of an
upsert (633-666, 762-771) go through many(), which runs it (`Finds`); sqlite and
firstOrInsert() read without it, updateRecord() by the key, and oracledb asks for one row
with the hook ignored (1027-1029). `unseen` keeps what was hidden from a call.
`Sets` are the columns an upsert writes: for mssql those that are no conflict columns
(710-713), so that a MERGE with nothing left to set ignores the rows that match, answers
nothing of them, and is followed by a lookup only if it was asked to ignore them and
inserted none (730-762). `UpsertRefused` is what the databases refuse: an empty SET, a
row that two of the models would set, and a MERGE that inserts two models with the same
conflict columns. `AnswersItsRows`: who settles is answered its own rows, but for those
the hook hides, and an upsert one for every model, but for those MERGE ignores; who is
rejected has written nothing, but for sqlite's insertMany(). In the instance a hook
hides nothing or some values of the third column, and upserts set the third column, the conflict
column or nothing.
**Proved** (`DataPathProofs`, `WritesAnswerTheirRows`) for any number of writers, models
and indexes. `WriteInvariant` rests on what no step of anybody does (`RowsKept`): a row
that is there or was has the unique columns it got first, so that what was true of a
call stays true while others write. What a statement of several rows leaves is counted
row by row (`Counted`, `PutAllCounts`, an induction over the numbers up to the length
of the data): each model has a row, and if as many rows were written as there are
models, one that was written, which is how postgres knows that it need not read
again. Assumed of the calls: they are calls of the six methods, with one model for
firstOrInsert() and updateRecord() and at least one conflict column for upsertMany().

**Streaming.** One stream on each driver: `Open`, `Data`, `Resolve` and `Reject` of
onData, `End`, `Fail`, `Leave` (the caller destroys it), `Close`, and `Another`, who
takes the connection from the pool next. `StreamSettles`: an ended stream passed
every row on, once; a stream with nothing left is over and has given its connection
back; postgres never gives back a transaction's. mysql and oracledb do (363-407,
618-622). Three rows let two be in onData while a third fails. **Proved**
(`DataPathProofs`) for any number of rows by `StreamInvariant`: the counter
`pending` is the number of rows in onData as long as there is no error, and rows
neither in onData nor to come were passed on.

**Caching.** `Get`, `Handle` and `Set` are the three parts of useCache(), `Expire`
and `DeleteOne` the timers and the deletions of invalidateAllCache(), `Change` a
change of the rows, `fresh` the version at the last invalidation of a key that no
fill raced. `NeverStale`: nothing in the cache is older than that, and a timer runs
for the value it was started with. A fill that read its rows before an invalidation
and stores them after it does leave a stale value (`sql_data_source.ts:697-698`);
the property says that nothing else does. **Proved** (`DataPathProofs`) for any
number of users, names and versions; the strengthening is that what a fill under
way has read is as new as its key must be (`ReadIsFresh`).

**Replication.** `Write`, `GetSqlDataSource`, `OnReplica`, `OnMaster`,
`OnSlaveServerFailure`, `Replicate`, `Fall`, `Commit`: every caller writes a row and
reads it, in a transaction or not, with a mode or none, while replicas lag and fail.
`ReadsItsWrite`: whom the master answers sees its row, who asks for the master gets
it; but for rawQuery() on a replica inside of a transaction, whose fallback is not
the transaction's connection. A clone makes replicas of its own that nobody
connects, so a read in a transaction without mode "master" is rejected or falls back
according to the configuration. **Proved** (`DataPathProofs`) for any number of
callers and replicas: a row is committed or in the transaction's connection from
its write on (`WriteSeen`), and a request for the master never has another target
(`MasterRuns`).

**MongoQuery.** The filter keeps `$and`, `$or`, the raw conditions and the condition on
_id apart; a raw filter is spread into what there is (1451, 1464) and has one key here.
`DocumentsMeant` compares every operation with what the clauses ask for, outside of
`Misread`: two conditions on _id, operators and ranges on it, not between (which no
value meets), a raw filter that replaces `$and`, `$or` or a raw filter on the same
field: `whereRaw({age: {$gt: 1}}).whereRaw({age: {$lt: 5}}).delete()` deletes by the
second alone. delete() and count() do
not look at the condition on _id. Two clauses are the least that can be joined
wrongly. **Proved** (`NoSqlProofs`, `FiltersAreMeant`) for any number of clauses, any
collection, hook and page: while the builder is used, `$and`, `$or` and the raw
conditions hold what was asked, the condition on _id apart (`Faithful`), so that outside of
`Misread` what a filter finds is what was meant; a page is cut from a set by ranks,
and a limit of 1 behind an offset leaves one document if there are more than that.
The clauses are assumed to be what the methods of the builder take, and a hook to use
neither an or nor a raw filter.

**MongoSession.** A manager inside and one outside of a session, two calls each.
An insert of several documents may be refused half way (`InsertsFirst`) and any statement
fail, the read after a write as well (`Fails`): what a rejected call wrote stays.
`DocumentsAnswered`: inserts and updates answer documents they wrote, and all of
them unless the snapshot of the session is older or another call deleted them
in the session. The last exception was found by the proof: a manager inserts outside
of the session, another deletes the documents in it before the first reads them back.
**Proved** (`NoSqlProofs`, `SessionAnswersItsDocuments`) for any number of managers and
calls by what `Answering` says of each call: it has read only what it wrote, and what a
call of the session has still to read back is in the snapshot. **Finding** (`mongo_abort`):
insertOne(), insertMany() and updateOne() of a manager are given no session
(`mongo_collection_manager.ts:203`, 229, 261), so an abort keeps what was inserted
before it, where the test `trx_mongo.test.ts:50-62` expects nothing. (The repository calls its
NoSQL part experimental, README:5.)

**RedisSource.** Clients that come and go (`NewClient`, `Pinged`, `PingFails`,
`Quitted`), commands of three types of key, subscriptions. `RedisServes`: as long as
nobody connects twice at once, a source that takes itself for connected has an open
client and no other one stays open; a resolved subscribe() gets every message;
typed values come back as written. Overlapping connect() calls do leak a client, and
with a disconnect() between their pings leave the source connected without a client.
**Proved** (`NoSqlProofs`, `RedisServesItsCallers`) for any number of callers, clients
and keys. `RedisInvariant` says that one call connects at a time, that the only open client is
the one the source has (`OneConnects`), that every handler in force, also one still to
be attached, belongs to an open client subscribed to its channel (`Heard`), and that every type of key holds values written to it (`ValuesKept`). The proof found the
third way to lose messages: between the two halves of subscribe() a failed connect()
and another one replace the client, and the handler is attached to one that is not
subscribed; with fewer clients than three no run reaches it.

## 12. Assumptions in one place

What the runs and theorems exclude, by constant: `CrossContext`, `ReleaseMayFail`
and, for the outcomes, statements that are not awaited (Transaction), `Overlap` (NestedTransaction, GlobalTransaction,
ConnectionLifecycle, Migrations), `Swallow` with postgres (NestedTransaction), more
than one replica (accounting of ConnectionLifecycle), queues on drivers with shared
client objects (leases of Transaction). In each case the code does fail the property
without it, as the section and the hazard in PROJECT.json say. ReleaseMayFail and
CrossContext have no run of their own.

Fairness: weak fairness of the steps the event loop, the server and the pool owe
(`FairSpec` of Transaction, GlobalTransaction, ConnectionLifecycle, Migrations). No
action that an application or another process chooses is fair, except that
`trx_live` assumes every transaction is ended by somebody.

**Proved and checked.** Each theorem of PROJECT.json with a property states exactly
what a run checks, for every value of the constants. Only model-checked are all
liveness properties (the provers do not handle ENABLED) and those of `QueryBuilder`,
whose definitions recurse over their data: the parser over nested queries, and
`CountsThePage` over the nodes that SelectSeq takes (induction over data is out of
reach). What the runs that expect a violation check is false.

## 13. What is not modelled

PROJECT.json lists every component with its status. Of the modelled ones:
transactions on mssql (its driver's transaction object owns the connection) and
sqlite (one shared handle, no pool), isolation levels, options that turn the
asynchronous context off, calls on a nested transaction after its top-level one
ended; withRetry(), which returns `fn()` without awaiting it, so that an
asynchronous ECONNREFUSED is never retried although `sql_data_source_types.ts:72`
describes it; the relations' sync() and attach(), soft deletes and JSON columns;
the builder's inserts, projections and the connection of Mongo; times to live of
Redis; rows of tables whose schema changes. Not modelled at all, and why: the texts
of SQL, DDL and generated code (wording), the schema builder (a list of nodes
without state), decorators and types (metadata fixed at load time), serializer,
OpenAPI and AdminJS (stateless mappings), observers (their errors are swallowed),
seeders, drivers, environment and logging.

## 14. Running

`tlc -config TransactionPg.cfg MCTransaction` and likewise for every run in
PROJECT.json; each takes seconds to about two minutes. `tlapm
TransactionProofs.tla` and likewise for the other seven proof modules check the
theorems.

