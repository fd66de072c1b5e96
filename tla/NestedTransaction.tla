-------------------------- MODULE NestedTransaction --------------------------
(***************************************************************************)
(* Nested transactions: Transaction.nestedTransaction() and @atomic calls  *)
(* inside a running transaction.  All of them share the connection of one  *)
(* top-level transaction; each is a savepoint.  The connection executes    *)
(* commands in the order they are sent, so an action is a command sent,    *)
(* executed and answered.                                                  *)
(*                                                                         *)
(* The application's discipline is a parameter.  Awaited calls nest: only  *)
(* the innermost open transaction is used.  Calls that run concurrently    *)
(* (Promise.all of two @atomic methods) overlap.                           *)
(***************************************************************************)
EXTENDS Naturals, Sequences, FiniteSets, SequencesExt

CONSTANTS
  Scope,      \* nested Transaction objects
  Root,       \* the top-level Transaction
  Write,      \* write statements
  Dialects,   \* the databases considered
  Overlap,    \* sibling transactions are open at the same time
  Swallow,    \* the databases where the application goes on after a failed statement
  NoScope

ASSUME ScopeAssumption == Root \notin Scope /\ NoScope \notin Scope \cup {Root}
ASSUME NestedDialectAssumption == Dialects \subseteq {"postgres", "mysql", "oracledb"}
ASSUME DisciplineAssumption == Overlap \in BOOLEAN /\ Swallow \subseteq Dialects

VARIABLES
  dialect,   \* the database of this data source
  status,    \* of each transaction object; isActive is status = "active"
  parent,    \* the transaction nestedTransaction() was called on
  failed,    \* a command of this transaction was rejected
  marks,     \* the session's savepoints, oldest first: whose, and the log's length
  log,       \* the session's uncommitted writes, oldest first
  aborted,   \* postgres: a statement failed, the session refuses all but rollback
  into,      \* the transaction each accepted write was addressed to
  db         \* the committed writes

vars == <<dialect, status, parent, failed, marks, log, aborted, into, db>>

Trans == Scope \cup {Root}

Init ==
  /\ dialect \in Dialects
  /\ status = [x \in Trans |-> IF x = Root THEN "active" ELSE "new"]
  /\ parent = [x \in Scope |-> NoScope]
  /\ failed = [x \in Trans |-> FALSE]
  /\ marks = <<>>
  /\ log = <<>>
  /\ aborted = FALSE
  /\ into = [w \in Write |-> NoScope]
  /\ db = {}

-----------------------------------------------------------------------------
(* The database session.                                                   *)

\* The session is inside the transaction until the top-level one ends.
InTransaction == status[Root] = "active"

Accepts == InTransaction /\ ~aborted

HasMark(x) == \E i \in DOMAIN marks : marks[i].scope = x

Mark(x) == CHOOSE i \in DOMAIN marks : marks[i].scope = x

\* SAVEPOINT x
SetMark(x) ==
  /\ marks' = Append(marks, [scope |-> x, at |-> Len(log)])
  /\ UNCHANGED <<log, aborted>>

\* RELEASE SAVEPOINT x: the savepoint and all later ones are gone.
ReleaseMark(x) ==
  /\ marks' = SubSeq(marks, 1, Mark(x) - 1)
  /\ UNCHANGED <<log, aborted>>

\* Mutant: ROLLBACK without TO.
RollbackWhole(x) ==
  /\ marks' = SubSeq(marks, 1, Mark(x))
  /\ log' = <<>>
  /\ aborted' = FALSE

\* Mutant: the savepoint is released instead.
RollbackReleases(x) ==
  /\ marks' = SubSeq(marks, 1, Mark(x) - 1)
  /\ aborted' = FALSE
  /\ UNCHANGED log

\* ROLLBACK TO SAVEPOINT x: the writes since and the later savepoints are gone;
\* the savepoint itself stays.
RollbackToMark(x) ==
  /\ marks' = SubSeq(marks, 1, Mark(x))
  /\ log' = SubSeq(log, 1, marks[Mark(x)].at)
  /\ aborted' = FALSE

\* A command the server rejects.
Rejected ==
  /\ aborted' = (aborted \/ (dialect = "postgres" /\ InTransaction))
  /\ UNCHANGED <<marks, log>>

-----------------------------------------------------------------------------
(* The application.                                                        *)

Swallows == dialect \in Swallow

Active(x) == status[x] = "active"

Innermost(x) == \A y \in Scope : Active(y) => parent[y] # x

\* Awaited calls use the innermost transaction; a failed statement, unless
\* swallowed, throws out of the callback it ran in.
MayUse(x) ==
  /\ Active(x)
  /\ InTransaction
  /\ Overlap \/ Innermost(x)
  /\ Swallows \/ ~failed[x]

MayEnd(x) == Active(x) /\ InTransaction /\ (Overlap \/ Innermost(x))

Fails(x) == failed' = [failed EXCEPT ![x] = TRUE]

\* nestedTransaction(): a new Transaction on the same connection; it is active
\* once SAVEPOINT is answered.
Nest(x, p) ==
  /\ status[x] = "new"
  /\ MayUse(p)
  /\ \/ /\ Accepts
        /\ SetMark(x)
        /\ status' = [status EXCEPT ![x] = "active"]
        /\ parent' = [parent EXCEPT ![x] = p]
        /\ UNCHANGED failed
     \/ /\ ~Accepts
        /\ Rejected
        /\ status' = [status EXCEPT ![x] = "rejected"]
        /\ Fails(p)
        /\ UNCHANGED parent
  /\ UNCHANGED <<into, db>>

\* A write addressed to x; the server may reject it.
Run(w, x) ==
  /\ into[w] = NoScope
  /\ MayUse(x)
  /\ \/ /\ Accepts
        /\ log' = Append(log, w)
        /\ into' = [into EXCEPT ![w] = x]
        /\ UNCHANGED <<failed, marks, aborted>>
     \/ /\ Rejected
        /\ Fails(x)
        /\ UNCHANGED into
  /\ UNCHANGED <<status, parent, db>>

\* commit() of a nested transaction.  oracledb (and mssql) have no RELEASE: the
\* savepoint stays.  isActive is cleared only once RELEASE is answered.
CommitNested(x) ==
  /\ MayEnd(x)
  /\ Swallows \/ ~failed[x]
  /\ \/ /\ dialect = "oracledb"
        /\ status' = [status EXCEPT ![x] = "committed"]
        /\ UNCHANGED <<failed, marks, log, aborted>>
     \/ /\ dialect # "oracledb"
        /\ Accepts /\ HasMark(x)
        /\ ReleaseMark(x)
        /\ status' = [status EXCEPT ![x] = "committed"]
        /\ UNCHANGED failed
     \/ /\ dialect # "oracledb"
        /\ ~(Accepts /\ HasMark(x))
        /\ Rejected
        /\ Fails(x)
        /\ UNCHANGED status
  /\ UNCHANGED <<parent, into, db>>

\* rollback() of a nested transaction, called or reached through the catch of
\* the callback form; a caller that does not swallow fails with it.  Like
\* commit(), it leaves the transaction active if the command is rejected.
RollbackNested(x) ==
  /\ MayEnd(x)
  /\ \/ /\ HasMark(x)
        /\ RollbackToMark(x)
        /\ status' = [status EXCEPT ![x] = "undone"]
        /\ failed' = [failed EXCEPT ![parent[x]] = @ \/ (failed[x] /\ ~Swallows /\ ~Overlap)]
     \/ /\ ~HasMark(x)
        /\ Rejected
        /\ failed' = [failed EXCEPT ![x] = TRUE, ![parent[x]] = TRUE]
        /\ UNCHANGED status
  /\ UNCHANGED <<parent, into, db>>

\* commit() of the top-level transaction.  A postgres session in the aborted
\* state answers COMMIT with a rollback, and without an error.
CommitRoot ==
  /\ MayEnd(Root)
  /\ Swallows \/ ~failed[Root]
  /\ status' = [status EXCEPT ![Root] = "committed"]
  /\ db' = IF aborted THEN db ELSE db \cup ToSet(log)
  /\ log' = <<>> /\ marks' = <<>> /\ aborted' = FALSE
  /\ UNCHANGED <<parent, failed, into>>

RollbackRoot ==
  /\ MayEnd(Root)
  /\ status' = [status EXCEPT ![Root] = "undone"]
  /\ log' = <<>> /\ marks' = <<>> /\ aborted' = FALSE
  /\ UNCHANGED <<parent, failed, into, db>>

Next ==
  /\ UNCHANGED dialect
  /\ \/ \E x \in Scope, p \in Trans : Nest(x, p)
     \/ \E w \in Write, x \in Trans : Run(w, x)
     \/ \E x \in Scope : CommitNested(x) \/ RollbackNested(x)
     \/ CommitRoot
     \/ RollbackRoot

Spec == Init /\ [][Next]_vars

-----------------------------------------------------------------------------
(* Properties.                                                             *)

\* What is reached from x by going up: the least set with x and whatever is above one
\* of its members.
Upward(up, x) ==
  LET Closed(S) == x \in S /\ \A y \in S : y \in Scope /\ up[y] \in Trans => up[y] \in S
  IN {y \in Trans : \A S \in SUBSET Trans : Closed(S) => y \in S}

\* The transactions a transaction is nested in, itself included.
Enclosing(x) == Upward(parent, x)

\* Some transaction around w was rolled back.
Undone(w) == \E x \in Enclosing(into[w]) : status[x] = "undone"

\* A rollback undoes the writes of its own scope and no others: while the
\* top-level transaction runs, an accepted write is pending exactly if no
\* transaction around it was rolled back, and those are the writes that a resolved
\* commit() of the top-level transaction persisted.
ScopedUndo ==
  \A w \in Write : into[w] # NoScope =>
    /\ InTransaction /\ ~aborted => (w \in ToSet(log) <=> ~Undone(w))
    /\ status[Root] = "committed" => (w \in db <=> ~Undone(w))

-----------------------------------------------------------------------------
(* The savepoints implement atomic scopes.                                 *)

\* The log's length where the innermost open transaction inside x began.
UpTo(x) ==
  IF \E y \in Scope : Active(y) /\ parent[y] = x
    THEN marks[Mark(CHOOSE y \in Scope : Active(y) /\ parent[y] = x)].at
    ELSE Len(log)

From(x) == IF x = Root THEN 0 ELSE marks[Mark(x)].at

\* A savepoint that was refused opened no scope.
ScopeState ==
  [x \in Trans |->
     CASE Active(x) -> "open"
       [] status[x] \in {"rejected", "new"} -> "new"
       [] OTHER -> status[x]]

ScopeAround == [x \in Scope |-> IF parent[x] = NoScope THEN Root ELSE parent[x]]

\* The writes of the session between two savepoints, until the session ends.
ScopeContent ==
  [x \in Trans |->
     IF InTransaction /\ Active(x) THEN {log[i] : i \in From(x) + 1 .. UpTo(x)} ELSE {}]

Scopes == INSTANCE NestedScopes WITH
  state <- ScopeState, around <- ScopeAround, content <- ScopeContent

\* With awaited calls, transactions nested by savepoints are atomic scopes.
AtomicScopes == Scopes!Spec
=============================================================================
