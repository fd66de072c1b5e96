------------------------------ MODULE Streaming -------------------------------
(***************************************************************************)
(* execSqlStreaming(): the rows of a statement on their way from the       *)
(* driver to the caller's stream, each through onData when the query has a *)
(* model, and the connection they come over.  One stream; the connection   *)
(* is from the pool, where another may get it next, or a transaction's.    *)
(***************************************************************************)
EXTENDS Naturals, FiniteSets, Sequences

CONSTANTS
  StreamDialects,  \* the dialects considered
  RowCount         \* rows the statement has

VARIABLES
  driver, onData,  \* the dialect, and whether rows go through onData
  holder,          \* whose the connection is
  source,          \* the driver's stream
  given, inData,   \* rows it gave, and those onData has not settled
  pending, ended, hasError,
  written, out,    \* rows written to the caller's stream, and its state
  closed, returned,  \* its close event was handled; close() of the connection was called
  taken            \* history: whose connection the stream gave away

streamVars == <<driver, onData, holder, source, given, inData, pending, ended, hasError,
                written, out, closed, returned, taken>>

ASSUME StreamingAssumption ==
  /\ StreamDialects \subseteq {"mysql", "postgres", "sqlite", "mssql", "oracledb"}
  /\ RowCount \in Nat

\* mssql and sqlite hold no connection of their own.
Borrows == driver \in {"mysql", "postgres", "oracledb"}

StreamInit ==
  /\ driver \in StreamDialects /\ onData \in BOOLEAN
  /\ holder \in IF Borrows THEN {"stream", "transaction"} ELSE {"none"}
  /\ source = "opening" /\ given = 0 /\ inData = {}
  /\ pending = 0 /\ ended = FALSE /\ hasError = FALSE
  /\ written = <<>> /\ out = "open" /\ closed = FALSE /\ returned = FALSE /\ taken = "none"

\* tryRelease(). mysql2 ends whatever lease the connection has; postgres leaves a
\* transaction's alone, and a client released with an error leaves the pool;
\* oracledb closes the connection once.
TryRelease ==
  LET effective == CASE driver = "mysql" -> holder # "free"
                     [] driver = "postgres" -> holder = "stream"
                     [] driver = "oracledb" -> ~returned
                     [] OTHER -> FALSE
  IN  /\ holder' = IF effective THEN "free" ELSE holder
      /\ taken' = IF effective /\ holder # "stream" THEN holder ELSE taken
      /\ returned' = TRUE

Keeps == UNCHANGED <<holder, taken, returned>>

Writes(n) == written' = IF out = "open" THEN Append(written, n) ELSE written

\* A mutant: rows still in onData are not waited for.
FinishEarly(over, left) ==
  IF over /\ ~hasError
  THEN TryRelease /\ out' = (IF out = "open" THEN "ended" ELSE out)
  ELSE Keeps /\ UNCHANGED out

\* When the last row is settled, the connection is given back and the stream ended.
Finish(over, left) ==
  IF over /\ left = 0 /\ ~hasError
  THEN TryRelease /\ out' = (IF out = "open" THEN "ended" ELSE out)
  ELSE Keeps /\ UNCHANGED out

Destroys == hasError' = TRUE /\ TryRelease /\ out' = (IF out = "open" THEN "destroyed" ELSE out)

-----------------------------------------------------------------------------

\* postgres imports its stream after it has the client, and keeps the client when
\* there is none to import.
Open ==
  /\ source = "opening"
  /\ \/ source' = "flowing" /\ UNCHANGED out
     \/ driver = "postgres" /\ source' = "no driver" /\ out' = "destroyed"
  /\ UNCHANGED <<driver, onData, holder, given, inData, pending, ended, hasError, written, closed, returned, taken>>

Data ==
  LET skipped == hasError /\ driver \in {"mssql", "oracledb"}
  IN  /\ source = "flowing" /\ given < RowCount
      /\ given' = given + 1
      /\ \/ /\ ~skipped /\ (onData \/ driver = "sqlite")
            /\ inData' = inData \cup {given'} /\ pending' = pending + 1 /\ UNCHANGED written
         \/ /\ ~skipped /\ ~onData /\ driver # "sqlite"
            /\ Writes(given') /\ UNCHANGED <<inData, pending>>
         \/ skipped /\ UNCHANGED <<written, inData, pending>>
      /\ UNCHANGED <<driver, onData, holder, source, ended, hasError, out, closed, returned, taken>>

\* onData writes its row, and then its promise resolves, in any order of the rows.
Resolve(n) ==
  /\ n \in inData /\ inData' = inData \ {n}
  /\ Writes(n)
  /\ pending' = pending - 1
  /\ Finish(ended, pending')
  /\ UNCHANGED <<driver, onData, source, given, ended, hasError, closed>>

\* pending is not counted down: no later row finishes the stream.
Reject(n) ==
  /\ onData /\ n \in inData /\ inData' = inData \ {n}
  /\ Destroys
  /\ UNCHANGED <<driver, onData, source, given, pending, ended, written, closed>>

End ==
  /\ source = "flowing" /\ given = RowCount
  /\ source' = "ended" /\ ended' = TRUE
  /\ Finish(TRUE, pending)
  /\ UNCHANGED <<driver, onData, given, inData, pending, hasError, written, closed>>

Fail ==
  /\ source = "flowing"
  /\ source' = "failed"
  /\ Destroys
  /\ UNCHANGED <<driver, onData, given, inData, pending, ended, written, closed>>

\* The caller leaves its loop: the source is not told.
Leave ==
  /\ source # "opening" /\ out = "open" /\ out' = "destroyed"
  /\ UNCHANGED <<driver, onData, holder, source, given, inData, pending, ended, hasError, written, closed, returned, taken>>

\* Only the mysql branch listens to close.
Close ==
  /\ driver = "mysql" /\ out # "open" /\ ~closed
  /\ TryRelease /\ closed' = TRUE
  /\ UNCHANGED <<driver, onData, source, given, inData, pending, ended, hasError, written, out>>

Another ==
  /\ \/ holder = "free" /\ holder' = "other"
     \/ holder = "other" /\ holder' = "free"
  /\ UNCHANGED <<driver, onData, source, given, inData, pending, ended, hasError, written, out, closed, returned, taken>>

StreamNext ==
  \/ Open \/ Data \/ End \/ Fail \/ Leave \/ Close \/ Another
  \/ \E n \in 1..RowCount : Resolve(n) \/ Reject(n)

StreamSpec == StreamInit /\ [][StreamNext]_streamVars

-----------------------------------------------------------------------------
(* Properties.                                                             *)

\* A stream that ended has passed every row on, each once, in whatever order onData
\* settled them; and when neither the source nor onData has anything left, the stream
\* is over and its connection given back, whether rows, onData or the caller failed it
\* (sql_runner.ts 346-407, 465-505). Without the import of postgres its client stays.
\* In postgres what it gives back is its own: "The stream must NOT release it on finish -
\* that's the transaction's job" (413-423); mysql and oracledb have no such test.
StreamSettles ==
  /\ out = "ended" => Len(written) = RowCount /\ {written[i] : i \in 1..RowCount} = 1..RowCount
  /\ source \in {"ended", "failed"} /\ inData = {} => out # "open" /\ holder # "stream"
  /\ driver = "postgres" => taken = "none"
=============================================================================
