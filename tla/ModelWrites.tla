----------------------------- MODULE ModelWrites ------------------------------
(***************************************************************************)
(* The writes of a ModelManager that answer rows: how each database tells  *)
(* which rows a call wrote, and what others may do between the write and   *)
(* the read that follows it.  A row is its unique columns a and b and one  *)
(* more, v; rows are named by their generated primary keys.                *)
(***************************************************************************)
EXTENDS Naturals, FiniteSets, Sequences

CONSTANTS
  Writers,    \* the callers, each with one call
  Databases,  \* the dialects considered
  Indexes,    \* the unique index of the table, a list of columns; none when empty
  Hidings,    \* what a beforeFetch hook of the model hides, values of v
  Calls       \* the calls considered

VARIABLES
  dialect, index, call,
  hidden,  \* the values of v that the model's hook hides from a read that runs it
  table,   \* primary key -> row
  lastId,  \* the last one given out
  step,    \* where each call is
  left,    \* the models a call has still to insert one by one
  reading, \* the primary keys it has still to read back
  mine,    \* history: the rows it wrote
  answer,  \* the rows it answers
  gone,    \* history: the rows deleted
  unseen   \* history: the rows the hook hid from the read of a call

writeVars == <<dialect, index, call, hidden, table, lastId, step, left, reading, mine, answer, gone, unseen>>

Columns == {"a", "b"}

\* data: the models; on: the conflict columns; update: updateOnConflict; sets:
\* columnsToUpdate; id: the record to update or delete.
Call ==
  [name : {"insert", "insertMany", "upsertMany", "firstOrInsert", "updateRecord", "deleteRecord"},
   data : Seq([a : Nat, b : Nat, v : Nat]), on : Seq(Columns), update : BOOLEAN,
   sets : SUBSET (Columns \cup {"v"}), id : Nat]

\* firstOrInsert() and updateRecord() are given the one model they write, upsertMany()
\* at least one conflict column.
ASSUME ModelWritesAssumption ==
  /\ Databases \subseteq {"mysql", "postgres", "sqlite", "mssql", "oracledb"}
  /\ Indexes \subseteq Seq(Columns) /\ Calls \subseteq Call
  /\ \A c \in Calls : /\ c.name \in {"firstOrInsert", "updateRecord"} => Len(c.data) = 1
                      /\ c.name = "upsertMany" => c.on # <<>>

Same(row, other, columns) == \A i \in DOMAIN columns : row[columns[i]] = other[columns[i]]

\* The rows of t that a unique index holds against a new one.
Against(row, t, columns) ==
  {id \in DOMAIN t : columns # <<>> /\ Same(t[id], row, columns)}

OneByOne(w) == call[w].name = "insertMany" /\ dialect \in {"sqlite", "oracledb"}

Ends(w, how) == step' = [step EXCEPT ![w] = how]

\* A read through many() that runs the hook finds the rows it does not hide.
Finds(w, ids) ==
  LET shown == {id \in ids : table[id].v \notin hidden}
  IN  answer' = [answer EXCEPT ![w] = shown] /\ unseen' = [unseen EXCEPT ![w] = ids \ shown]

-----------------------------------------------------------------------------

WriteInit ==
  /\ dialect \in Databases /\ index \in Indexes /\ call \in [Writers -> Calls]
  /\ \A w \in Writers : call[w].name = "upsertMany" => call[w].on = index
  /\ table = [i \in {1} |-> [a |-> 1, b |-> 1, v |-> 0]] /\ lastId = 1
  /\ step = [w \in Writers |-> IF call[w].name = "firstOrInsert" THEN "find" ELSE "write"]
  /\ left = [w \in Writers |-> DOMAIN call[w].data]
  /\ reading = [w \in Writers |-> {}] /\ mine = [w \in Writers |-> {}]
  /\ answer = [w \in Writers |-> {}] /\ gone = {}
  /\ hidden \in Hidings /\ unseen = [w \in Writers |-> {}]

\* firstOrInsert() looks for one row by its criteria, here the column a, without the
\* hook.
FindOne(w) ==
  LET found == {id \in DOMAIN table : table[id].a = call[w].data[1].a}
  IN  /\ step[w] = "find"
      /\ \/ /\ found = {} /\ Ends(w, "write") /\ UNCHANGED answer
         \/ \E id \in found : Ends(w, "done") /\ answer' = [answer EXCEPT ![w] = {id}]
      /\ UNCHANGED <<dialect, index, call, hidden, table, lastId, left, reading, mine, gone, unseen>>

\* One statement for all the models. postgres and mssql answer its rows, mysql the
\* first key and a count, sqlite the last key; oracledb answers the model as given.
Insert(w) ==
  LET data == call[w].data
      ids == (lastId + 1)..(lastId + Len(data))
      refused == \/ \E i \in DOMAIN data : Against(data[i], table, index) # {}
                 \/ index # <<>> /\ \E i, j \in DOMAIN data : i # j /\ Same(data[i], data[j], index)
  IN  /\ step[w] = "write" /\ call[w].name \in {"insert", "insertMany", "firstOrInsert"} /\ ~OneByOne(w)
      /\ \/ refused /\ Ends(w, "failed") /\ UNCHANGED <<table, lastId, mine, answer, reading>>
         \/ /\ ~refused
            /\ table' = [id \in DOMAIN table \cup ids |-> IF id \in ids THEN data[id - lastId] ELSE table[id]]
            /\ lastId' = lastId + Len(data)
            /\ mine' = [mine EXCEPT ![w] = ids]
            /\ answer' = [answer EXCEPT ![w] = IF dialect \in {"postgres", "mssql"} THEN ids ELSE {}]
            /\ reading' = [reading EXCEPT ![w] = IF dialect \in {"mysql", "sqlite"} THEN ids ELSE {}]
            /\ Ends(w, IF dialect \in {"mysql", "sqlite"} THEN "read" ELSE "done")
      /\ UNCHANGED <<dialect, index, call, hidden, left, gone, unseen>>

\* sqlite starts a statement for every model and rejects with the first that is
\* refused, while the others go on; oracledb waits for each.
InsertNext(w) ==
  \E i \in left[w] :
    LET row == call[w].data[i]
        refused == Against(row, table, index) # {}
    IN  /\ step[w] \in {"write", "failing"} /\ OneByOne(w)
        /\ dialect = "oracledb" => reading[w] = {} /\ \A j \in left[w] : i <= j
        /\ left' = [left EXCEPT ![w] = IF refused /\ dialect = "oracledb" THEN {} ELSE @ \ {i}]
        /\ \/ refused /\ Ends(w, "failing") /\ UNCHANGED <<table, lastId, mine, reading>>
           \/ /\ ~refused
              /\ lastId' = lastId + 1
              /\ table' = [id \in DOMAIN table \cup {lastId'} |-> IF id = lastId' THEN row ELSE table[id]]
              /\ mine' = [mine EXCEPT ![w] = @ \cup {lastId'}]
              /\ reading' = [reading EXCEPT ![w] = @ \cup {lastId'}]
              /\ UNCHANGED step
        /\ UNCHANGED <<dialect, index, call, hidden, answer, gone, unseen>>

\* mysql reads the range of keys, through the hook; sqlite the key of each row, oracledb
\* the row of the highest key that has the values inserted, without it.
ReadBack(w) ==
  /\ reading[w] # {}
  /\ \/ /\ dialect = "mysql"
        /\ reading' = [reading EXCEPT ![w] = {}]
        /\ Finds(w, reading[w] \cap DOMAIN table)
     \/ /\ dialect = "sqlite" /\ UNCHANGED unseen
        /\ \E id \in reading[w] :
             /\ reading' = [reading EXCEPT ![w] = @ \ {id}]
             /\ answer' = [answer EXCEPT ![w] = @ \cup ({id} \cap DOMAIN table)]
     \/ /\ dialect = "oracledb" /\ UNCHANGED unseen
        /\ LET row == call[w].data[Cardinality(mine[w])]
               equal == {id \in DOMAIN table : table[id] = row}
           IN  answer' = [answer EXCEPT ![w] = @ \cup {id \in equal : \A x \in equal : x <= id}]
        /\ reading' = [reading EXCEPT ![w] = {}]
  /\ UNCHANGED <<dialect, index, call, hidden, table, lastId, step, left, mine, gone>>

Settle(w) ==
  /\ step[w] \in {"read", "failing", "write"} /\ reading[w] = {}
  /\ step[w] = "read" \/ (OneByOne(w) /\ left[w] = {})
  /\ Ends(w, IF step[w] = "failing" THEN "failed" ELSE "done")
  /\ UNCHANGED <<dialect, index, call, hidden, table, lastId, left, reading, mine, answer, gone, unseen>>

\* One row of INSERT ... ON CONFLICT, ON DUPLICATE KEY or MERGE; a row it conflicts
\* with is ignored if no columns are to be set. s is the table, its last key and the
\* rows written so far.
Put(s, row, columns, sets) ==
  LET against == Against(row, s.t, columns)
      ids == IF against = {} THEN {s.last + 1} ELSE IF sets # {} THEN against ELSE {}
      new(id) == IF against = {} THEN row ELSE [x \in DOMAIN row |-> IF x \in sets THEN row[x] ELSE s.t[id][x]]
  IN  [t |-> [id \in DOMAIN s.t \cup ids |-> IF id \in ids THEN new(id) ELSE s.t[id]],
       last |-> IF against = {} THEN s.last + 1 ELSE s.last,
       wrote |-> s.wrote \cup ids]

\* All the rows of a statement, one after another.
PutAll(t, last, data, columns, sets) ==
  LET after[n \in 0..Len(data)] ==
        IF n = 0 THEN [t |-> t, last |-> last, wrote |-> {}]
        ELSE Put(after[n - 1], data[n], columns, sets)
  IN  after[Len(data)]

\* mssql's MERGE sets what is not a conflict column.
Sets(w) ==
  LET conflict == {call[w].on[i] : i \in DOMAIN call[w].on}
  IN  IF ~call[w].update THEN {} ELSE call[w].sets \ IF dialect = "mssql" THEN conflict ELSE {}

\* What is written for oracledb is none of the three statements. Nothing to set is no
\* clause for mssql and a syntax error elsewhere; postgres and mssql do not set a row
\* twice, and MERGE inserts both of two models that only meet one another.
UpsertRefused(w) ==
  LET data == call[w].data
      twice(i) == \E j \in DOMAIN data : i # j /\ Same(data[i], data[j], call[w].on)
  IN  \/ dialect = "oracledb"
      \/ dialect # "mssql" /\ call[w].update /\ call[w].sets = {}
      \/ dialect \in {"postgres", "mssql"} /\ Sets(w) # {} /\ \E i \in DOMAIN data : twice(i)
      \/ dialect = "mssql" /\ \E i \in DOMAIN data : twice(i) /\ Against(data[i], table, call[w].on) = {}

\* postgres and mssql answer the rows that were written, and look up the others when
\* some, or all, were to be ignored.
Upsert(w) ==
  LET data == call[w].data
      result == PutAll(table, lastId, data, call[w].on, Sets(w))
      refetch == \/ dialect \in {"mysql", "sqlite"}
                 \/ dialect = "postgres" /\ ~call[w].update /\ Cardinality(result.wrote) < Len(data)
                 \/ dialect = "mssql" /\ ~call[w].update /\ result.wrote = {}
  IN  /\ step[w] = "write" /\ call[w].name = "upsertMany"
      /\ \/ /\ UpsertRefused(w)
            /\ Ends(w, "failed") /\ UNCHANGED <<table, lastId, mine, answer>>
         \/ /\ ~UpsertRefused(w)
            /\ table' = result.t /\ lastId' = result.last
            /\ mine' = [mine EXCEPT ![w] = result.wrote]
            /\ answer' = [answer EXCEPT ![w] = IF refetch THEN {} ELSE result.wrote]
            /\ Ends(w, IF refetch THEN "refetch" ELSE "done")
      /\ UNCHANGED <<dialect, index, call, hidden, left, reading, gone, unseen>>

\* A mutant: the value of the first model only.
RefetchFirst(w) ==
  LET key == call[w].on[1]
  IN  /\ step[w] = "refetch"
      /\ Finds(w, {id \in DOMAIN table : table[id][key] = call[w].data[1][key]})
      /\ Ends(w, "done")
      /\ UNCHANGED <<dialect, index, call, hidden, table, lastId, left, reading, mine, gone>>

\* whereIn on the first of the conflict columns, through the hook.
Refetch(w) ==
  LET key == call[w].on[1]
      values == {call[w].data[i][key] : i \in DOMAIN call[w].data}
  IN  /\ step[w] = "refetch"
      /\ Finds(w, {id \in DOMAIN table : table[id][key] \in values})
      /\ Ends(w, "done")
      /\ UNCHANGED <<dialect, index, call, hidden, table, lastId, left, reading, mine, gone>>

\* The key columns are not among the values updateRecord() writes here.
UpdateRecord(w) ==
  LET id == call[w].id
  IN  /\ step[w] = "write" /\ call[w].name = "updateRecord"
      /\ table' = [x \in DOMAIN table |-> IF x = id THEN [table[x] EXCEPT !.v = call[w].data[1].v] ELSE table[x]]
      /\ mine' = [mine EXCEPT ![w] = {id} \cap DOMAIN table]
      /\ Ends(w, "find one")
      /\ UNCHANGED <<dialect, index, call, hidden, lastId, left, reading, answer, gone, unseen>>

FindUpdated(w) ==
  LET found == {call[w].id} \cap DOMAIN table
  IN  /\ step[w] = "find one"
      /\ answer' = [answer EXCEPT ![w] = found]
      /\ Ends(w, IF found = {} THEN "failed" ELSE "done")
      /\ UNCHANGED <<dialect, index, call, hidden, table, lastId, left, reading, mine, gone, unseen>>

DeleteRecord(w) ==
  LET id == call[w].id
  IN  /\ step[w] = "write" /\ call[w].name = "deleteRecord"
      /\ gone' = gone \cup {<<x, table[x]>> : x \in {id} \cap DOMAIN table}
      /\ table' = [x \in DOMAIN table \ {id} |-> table[x]]
      /\ Ends(w, "done")
      /\ UNCHANGED <<dialect, index, call, hidden, lastId, left, reading, mine, answer, unseen>>

WriteNext ==
  \E w \in Writers :
    \/ FindOne(w)
    \/ Insert(w)
    \/ InsertNext(w)
    \/ ReadBack(w)
    \/ Settle(w)
    \/ Upsert(w)
    \/ Refetch(w)
    \/ UpdateRecord(w)
    \/ FindUpdated(w)
    \/ DeleteRecord(w)

WriteSpec == WriteInit /\ [][WriteNext]_writeVars

-----------------------------------------------------------------------------
(* Properties.                                                             *)

Inserts(w) == call[w].name \in {"insert", "insertMany"}
Deleted == {x[1] : x \in gone}
RowOf(id) == IF id \in DOMAIN table THEN table[id] ELSE (CHOOSE x \in gone : x[1] = id)[2]

\* mssql has no clause for the rows that match.
MergeIgnores(w) == dialect = "mssql" /\ Sets(w) = {}

\* A call that settles answers the rows it wrote and no others, whatever is written
\* between its write and the read that follows; an upsert answers a row for every
\* model it was given. Not so where oracledb is asked for one row (execSql has no
\* rows for it) or finds an equal row of another, where the conflict columns are
\* several and only the first is looked up, where the read runs the model's
\* beforeFetch hook, which hides the row (mysql, and every lookup of an upsert), and
\* where mssql ignores rows that match: it looks them up only if it was asked to
\* ignore them and inserted none (model_manager.ts 636-666, 730-772, 928-952,
\* 1016-1029).  A call that is rejected has written nothing, unless it writes model by
\* model (sql_runner_utils.ts 241-304) or its row was deleted before updateRecord()
\* reads it.
AnswersItsRows ==
  \A w \in Writers :
    /\ step[w] = "failed" /\ ~OneByOne(w) => mine[w] \subseteq Deleted
    /\ step[w] = "done" /\ Inserts(w) /\ dialect # "oracledb" =>
         answer[w] \subseteq mine[w] /\ mine[w] \ Deleted \subseteq answer[w] \cup unseen[w]
    /\ step[w] = "done" /\ call[w].name = "upsertMany" =>
         /\ Len(call[w].on) = 1 =>
              \A id \in answer[w] : \E i \in DOMAIN call[w].data : Same(RowOf(id), call[w].data[i], call[w].on)
         /\ ~MergeIgnores(w) \/ (~call[w].update /\ mine[w] = {}) =>
              \A i \in DOMAIN call[w].data :
                   \E id \in answer[w] \cup Deleted \cup unseen[w] :
                     Same(RowOf(id), call[w].data[i], call[w].on)
=============================================================================
