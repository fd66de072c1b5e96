----------------------------- MODULE QueryBuilder -----------------------------
(***************************************************************************)
(* A query builder: the clauses its methods add, the statement the parser  *)
(* makes of them, with its placeholders, its bindings and the connectives  *)
(* of its conditions, and the operations that run it.                      *)
(*                                                                         *)
(* A value is a pair: the call that gave it and its place there; call 0 is *)
(* what no call gave (a default, a column the model fills in, a hook).  A  *)
(* text keeps its placeholders in order (marks), each with the number      *)
(* written and the value meant, the bindings, and the words of its         *)
(* conditions.                                                             *)
(***************************************************************************)
EXTENDS Naturals, Sequences, FiniteSets, SequencesExt

CONSTANTS
  Dialects,   \* the databases considered; sqlite writes what mysql does
  AutoColumns, \* columns of the model that a write fills in by itself
  MaxCalls,   \* bound on the calls of a behaviour; a last one may await an operation
  MaxClauses  \* bound on the calls after which a clause may still be added

ASSUME QueryBuilderAssumption ==
  /\ Dialects \subseteq {"postgres", "mysql", "mssql", "oracledb"}
  /\ {AutoColumns, MaxCalls, MaxClauses} \subseteq Nat

VARIABLES
  dialect,
  clause,   \* the nodes of every clause
  write,    \* the insert, duplicate, update, delete and truncate nodes
  made,     \* the write operations that were made, which await runs
  calls,    \* how many calls were made
  sent      \* the statements of the last call: shown, run, counted

vars == <<dialect, clause, write, made, calls, sent>>

Lists == {"with", "distinct", "select", "from", "join", "where", "group_by", "having",
          "order_by", "limit", "offset", "lock", "union"}
Writes == {"insert", "on_duplicate", "update", "delete", "truncate"}

-----------------------------------------------------------------------------
(* Nodes.                                                                  *)

Node(folder, chain, form, vals, sub) ==
  [folder |-> folder, chain |-> chain, form |-> form, vals |-> vals, sub |-> sub,
   id |-> calls]

\* The values a call gives from its k-th on.
Values(k, n) == [i \in 1 .. n |-> <<calls, k + i>>]

Plain(folder) == Node(folder, "", "own", <<>>, <<>>)
Valued(folder, n) == Node(folder, "", "own", Values(0, n), <<>>)
Condition(chain, n) == Node("where", chain, "own", Values(0, n), <<>>)

\* A value that is undefined: the condition has no text.
Undefined(chain) == Node("where", chain, "gone", <<>>, <<>>)

\* Text given as it is, with ? for its values.
Raw(folder, chain, n) ==
  Node(folder, chain, IF n = 0 THEN "own" ELSE "raw", Values(0, n), <<>>)

RawCondition(chain, k) == Node("where", chain, "raw", Values(k, 1), <<>>)

\* What a callback may build: no condition, one without a text, a raw one, two.
Conditions ==
  {<<>>,
   <<Undefined("and")>>,
   <<RawCondition("and", 0)>>,
   <<Condition("and", 1), Node("where", "or", "own", Values(1, 1), <<>>)>>,
   <<Condition("and", 1), RawCondition("or", 1)>>}

\* The nodes of a sub-query: without values, with a condition and a limit, with a
\* join on a value, with a raw condition.
Subqueries ==
  {<<Plain("select"), Plain("from")>>,
   <<Plain("select"), Plain("from"), Condition("and", 1),
     Node("limit", "", "own", Values(1, 1), <<>>)>>,
   <<Plain("select"), Plain("from"), Node("join", "", "query", <<>>, <<Condition("and", 1)>>)>>,
   <<Plain("select"), Plain("from"), RawCondition("and", 0)>>}

Subquery(chain) == {Node("where", chain, "query", <<>>, q) : q \in Subqueries}

Group(chain) == {Node("where", chain, "group", <<>>, g) : g \in Conditions}

-----------------------------------------------------------------------------
(* The parser and the interpreters.                                        *)

RECURSIVE Parse(_, _)

\* Placeholders numbered from idx.
Numbered(idx, vals) ==
  [marks |-> [i \in DOMAIN vals |-> [num |-> idx + i - 1, means |-> vals[i]]],
   binds |-> vals, words |-> <<>>]

Both(s, t) ==
  [marks |-> s.marks \o t.marks, binds |-> s.binds \o t.binds,
   words |-> s.words \o t.words]

Nothing == [marks |-> <<>>, binds |-> <<>>, words |-> <<>>]

WhereText(node, idx) == Numbered(idx, node.vals)

\* A raw condition keeps its ?.
RawText(node) ==
  [marks |-> [i \in DOMAIN node.vals |-> [num |-> 0, means |-> node.vals[i]]],
   binds |-> node.vals, words |-> <<>>]

\* Mutant: the conditions of a group are numbered from 1 again.
GroupFromOne(node, idx) ==
  LET s == Parse(node.sub, 1)
  IN [s EXCEPT !.words = <<"(">> \o s.words \o <<")">>]

GroupText(node, idx) ==
  LET s == Parse(node.sub, idx)
  IN [s EXCEPT !.words = <<"(">> \o s.words \o <<")">>]

SubqueryText(node, idx) == [Parse(node.sub, idx) EXCEPT !.words = <<>>]

WithText(node, idx) == [Parse(node.sub, idx) EXCEPT !.words = <<>>]

UnionText(node, idx) == [Parse(node.sub, idx) EXCEPT !.words = <<>>]

\* The sub-query of a select or a from clause is numbered from 1.
FromText(node) == [Parse(node.sub, 1) EXCEPT !.words = <<>>]
SelectText(node) == [Parse(node.sub, 1) EXCEPT !.words = <<>>]

\* Every condition of a join is parsed by itself, numbered from 1, and all are
\* put behind "and".
JoinText(node) ==
  [FoldLeft(Both, Nothing, [i \in DOMAIN node.sub |-> Parse(<<node.sub[i]>>, 1)])
     EXCEPT !.words = <<>>]

HavingText(node, idx) == Numbered(idx, node.vals)

InsertText(node, idx) == Numbered(idx, node.vals)

\* A raw value of an update takes no number.
UpdateText(node, idx) == Numbered(idx, node.vals)

Interpret(node, idx) ==
  CASE node.form = "raw" -> RawText(node)
    [] node.form = "group" -> GroupText(node, idx)
    [] node.form = "query" /\ node.folder = "where" -> SubqueryText(node, idx)
    [] node.form = "query" /\ node.folder = "with" -> WithText(node, idx)
    [] node.form = "query" /\ node.folder = "union" -> UnionText(node, idx)
    [] node.form = "query" /\ node.folder = "from" -> FromText(node)
    [] node.form = "query" /\ node.folder = "select" -> SelectText(node)
    [] node.form = "query" /\ node.folder = "join" -> JoinText(node)
    [] node.folder = "having" -> HavingText(node, idx)
    [] node.folder = "insert" -> InsertText(node, idx)
    [] node.folder = "update" -> UpdateText(node, idx)
    [] OTHER -> WhereText(node, idx)

\* What leaves no text: an undefined value, a group without conditions.
Gone(node) == node.form = "gone" \/ (node.form = "group" /\ node.sub = <<>>)

Has(nodes, folder) == \E i \in DOMAIN nodes : nodes[i].folder = folder
The(nodes, folder) == SelectSeq(nodes, LAMBDA n : n.folder = folder)

\* mssql takes a limit alone as TOP; mssql and oracledb put a limit and an offset
\* last, in one clause.
Top(nodes) ==
  dialect = "mssql" /\ Has(nodes, "limit") /\ ~Has(nodes, "offset") /\ ~Has(nodes, "order_by")

OffsetFetch(nodes) ==
  /\ dialect \in {"mssql", "oracledb"}
  /\ Has(nodes, "limit") \/ Has(nodes, "offset")
  /\ ~Top(nodes)

\* offset defaults to 0.
FetchText(nodes, idx) ==
  LET skipped == IF Has(nodes, "offset") THEN The(nodes, "offset")[1].vals ELSE <<<<0, 0>>>>
      taken == IF Has(nodes, "limit") THEN The(nodes, "limit")[1].vals ELSE <<>>
  IN Numbered(idx, skipped \o taken)

\* Mutant: a condition is followed by its own connective.
OwnConnective(nodes, i) ==
  IF i = Len(nodes) \/ nodes[i + 1].folder # nodes[i].folder THEN <<>> ELSE <<nodes[i].chain>>

\* A node is followed by the connective of the next one, if that is of its kind.
Connective(nodes, i) ==
  IF i = Len(nodes) \/ nodes[i + 1].folder # nodes[i].folder THEN <<>>
                                                             ELSE <<nodes[i + 1].chain>>

\* The words of the i-th node: a condition is one word, a group its words.
Words(nodes, i, s) ==
  IF nodes[i].folder \notin {"where", "having"} THEN <<>>
  ELSE (IF nodes[i].form = "group" THEN s.words ELSE <<nodes[i].id>>) \o Connective(nodes, i)

\* parse(): nodes without a text are left out; every other one is interpreted from
\* the index after the bindings so far.  The value of TOP comes first.
Parse(nodes, start) ==
  LET limitFirst == IF Top(nodes) THEN The(nodes, "limit")[1].vals ELSE <<>>
      Apart(n) == n.folder \in {"limit", "offset"} /\ (Top(nodes) \/ OffsetFetch(nodes))
      FirstSelect(i) ==
        nodes[i].folder = "select" /\ \A j \in 1 .. i - 1 : nodes[j].folder # "select"
      Add(t, i) ==
        LET s == Interpret(nodes[i], start + Len(t.binds))
            top == IF FirstSelect(i) THEN Numbered(start, limitFirst).marks ELSE <<>>
        IN IF Apart(nodes[i]) \/ Gone(nodes[i]) THEN t
           ELSE [marks |-> t.marks \o top \o s.marks, binds |-> t.binds \o s.binds,
                 words |-> t.words \o Words(nodes, i, s)]
      body == FoldLeft(Add, [Nothing EXCEPT !.binds = limitFirst],
                       [i \in DOMAIN nodes |-> i])
  IN IF OffsetFetch(nodes) THEN Both(body, FetchText(nodes, start + Len(body.binds)))
                           ELSE body

\* extractQueryNodes(): an insert hides every other clause, then an update, a
\* delete, a truncate; a read has them all.  distinct is merged into select.
Extract(c, w) ==
  IF w["insert"] # <<>> THEN w["insert"] \o w["on_duplicate"]
  ELSE IF w["update"] # <<>>
    THEN w["update"] \o c["where"] \o c["join"] \o c["order_by"] \o c["limit"]
  ELSE IF w["delete"] # <<>>
    THEN w["delete"] \o c["where"] \o c["join"] \o c["order_by"] \o c["limit"]
  ELSE IF w["truncate"] # <<>> THEN w["truncate"]
  ELSE c["with"] \o (IF c["select"] = <<>> THEN <<Plain("select")>> ELSE c["select"])
       \o c["from"] \o c["join"] \o c["where"] \o c["group_by"] \o c["having"]
       \o c["order_by"] \o c["limit"] \o c["offset"] \o c["lock"] \o c["union"]

Statement == Parse(Extract(clause, write), 1)

\* The binding a driver puts at the k-th placeholder: postgres goes by the numbers,
\* a ? having got the next one from 1; the runner renumbers those of mssql by
\* place, and the other drivers bind by place.
Received(text, k) ==
  LET marks == SelectSeq(SubSeq(text.marks, 1, k), LAMBDA m : m.num = 0)
      n == IF dialect # "postgres" THEN k
           ELSE IF text.marks[k].num = 0 THEN Len(marks) ELSE text.marks[k].num
  IN {text.binds[i] : i \in {n} \cap DOMAIN text.binds}

-----------------------------------------------------------------------------
(* The methods that add a clause.                                          *)

Nowhere == [shown |-> <<>>, ran |-> <<>>, counted |-> <<>>, cursor |-> {}]

Init ==
  /\ dialect \in Dialects
  /\ clause = [l \in Lists |-> IF l = "from"
                 THEN <<[folder |-> "from", chain |-> "", form |-> "own", vals |-> <<>>,
                         sub |-> <<>>, id |-> 0]>>
                 ELSE <<>>]
  /\ write = [w \in Writes |-> <<>>]
  /\ made = {}
  /\ calls = 1
  /\ sent = Nowhere

Called ==
  /\ calls <= MaxClauses
  /\ calls' = calls + 1
  /\ sent' = Nowhere
  /\ UNCHANGED <<dialect, write, made>>

Add(list, node) == Called /\ clause' = [clause EXCEPT ![list] = Append(@, node)]

Replace(list, node) == Called /\ clause' = [clause EXCEPT ![list] = <<node>>]

Clear(lists) == Called /\ clause' = [l \in Lists |-> IF l \in lists THEN <<>> ELSE clause[l]]

\* What andWhere() adds: a comparison with a value, a raw value or none, a group,
\* a sub-query.
Compared(chain) ==
  {Condition(chain, 0), Condition(chain, 1), Undefined(chain)}
    \cup Group(chain) \cup Subquery(chain)

Chains == {"and", "or"}

Where == \E n \in Compared("and") : Add("where", n)
OrWhere == \E n \in Compared("or") : Add("where", n)
WhereColumn == \E c \in Chains : Add("where", Condition(c, 0))

Negated(chain) ==
  {Condition(chain, 0), Condition(chain, 1), Undefined(chain)} \cup Subquery(chain)

WhereNot == \E n \in Negated("and") : Add("where", n)
OrWhereNot == \E n \in Negated("or") : Add("where", n)
WhereBetween == \E c \in Chains : Add("where", Condition(c, 2))
WhereLike == \E c \in Chains : Add("where", Condition(c, 1))
WhereNotLike == \E c \in Chains : Add("where", Condition(c, 1))

\* An empty list is the text false, respectively true.
WhereIn ==
  \E c \in Chains : \E n \in {Condition(c, k) : k \in 0 .. 2} \cup Subquery(c) : Add("where", n)
WhereNotIn ==
  \E c \in Chains : \E n \in {Condition(c, k) : k \in 0 .. 2} \cup Subquery(c) : Add("where", n)

WhereNull == \E c \in Chains : Add("where", Condition(c, 0))
WhereRegexp == \E c \in Chains : Add("where", Condition(c, 1))
WhereExists == \E c \in Chains : \E n \in Subquery(c) : Add("where", n)
WhereRaw == \E c \in Chains, k \in 0 .. 1 : Add("where", Raw("where", c, k))
WhereJson == \E c \in Chains : Add("where", Condition(c, 1))
WhereJsonRaw == \E c \in Chains, k \in 0 .. 1 : Add("where", Raw("where", c, k))
Having == Add("having", Node("having", "and", "own", Values(0, 1), <<>>))
OrHaving ==
  \/ Add("having", Node("having", "or", "own", Values(0, 1), <<>>))
  \/ \E c \in Chains : Add("having", Raw("having", c, 0))

ClearWhere == Clear({"where"}) \/ Clear({"having"})

\* when() and strictWhen() call back, or do nothing.
When == Add("where", Condition("and", 1)) \/ Clear({})

JoinRaw == Add("join", Plain("join"))

\* What a JoinOnQueryBuilder collects; an empty group is not added.
OnWhere(c) == {Condition(c, 1), Undefined(c)}
OnBetween(c) == {Condition(c, 2)}
OnLike(c) == {Condition(c, 1)}
OnIn(c) == {Condition(c, k) : k \in 0 .. 2}
OnNull(c) == {Condition(c, 0)}
OnRegexp(c) == {Condition(c, 1)}
OnGroup(c) == {n \in Group(c) : n.sub # <<>>}
OnRaw(c) == {Raw("where", c, k) : k \in 0 .. 1}

OnOne(c) ==
  UNION {OnWhere(c), OnBetween(c), OnLike(c), OnIn(c), OnNull(c), OnRegexp(c), OnGroup(c),
         OnRaw(c)}

On == {c \in Conditions : Len(c) # 1} \cup {<<n>> : n \in OnOne("or")}

Join == \E on \in On : Add("join", Node("join", "", "query", <<>>, on))
LeftJoin == Join
RightJoin == Join
FullJoin == Join
ClearJoin == Clear({"join"})

Select ==
  \/ Add("select", Plain("select"))
  \/ \E q \in Subqueries : Add("select", Node("select", "", "query", <<>>, q))
SelectRaw == Add("select", Plain("select"))
SelectJson == Add("select", Plain("select"))
ClearSelect == Clear({"select"})
Distinct == Replace("distinct", Plain("distinct"))

\* A sub-query needs an alias.
Table ==
  \/ Replace("from", Plain("from"))
  \/ \E q \in Subqueries : Replace("from", Node("from", "", "query", <<>>, q))

With == \E q \in Subqueries : Add("with", Node("with", "", "query", <<>>, q))

\* A text given to union() keeps none of its bindings.
Union ==
  \/ Add("union", Plain("union"))
  \/ \E q \in Subqueries : Add("union", Node("union", "", "query", <<>>, q))

GroupBy == Add("group_by", Plain("group_by"))
OrderBy == Add("order_by", Plain("order_by"))
Limit == Replace("limit", Valued("limit", 1))
Offset == Replace("offset", Valued("offset", 1))
Lock == Add("lock", Plain("lock"))
ClearFooter == \E l \in {"group_by", "order_by", "limit", "offset"} : Clear({l})
ClearRest == \E l \in {"lock", "union", "with"} : Clear({l})

-----------------------------------------------------------------------------
(* The operations that run a statement.                                    *)

Performed == calls <= MaxCalls /\ calls' = calls + 1 /\ UNCHANGED dialect

\* unWrap() leaves the default column behind.
Selected(c) == IF c["select"] = <<>> THEN [c EXCEPT !["select"] = <<Plain("select")>>] ELSE c

\* A read of what the builder holds after its clauses became c.
Reading(c) ==
  /\ Performed
  /\ clause' = Selected(c)
  /\ sent' = [Nowhere EXCEPT !.ran = Extract(Selected(c), write)]
  /\ UNCHANGED <<write, made>>

\* many(), stream(), pluck().
Many == Reading(clause)

\* one() and exists() leave their limit behind.
One == Reading([clause EXCEPT !["limit"] = <<Valued("limit", 1)>>])

Window(c) == [c EXCEPT !["limit"] = <<Node("limit", "", "own", Values(2, 1), <<>>)>>,
                       !["offset"] = <<Node("offset", "", "own", Values(3, 1), <<>>)>>]

Chunk == Reading(Window(clause))

\* clearForFunctions().
ForFunctions(c) ==
  [l \in Lists |->
     IF l \in {"select", "group_by", "order_by", "limit", "offset"} THEN <<>> ELSE c[l]]

\* getCount() of a builder: one row of a function of the rows.
Counting(c) ==
  [ForFunctions(c) EXCEPT !["select"] = <<Plain("select")>>,
                          !["limit"] = <<Node("limit", "", "own", Values(4, 1), <<>>)>>]

\* getCount(), getMax(), getMin(), getAvg(), getSum().
Aggregate == Reading(Counting(clause))

\* clone() copies the clauses, not the write nodes.
NoWrite == [w \in Writes |-> <<>>]

\* Mutant: the count is taken from a copy made before the joins are known.
CountWithoutJoins(page, counted, cursor) ==
  /\ Performed
  /\ clause' = Selected(page)
  /\ sent' = [Nowhere EXCEPT !.ran = Extract(Selected(page), write),
                 !.counted = Extract([Counting(counted) EXCEPT !["join"] = <<>>], NoWrite),
                 !.cursor = cursor]
  /\ UNCHANGED <<write, made>>

\* executePaginateQueries(): the page and the count of a clone.
Paged(page, counted, cursor) ==
  /\ Performed
  /\ clause' = Selected(page)
  /\ sent' = [Nowhere EXCEPT !.ran = Extract(Selected(page), write),
                 !.counted = Extract(Counting(counted), NoWrite), !.cursor = cursor]
  /\ UNCHANGED <<write, made>>

Paginate == Paged(Window(clause), clause, {})

\* The clone is made before the order, the cursor's condition and the limit.
PaginateWithCursor ==
  LET ordered == IF clause["order_by"] = <<>>
                   THEN [clause EXCEPT !["order_by"] = <<Plain("order_by")>>] ELSE clause
      limited == [ordered EXCEPT !["limit"] =
                    <<Node("limit", "", "own", Values(2, 1), <<>>)>>]
  IN \/ Paged(limited, clause, {})
     \/ Paged([limited EXCEPT !["where"] = Append(@, Condition("and", 1))], clause, {calls})

\* A write operation is made: its nodes are on the builder, it keeps its own data,
\* and nothing runs.
Made(folder, rows, own) ==
  /\ Performed
  /\ write' = IF folder = "on_duplicate"
                THEN [write EXCEPT !["insert"] = <<own[1]>>, !["on_duplicate"] = <<own[2]>>]
                ELSE [write EXCEPT ![folder] = own]
  /\ made' = made \cup {[folder |-> folder, rows |-> rows, own |-> own]}
  /\ sent' = Nowhere
  /\ UNCHANGED clause

\* The columns of the first record are those of all.
Records(n, columns) == <<Node("insert", "", "own", Values(0, n * columns), <<>>)>>

Upserted(n) == Records(n, 2) \o <<Plain("on_duplicate")>>

Insert == \E columns \in 1 .. 2 : Made("insert", 1, Records(1, columns))
InsertMany == \E n \in {0, 2} : Made("insert", n, Records(n, 1))
Upsert == Made("on_duplicate", 1, Upserted(1))
UpsertMany == Made("on_duplicate", 2, Upserted(2))
Update == \E n \in 1 .. 2 : Made("update", 1, <<Valued("update", n)>>)
Increment == Made("update", 1, <<Valued("update", 0)>>)
SoftDelete == Made("update", 1, <<Valued("update", 1)>>)
Delete == Made("delete", 1, <<Plain("delete")>>)
Truncate == Made("truncate", 1, <<Plain("truncate")>>)

\* prepareColumns(): what the model fills in follows the values of each record.
Prepared(op) ==
  LET filled == [i \in 1 .. AutoColumns |-> <<0, i>>]
      Record(vals, r) ==
        LET n == Len(vals) \div op.rows IN SubSeq(vals, (r - 1) * n + 1, r * n) \o filled
  IN [i \in DOMAIN op.own |->
        IF op.own[i].folder \notin {"insert", "update"} THEN op.own[i]
        ELSE [op.own[i] EXCEPT !.vals = FlattenSeq([r \in 1 .. op.rows |-> Record(@, r)])]]

\* mssql runs a merge of the records.
Merge(op) == Prepared(op)

\* Mutant: the conditions are left out of the statement that runs.
UpdateAll(op, c) == Prepared(op) \o c["join"]

\* update(), softDelete() and delete() take the conditions and the joins that the
\* builder has when they run.
WriteWhere(op, c) == Prepared(op) \o c["where"] \o c["join"]

\* Nothing is run for no records.
Executed(op, c) ==
  CASE op.rows = 0 -> <<>>
    [] op.folder \in {"update", "delete"} -> WriteWhere(op, c)
    [] op.folder = "on_duplicate" /\ dialect = "mssql" -> Merge(op)
    [] OTHER -> Prepared(op)

\* beforeUpdate or beforeDelete of a model may add a condition, for good.
Hooked(op) ==
  {<<>>} \cup
  (IF op.folder \notin {"update", "delete"} THEN {}
   ELSE {<<[Node("where", "and", "own", <<<<0, AutoColumns + 1>>>>, <<>>) EXCEPT !.id = 0]>>})

\* An operation is awaited, for the first time or again: it runs its own data, and
\* leaves its node with the prepared columns on the builder.  Shown is what toSql()
\* of it showed just before.
Await ==
  \E op \in made :
    /\ calls <= MaxCalls + 1
    /\ calls' = calls + 1
    /\ \E hook \in Hooked(op) : clause' = [clause EXCEPT !["where"] = @ \o hook]
    /\ write' = IF op.folder \in {"insert", "update"} /\ op.rows # 0
                  THEN [write EXCEPT ![op.folder] = Prepared(op)] ELSE write
    /\ sent' = [Nowhere EXCEPT !.shown = Extract(Selected(clause), write),
                               !.ran = Executed(op, clause')]
    /\ UNCHANGED <<dialect, made>>

Clauses ==
  \/ Where \/ OrWhere \/ WhereColumn \/ WhereNot \/ OrWhereNot \/ WhereBetween
  \/ WhereLike \/ WhereNotLike \/ WhereIn \/ WhereNotIn \/ WhereNull \/ WhereRegexp
  \/ WhereExists \/ WhereRaw \/ WhereJson \/ WhereJsonRaw \/ Having \/ OrHaving
  \/ ClearWhere \/ When \/ JoinRaw \/ Join \/ LeftJoin \/ RightJoin \/ FullJoin
  \/ ClearJoin \/ Select \/ SelectRaw \/ SelectJson \/ ClearSelect \/ Distinct
  \/ Table \/ With \/ Union \/ GroupBy \/ OrderBy \/ Limit \/ Offset \/ Lock
  \/ ClearFooter \/ ClearRest

Operations ==
  \/ Many \/ One \/ Chunk \/ Aggregate \/ Paginate \/ PaginateWithCursor
  \/ Insert \/ InsertMany \/ Upsert \/ UpsertMany \/ Update \/ Increment
  \/ SoftDelete \/ Delete \/ Truncate

Next ==
  \/ calls <= MaxClauses /\ Clauses
  \/ calls <= MaxCalls /\ Operations
  \/ Await

Spec == Init /\ [][Next]_vars

-----------------------------------------------------------------------------
(* Properties.                                                             *)

\* The nodes with values in the order of their text, each with what it is in that is
\* numbered from 1: a sub-query of select or from, a condition of a join.
RECURSIVE Leaves(_, _, _)
Leaves(nodes, at, inside) ==
  FlattenSeq([i \in DOMAIN nodes |->
    LET n == nodes[i]
        here == Append(at, i)
    IN IF n.sub = <<>>
         THEN IF n.vals = <<>> THEN <<>> ELSE <<[raw |-> n.form = "raw", inside |-> inside]>>
       ELSE IF n.folder = "join"
         THEN FlattenSeq([j \in DOMAIN n.sub |->
                Leaves(<<n.sub[j]>>, Append(here, j), inside \cup {Append(here, j)})])
       ELSE Leaves(n.sub, here, IF n.folder \in {"select", "from"} THEN inside \cup {here}
                                                                  ELSE inside)])

\* The statements whose values the library mixes up.  On postgres, at any depth: a
\* raw condition with a value behind a value that is not raw, and a value in a
\* sub-query of select or from or in a condition of a join behind a value outside of
\* it; on mssql: a limit alone behind a with clause that has values.
MixedUp(nodes) ==
  LET leaves == Leaves(nodes, <<>>, {})
  IN \/ /\ dialect = "postgres"
        /\ \E i, j \in DOMAIN leaves :
             /\ j < i
             /\ IF leaves[i].raw THEN ~leaves[j].raw
                                 ELSE leaves[i].inside \ leaves[j].inside # {}
     \/ Top(nodes) /\ \E i \in DOMAIN nodes :
                         nodes[i].folder = "with" /\ Leaves(<<nodes[i]>>, <<>>, {}) # <<>>

\* What a read would run now, and what the last operation ran.  A read behind a
\* write that was made and never awaited runs that write again, with clauses the
\* write does not have.
Ran ==
  CASE sent.ran # <<>> /\ (write = NoWrite \/ sent.shown # <<>>) -> {sent.ran, sent.counted}
    [] sent.ran = <<>> /\ write = NoWrite -> {Extract(clause, write)}
    [] OTHER -> {}

\* Every placeholder of a statement receives the value that was given for it, and
\* none is left over, however deep it was nested, but for the statements above, of
\* which each sends a value to another's place.
OwnValue ==
  \A nodes \in Ran :
    LET text == Parse(nodes, 1)
    IN /\ Len(text.binds) = Len(text.marks)
       /\ (\A k \in DOMAIN text.marks : Received(text, k) = {text.marks[k].means})
            <=> ~MixedUp(nodes)

\* The words that should be there: the conditions in order, each but the first
\* behind its own connective.
RECURSIVE Wanted(_)
Wanted(nodes) ==
  IF nodes = <<>> THEN <<>>
  ELSE LET n == Head(nodes)
           own == IF n.form = "group" THEN <<"(">> \o Wanted(n.sub) \o <<")">> ELSE <<n.id>>
           rest == Wanted(Tail(nodes))
       IN own \o (IF rest = <<>> THEN <<>> ELSE <<Head(Tail(nodes)).chain>> \o rest)

RECURSIVE NoneGone(_)
NoneGone(nodes) == \A i \in DOMAIN nodes : ~Gone(nodes[i]) /\ NoneGone(nodes[i].sub)

\* The conditions of a clause are connected as they were asked to be, groups
\* included, if each of them has a text; one without is dropped while the
\* connective before it stays.
Connected ==
  \A list \in {"where", "having"} :
    NoneGone(clause[list]) => Parse(clause[list], 1).words = Wanted(clause[list])

\* The values and the conditions of a statement that calls asked for.
Asked(nodes) ==
  LET text == Parse(SelectSeq(nodes, LAMBDA n : n.id # 0), 1)
  IN <<{text.marks[k].means : k \in DOMAIN text.marks} \ ({0} \X Nat), text.words>>

\* "A PromiseLike wrapper for write operations that allows SQL inspection without
\* execution": whatever is called between making an operation and awaiting it, and
\* however often it is awaited, it runs the values and the conditions it then shows,
\* but for what the model and its hooks add, if the builder has no order and no limit
\* and made no other write.
ShownIsExecuted ==
  sent.shown # <<>> /\ sent.ran # <<>>
    /\ clause["order_by"] = <<>> /\ clause["limit"] = <<>> /\ Cardinality(made) = 1
    => Asked(sent.shown) = Asked(sent.ran)

Sources == {"with", "from", "join", "where", "having", "union"}

\* The total of a page counts what the page selects from: both statements have the
\* same sources and conditions, but for the condition of the cursor.
CountsThePage ==
  sent.counted # <<>> /\ write = NoWrite =>
    \A list \in Sources :
      The(sent.counted, list) =
        SelectSeq(The(sent.ran, list), LAMBDA n : n.id \notin sent.cursor)
=============================================================================
