--------------------------- MODULE RelationLoading ----------------------------
(***************************************************************************)
(* How a ModelQueryBuilder loads a relation.  many(), chunk() and stream() *)
(* read the parents, then the rows related to them: joined, in a second    *)
(* read of the parents, or batched, in one read by the keys of the parents *)
(* that were found.  Between the two reads others write.                   *)
(*                                                                         *)
(* Rows are their primary keys, in order; 0 is the key JavaScript takes    *)
(* for none.  A pair of links is a foreign key or a row of the through     *)
(* table.  The second read works on the one builder load() made, so what   *)
(* it adds to that builder stays for the next page or row.                 *)
(***************************************************************************)
EXTENDS Naturals, FiniteSets, Sequences

CONSTANTS
  Parents, Children,  \* the keys of the parents and of the related rows
  Loads,              \* the queries considered
  Tables,             \* the foreign keys considered at first
  Nothing,            \* the null a left join puts for a row
  Few,                \* parents below which a relation is joined, 10 in the code
  MaxWrites           \* bound on the writes of others

VARIABLES
  links, matching,  \* the foreign keys; the parents the query's where accepts
  load,             \* the query
  at,               \* where the call is
  parents, held,    \* the page found, and the keys it was read with
  offset,           \* of the next chunk
  batches,          \* the whereIn conditions the relation's builder has
  waiting,          \* the streamed rows whose related rows are not read yet
  attached,         \* what every parent of the last page got
  writes,           \* of others; with the count when the page was read
  readAt

loadVars == <<links, matching, load, at, parents, held, offset, batches, waiting, attached, writes, readAt>>

Types == {"hasOne", "hasMany", "belongsTo", "manyToMany"}
All == <<0, 0>>   \* no limit and no offset

\* A query: the relation, the strategy asked for, whether the relation has loads
\* of its own, the rows its where accepts, one set for each side of an OR, those a
\* beforeFetch hook of its model hides, its limit and offset, whether the parents
\* have columns of the names in its conditions, the operation with the limit and
\* offset of the parents, and the conditions on the related rows.
Query ==
  [type : Types, strategy : {"auto", "join", "batched"}, nested : BOOLEAN,
   where : Seq(SUBSET Children) \ {<<>>}, hidden : SUBSET Children,
   span : Nat \X Nat, alike : BOOLEAN,
   call : {"many", "chunk", "stream"}, page : Nat \X Nat,
   having : Seq([or : BOOLEAN, not : BOOLEAN, counts : SUBSET Nat])]

\* Tables are finite, and a row has one foreign key of a belongsTo.
ASSUME RelationLoadingAssumption ==
  /\ Parents \subseteq Nat /\ Children \subseteq Nat /\ Nothing \in Nat \ Children
  /\ IsFiniteSet(Parents) /\ IsFiniteSet(Children)
  /\ Loads \subseteq Query /\ Few \in Nat /\ MaxWrites \in Nat
  /\ \A type \in Types : \A pairs \in Tables[type] :
       /\ pairs \subseteq Parents \X Children
       /\ type = "belongsTo" => \A x, y \in pairs : x[1] = y[1] => x = y

Single == load.type \in {"hasOne", "belongsTo"}

\* LIMIT and OFFSET over ordered rows.
Page(rows, order, span) ==
  LET Rank(r) == Cardinality({x \in rows : <<x, r>> \in order})
      InSpan(n) == n >= span[2] /\ (span[1] = 0 \/ n < span[1] + span[2])
  IN  IF span = All THEN rows ELSE {r \in rows : InSpan(Rank(r))}

Less == {x \in (Parents \cup Children) \X (Parents \cup Children) : x[1] < x[2]}
RowLess ==
  LET Rows == Parents \X (Children \cup {Nothing})
      Before(a, b) == a[1] < b[1] \/ (a[1] = b[1] /\ a[2] < b[2])
  IN  {x \in Rows \X Rows : Before(x[1], x[2])}

RelatedTo(p, pairs) == {c \in Children : <<p, c>> \in pairs}

\* EXISTS (select 1 ... group by the key having count(*) ...): with no row there is
\* no group.
HasRelated(p, counts) ==
  LET n == Cardinality(RelatedTo(p, links)) IN n > 0 /\ n \in counts

Condition(p, condition) == HasRelated(p, condition.counts) # condition.not

\* The conditions follow the where of the parents, one after the other, and an OR
\* splits the whole: the parents that the part from the i-th condition accepts.
Splits == {0} \cup {i \in DOMAIN load.having : load.having[i].or}

Branch(i) ==
  {p \in Parents :
     \A j \in i..Len(load.having) :
       \/ IF j = 0 THEN p \in matching ELSE Condition(p, load.having[j])
       \/ \E k \in Splits : i < k /\ k <= j}

\* What is appended to the conditions binds to the last part only.
EarlierParts == UNION {Branch(i) : i \in {x \in Splits : \E k \in Splits : x < k}}
LastPart == UNION {Branch(i) : i \in {x \in Splits : \A k \in Splits : k <= x}}
Answering == EarlierParts \cup LastPart

\* The related rows that the relation's where accepts, and those it does with a part
\* before the last.
Accepted == UNION {load.where[i] : i \in DOMAIN load.where}
AcceptedBefore == UNION {load.where[i] : i \in DOMAIN load.where \ {Len(load.where)}}
Unfiltered == load.where = <<Children>>

-----------------------------------------------------------------------------
(* Strategies.                                                             *)

\* A batch puts the limit and offset of a relation to many into its statement, and
\* clears them.
Numbered == load.span # All /\ ~Single

Strategy(count) ==
  CASE load.strategy # "auto" -> load.strategy
    [] load.strategy = "auto" /\ Numbered /\ batches = <<>> -> "batched"
    [] OTHER -> IF count = 1 \/ count < Few \/ (load.type = "manyToMany" /\ count <= Few)
                THEN "join" ELSE "batched"

Joins == load.call # "stream" /\ ~load.nested /\ Strategy(Cardinality(parents)) = "join"

\* The column the keys are of, and its value in a pair.
Key(pair) == IF load.type = "belongsTo" THEN pair[2] ELSE pair[1]

InBatches(pair) == \A i \in DOMAIN batches : Key(pair) \in batches[i]

\* The parents again, left joined: their conditions, then those the relation's builder
\* has by now, its where and, of batches read before, whereIn and the hook's. All are
\* flat, so that an OR on either side splits the whole; no null meets a condition.
JoinedRows ==
  LET Meets(p, c, bound) ==
        \/ p \in EarlierParts
        \/ \E i \in DOMAIN load.where :
             /\ i = 1 => p \in LastPart
             /\ c \in load.where[i]
             /\ i = Len(load.where) => bound
      Alone(p) == RelatedTo(p, links) = {}
  IN  {row \in links : Meets(row[1], row[2], InBatches(row) /\ (batches = <<>> \/ row[2] \notin load.hidden))}
        \cup {<<p, Nothing>> :
               p \in {x \in Parents :
                        /\ Alone(x)
                        /\ x \in EarlierParts \/ (x \in LastPart /\ Unfiltered /\ batches = <<>>)}}

\* The statement is refused: the conditions of the relation are copied as they are, a
\* name both tables have is ambiguous, and the row number of a batch is no column.
JoinRefused ==
  \/ load.alike /\ (~Unfiltered \/ (batches # <<>> /\ (load.type # "manyToMany" \/ load.hidden # {})))
  \/ Numbered /\ batches # <<>>

\* LIMIT and OFFSET of the parents, as they were when the parents were read.
PageRead ==
  IF load.call = "chunk" THEN <<load.page[1], offset - Cardinality(parents)>> ELSE load.page

\* A mutant: the limit of the parents counts the joined rows of a relation to many.
JoinedWithLimit ==
  LET rows == Page(JoinedRows, RowLess, PageRead)
      Of(p) == {c \in Children : <<p, c>> \in rows}
  IN  [p \in parents |->
         IF Single THEN {c \in Of(p) : \A x \in Of(p) : c <= x} ELSE Of(p)]

Joined ==
  LET rows == IF Single THEN Page(JoinedRows, RowLess, PageRead) ELSE JoinedRows
      Of(p) == {c \in Children : <<p, c>> \in rows}
  IN  [p \in parents |->
         IF Single THEN {c \in Of(p) : \A x \in Of(p) : c <= x} ELSE Of(p)]

Keys(rows) ==
  IF load.type = "belongsTo" THEN {pair[2] : pair \in {x \in held : x[1] \in rows}} ELSE rows

\* What the builder has binds to the last part of the relation's where: the keys, the
\* hook of its model, and the number of a row of its parent, which is counted before
\* the where. A relation to one row has one limit for all the parents.
Fetched ==
  LET pairs == IF load.type = "belongsTo" THEN held ELSE links
      Meets(c, bound) == c \in AcceptedBefore \/ (c \in Accepted \ load.hidden /\ bound)
      InPage(pair) == pair[2] \in Page(RelatedTo(pair[1], pairs), Less, load.span)
      several == {pair \in pairs : /\ Meets(pair[2], InBatches(pair) /\ InPage(pair))
                                   /\ Numbered => Key(pair) \in batches[1]}
      one == Page({c \in Children : Meets(c, \E pair \in pairs : pair[2] = c /\ InBatches(pair))},
                  Less, load.span)
  IN  IF Single THEN {pair \in pairs : pair[2] \in one} ELSE several

\* The last row of a key replaces those before it.
Batched(rows) ==
  LET Of(p) == {pair[2] : pair \in {x \in Fetched : x[1] = p /\ Key(x) # 0}}
  IN  [p \in rows |-> IF Single THEN {c \in Of(p) : \A x \in Of(p) : x <= c} ELSE Of(p)]

\* The through table joined twice: the statement is refused.
JoinedTwice == load.type = "manyToMany" /\ Len(batches) > 1

-----------------------------------------------------------------------------

LoadInit ==
  /\ load \in Loads /\ links \in Tables[load.type] /\ matching = Parents
  /\ at = "parents" /\ parents = {} /\ held = {} /\ offset = 0 /\ batches = <<>>
  /\ waiting = {} /\ attached = <<>> /\ writes = 0 /\ readAt = 0

ReadParents ==
  LET span == IF load.call = "chunk" THEN <<load.page[1], offset>> ELSE load.page
      found == Page(Answering, Less, span)
  IN  /\ at = "parents"
      /\ parents' = found /\ held' = links /\ attached' = <<>>
      /\ at' = CASE found = {} -> "done"
                 [] found # {} /\ load.call = "stream" -> "rows"
                 [] OTHER -> "related"
      /\ offset' = offset + Cardinality(found)
      /\ waiting' = {} /\ readAt' = writes
      /\ UNCHANGED <<links, matching, load, batches, writes>>

\* With the rows, what the second read saw.
Attach(rows, joined) ==
  [p \in DOMAIN rows |->
     [rows |-> rows[p], links |-> links, answering |-> Answering,
      earlier |-> EarlierParts, joined |-> joined,
      times |-> Len(batches), between |-> writes # readAt]]

AfterPage == IF load.call = "chunk" THEN "parents" ELSE "done"

LoadRelationViaJoin ==
  /\ at = "related" /\ Joins
  /\ \/ /\ JoinRefused
        /\ at' = "refused" /\ UNCHANGED attached
     \/ /\ ~JoinRefused
        /\ attached' = Attach(Joined, TRUE)
        /\ at' = AfterPage
  /\ UNCHANGED <<links, matching, load, parents, held, offset, batches, waiting, writes, readAt>>

\* whereIn goes to the builder, then the hook of the related model is awaited.
LoadRelationViaBatch ==
  /\ at = "related" /\ ~Joins
  /\ batches' = Append(batches, Keys(parents))
  /\ at' = "fetch"
  /\ UNCHANGED <<links, matching, load, parents, held, offset, waiting, attached, writes, readAt>>

Fetch ==
  /\ at = "fetch"
  /\ \/ /\ JoinedTwice
        /\ at' = "refused" /\ UNCHANGED attached
     \/ /\ ~JoinedTwice
        /\ attached' = Attach(Batched(parents), FALSE)
        /\ at' = AfterPage
  /\ UNCHANGED <<links, matching, load, parents, held, offset, batches, waiting, writes, readAt>>

\* stream(): every row loads its own relations, on the same builder.
StreamRow(p) ==
  /\ at = "rows" /\ p \in parents \ waiting /\ p \notin DOMAIN attached
  /\ batches' = Append(batches, Keys({p}))
  /\ waiting' = waiting \cup {p}
  /\ UNCHANGED <<links, matching, load, at, parents, held, offset, attached, writes, readAt>>

FillRow(p) ==
  /\ at = "rows" /\ p \in waiting
  /\ waiting' = waiting \ {p}
  /\ \/ /\ JoinedTwice
        /\ at' = "refused" /\ UNCHANGED attached
     \/ /\ ~JoinedTwice
        /\ attached' = [q \in DOMAIN attached \cup {p} |->
                          IF q = p THEN Attach(Batched({p}), FALSE)[p] ELSE attached[q]]
        /\ at' = IF DOMAIN attached' = parents THEN "done" ELSE "rows"
  /\ UNCHANGED <<links, matching, load, parents, held, offset, batches, writes, readAt>>

\* Bound: a write before the first read is another table at first, and nothing sees
\* one after the last.
UnderWay == writes < MaxWrites /\ at \in {"related", "fetch", "rows"} \cup IF offset > 0 THEN {"parents"} ELSE {}

\* Others link or unlink a row, or change what the parents' where asks.
Relink(p, c) ==
  LET freed == {x \in links : IF load.type = "belongsTo" THEN x[1] = p
                              ELSE load.type # "manyToMany" /\ x[2] = c}
  IN  /\ UnderWay /\ writes' = writes + 1
      /\ links' = IF <<p, c>> \in links THEN links \ {<<p, c>>} ELSE (links \ freed) \cup {<<p, c>>}
      /\ UNCHANGED <<matching, load, at, parents, held, offset, batches, waiting, attached, readAt>>

Alter(p) ==
  /\ UnderWay /\ writes' = writes + 1
  /\ matching' = IF p \in matching THEN matching \ {p} ELSE matching \cup {p}
  /\ UNCHANGED <<links, load, at, parents, held, offset, batches, waiting, attached, readAt>>

LoadNext ==
  \/ ReadParents
  \/ LoadRelationViaJoin
  \/ LoadRelationViaBatch
  \/ Fetch
  \/ \E p \in Parents : StreamRow(p) \/ FillRow(p) \/ Alter(p)
  \/ \E p \in Parents, c \in Children : Relink(p, c)

LoadSpec == LoadInit /\ [][LoadNext]_loadVars

-----------------------------------------------------------------------------
(* Properties.                                                             *)

\* The pairs a second read goes by: the keys the parents were found with when one
\* batch is fetched for belongsTo, the table's otherwise.
Truth(p) ==
  IF load.type = "belongsTo" /\ ~attached[p].joined THEN held ELSE attached[p].links

\* Whatever is attached to a parent was linked to it when it was read. The relation's
\* where accepts it, unless the conditions of the parents have an OR before it: a
\* joined parent that meets a part before it gets all its rows. A fetched batch has
\* nothing the hook of its model hides and keeps the limit, but for the rows a part of
\* the relation's where before its last OR accepts; a relation to one row has one at
\* most (mapJoinedResultsToModels, mapRelatedModelsToModels).
NothingForeign ==
  \A p \in DOMAIN attached :
    LET a == attached[p]
    IN  /\ a.rows \subseteq RelatedTo(p, Truth(p))
        /\ a.rows \subseteq Accepted \/ (a.joined /\ p \in a.earlier)
        /\ ~a.joined =>
             LET bound == a.rows \ AcceptedBefore
             IN  /\ bound \cap load.hidden = {}
                 /\ load.span[1] # 0 => Cardinality(bound) <= load.span[1]
        /\ Single => Cardinality(a.rows) <= 1

\* What load() asks for.
Wanted(p) ==
  Page(RelatedTo(p, Truth(p)) \cap (Accepted \ load.hidden), Less, load.span)

\* The causes for which a row that is related is not attached.
\*  - the builder of the relation was used for an earlier page or row, and has its
\*    conditions (2711), which bind when it is joined as well (2302);
\*  - a key is 0 (2544, 2569, 2604, 2653);
\*  - the limit of a batch counts rows before the where, or for all the parents;
\*  - the parents' limit and offset count joined rows (2242-2253);
\*  - the second read of the parents does not find the parent again.
Excused(p) ==
  LET a == attached[p]
      filtered == ~Unfiltered \/ load.hidden # {}
  IN  \/ IF a.joined THEN a.times > 0 /\ p \notin a.earlier ELSE a.times > 1
      \/ ~a.joined /\ (IF load.type = "belongsTo" THEN <<p, 0>> \in held ELSE p = 0)
      \/ ~a.joined /\ load.span # All /\ (Single \/ filtered)
      \/ a.joined /\ Single /\ PageRead # All /\ 
           (filtered \/ load.type = "hasOne" \/ a.between \/ a.times > 0)
      \/ a.joined /\ p \notin a.answering

\* Joined or batched, with whatever is written between the two reads, every parent
\* gets all its related rows, or one when the relation is to one; but for the causes
\* listed above.
NothingMissing ==
  \A p \in DOMAIN attached :
    Excused(p) \/ IF Single THEN Wanted(p) # {} => attached[p].rows # {}
                  ELSE Wanted(p) \subseteq attached[p].rows

\* A load attaches what is related, and nothing else.
LoadsRelated == NothingForeign /\ NothingMissing
=============================================================================
