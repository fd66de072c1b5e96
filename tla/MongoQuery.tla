------------------------------ MODULE MongoQuery -------------------------------
(***************************************************************************)
(* A MongoQueryBuilder: the filter its clauses build and what many(),      *)
(* one(), count(), update() and delete() do with it.                       *)
(*                                                                         *)
(* Documents are numbers with one field besides _id.  The filter has the   *)
(* conditions of $and, those of $or, raw ones under keys of their own and, *)
(* apart from these, the one on _id.                                       *)
(***************************************************************************)
EXTENDS Naturals, FiniteSets, Sequences

CONSTANTS
  Documents,   \* the documents, by _id
  Contents,    \* the fields considered at first: document -> value
  Clauses,     \* the clauses considered
  Hooks,       \* what the hooks of the model add: clauses on the field, or nothing
  MaxClauses   \* bound on the clauses of a builder

Missing == 0   \* the field of a document without it
Nil == 1       \* a field that is null; other values are larger

\* A clause: its method without the "or" and "and" in front, whether it has the "or",
\* the field, the values (of whereLike() those the pattern matches), and the operator
\* of where() or the key of a raw filter.
Clause ==
  [method : {"where", "exists", "notExists", "not", "like", "notLike", "in", "notIn",
             "null", "notNull", "between", "notBetween", "raw"},
   or : BOOLEAN, on : {"id", "field"}, values : Seq(Nat), op : {"$eq", "$ne", "$gt", "$and", "$or"}]

\* where() is given one value; hooks use neither "or" nor a raw filter.
ASSUME MongoAssumption ==
  /\ Documents \subseteq Nat /\ IsFiniteSet(Documents) /\ MaxClauses \in Nat
  /\ \A c \in Clauses : c \in Clause /\ (c.method = "where" => Len(c.values) = 1)
  /\ \A h \in Hooks :
       h \in Seq(Clause) /\ \A i \in DOMAIN h : h[i].on = "field" /\ ~h[i].or /\ h[i].method # "raw"

VARIABLES
  field,               \* document -> value
  hook,                \* of the model, before every operation
  asked,               \* the clauses, as they were called
  ands, ors,           \* what they built: $and and $or
  raws,                \* and the raw filters, one of a key
  idObject,            \* the documents its condition allows, in a list; none when empty
  sortBy, limitNumber, offsetNumber,   \* of the builder; no limit when 0
  ran,                  \* the operation that was run
  answers, changed,     \* the documents it answered or counted, and those it changed
  before               \* history: the fields it found

mongoVars ==
  <<field, hook, asked, ands, ors, raws, idObject, sortBy, limitNumber, offsetNumber, ran, answers, changed, before>>

-----------------------------------------------------------------------------
(* Conditions: whether a value x meets one.                                *)

Known(x) == x > Nil
ValuesOf(c) == {c.values[i] : i \in DOMAIN c.values}

Where(x, c) ==
  CASE c.op = "$eq" -> x = c.values[1]
    [] c.op = "$ne" -> x # c.values[1]
    [] c.op = "$gt" -> Known(x) /\ x > c.values[1]

Exists(x, c) == x # Missing
NotExists(x, c) == x = Missing
Not(x, c) == x # c.values[1]
Like(x, c) == Known(x) /\ x \in ValuesOf(c)
NotLike(x, c) == ~Like(x, c)
In(x, c) == x \in ValuesOf(c)
NotIn(x, c) == x \notin ValuesOf(c)
IsNull(x, c) == ~Known(x)
NotNull(x, c) == Known(x)
Between(x, c) == Known(x) /\ c.values[1] <= x /\ x <= c.values[2]

\* Less than the first and greater than the second.
NotBetween(x, c) == Known(x) /\ x < c.values[1] /\ x > c.values[2]

Meets(x, c) ==
  CASE c.method = "where" -> Where(x, c)
    [] c.method = "exists" -> Exists(x, c)
    [] c.method = "notExists" -> NotExists(x, c)
    [] c.method = "not" -> Not(x, c)
    [] c.method = "like" -> Like(x, c)
    [] c.method = "notLike" -> NotLike(x, c)
    [] c.method \in {"in", "raw"} -> In(x, c)
    [] c.method = "notIn" -> NotIn(x, c)
    [] c.method = "null" -> IsNull(x, c)
    [] c.method = "notNull" -> NotNull(x, c)
    [] c.method = "between" -> Between(x, c)
    [] c.method = "notBetween" -> NotBetween(x, c)

-----------------------------------------------------------------------------
(* The builder.                                                            *)

MongoInit ==
  /\ field \in Contents /\ hook \in Hooks
  /\ asked = <<>> /\ ands = <<>> /\ ors = <<>> /\ raws = {} /\ idObject = <<>>
  /\ sortBy = 0 /\ limitNumber = 0 /\ offsetNumber = 0
  /\ ran = "none" /\ answers = {} /\ changed = {} /\ before = field

\* The methods that take "id" for _id: where() reads any operator as $eq, the ranges
\* as a list to leave out, and those on null do nothing.
OnId(c) == c.on = "id" /\ c.method \in {"where", "in", "notIn", "between", "notBetween", "null", "notNull"}

IdObject(c) ==
  CASE c.method \in {"where", "in"} -> <<ValuesOf(c)>>
    [] c.method \in {"notIn", "between", "notBetween"} -> <<Documents \ ValuesOf(c)>>
    [] c.method \in {"null", "notNull"} -> idObject

\* A condition on _id replaces the one before, with "or" as without.
AddWhere(c) ==
  /\ ran = "none" /\ Len(asked) < MaxClauses /\ c.method # "raw"
  /\ asked' = Append(asked, c)
  /\ idObject' = IF OnId(c) THEN IdObject(c) ELSE idObject
  /\ ands' = IF OnId(c) \/ c.or THEN ands ELSE Append(ands, c)
  /\ ors' = IF ~OnId(c) /\ c.or THEN Append(ors, c) ELSE ors
  /\ UNCHANGED <<field, hook, raws, sortBy, limitNumber, offsetNumber, ran, answers, changed, before>>

\* A raw filter whose key is that of a field.
Plain(c) == c.method = "raw" /\ ~c.or /\ c.op \notin {"$and", "$or"}

\* A raw filter is spread into the one there is: it replaces what the builder has under
\* its key, be it $and, $or or that of a field.
WhereRaw(c) ==
  /\ ran = "none" /\ Len(asked) < MaxClauses /\ c.method = "raw"
  /\ asked' = Append(asked, c)
  /\ ands' = IF ~c.or /\ c.op = "$and" THEN <<c>> ELSE ands
  /\ ors' = CASE c.or -> Append(ors, c)
              [] ~c.or /\ c.op = "$or" -> <<c>>
              [] OTHER -> ors
  /\ raws' = IF Plain(c) THEN {d \in raws : d.on # c.on} \cup {c} ELSE raws
  /\ UNCHANGED <<field, hook, idObject, sortBy, limitNumber, offsetNumber, ran, answers, changed, before>>

\* sort(), limit() and offset(), before the clauses; 1 sorts by _id.
Paged(s, l, o) ==
  /\ ran = "none" /\ asked = <<>> /\ sortBy = 0 /\ limitNumber = 0 /\ offsetNumber = 0
  /\ sortBy' = s /\ limitNumber' = l /\ offsetNumber' = o
  /\ UNCHANGED <<field, hook, asked, ands, ors, raws, idObject, ran, answers, changed, before>>

\* Where the builder does not take "id" for _id it is a field, one that no document here
\* has.
Holds(c, d, values) == Meets(IF c.on = "id" THEN Missing ELSE values[d], c)

\* What a document has to meet, with what the hook of the operation adds.
Conditions == raws \cup {ands[i] : i \in DOMAIN ands} \cup {hook[i] : i \in DOMAIN hook}

\* A mutant: a document that meets one of the $or need not meet the others.
MatchesEither(d, values) ==
  \/ \A c \in Conditions : Holds(c, d, values)
  \/ \E i \in DOMAIN ors : Holds(ors[i], d, values)

\* whereObject.
Matches(d, values) ==
  /\ \A c \in Conditions : Holds(c, d, values)
  /\ ors # <<>> => \E i \in DOMAIN ors : Holds(ors[i], d, values)

ById(d) == idObject = <<>> \/ d \in idObject[1]

Found == {d \in Documents : Matches(d, before) /\ ById(d)}

-----------------------------------------------------------------------------
(* The operations.                                                         *)

Runs(name) == ran = "none" /\ ran' = name

Stays == UNCHANGED <<hook, asked, ands, ors, raws, idObject, sortBy, limitNumber, offsetNumber, before>>

Many ==
  LET Rank(d) == Cardinality({x \in Found : x < d})
      Inside(d) == Rank(d) >= offsetNumber /\ (limitNumber = 0 \/ Rank(d) < offsetNumber + limitNumber)
      sorted == {d \in Found : Inside(d)}
  IN  /\ Runs("many")
      /\ \E page \in IF sortBy = 1 THEN {sorted}
                      ELSE {x \in SUBSET Found : Cardinality(x) = Cardinality(sorted)} :
           answers' = page
      /\ UNCHANGED <<field, changed>> /\ Stays

\* findOne() is given neither the sort nor the offset.
One ==
  /\ Runs("one")
  /\ answers' \in IF Found = {} THEN {{}} ELSE {{d} : d \in Found}
  /\ UNCHANGED <<field, changed>> /\ Stays

\* whereObject alone.
Count ==
  /\ Runs("count")
  /\ answers' = {d \in Documents : Matches(d, field)}
  /\ UNCHANGED <<field, changed>> /\ Stays

Delete ==
  /\ Runs("delete")
  /\ changed' = {d \in Documents : Matches(d, field)}
  /\ UNCHANGED <<field, answers>> /\ Stays

\* Without a condition on _id the filter asks for an _id that is an empty object. The
\* session, undefined, is among the modifiers: a driver that sends it, as null, is
\* refused.
Update(v) ==
  LET matched == IF idObject = <<>> THEN {} ELSE Found
      after == [d \in Documents |-> IF d \in matched THEN v ELSE field[d]]
  IN  /\ Stays
      /\ \/ Runs("refused") /\ UNCHANGED <<field, answers, changed>>
         \/ /\ Runs("update") /\ field' = after
            /\ changed' = {d \in matched : field[d] # v}
            /\ answers' = IF changed' = {} THEN {} ELSE {d \in Documents : Matches(d, after) /\ ById(d)}

MongoNext ==
  \/ \E c \in Clauses : AddWhere(c) \/ WhereRaw(c)
  \/ \E s, o \in {0, 1} : Paged(s, 1, o)
  \/ Many \/ One \/ Count \/ Delete \/ Update(2)

MongoSpec == MongoInit /\ [][MongoNext]_mongoVars

-----------------------------------------------------------------------------
(* Properties.                                                             *)

\* What a clause means for document d.
Asks(c, d) ==
  LET x == IF c.on = "id" THEN d ELSE before[d]
  IN  IF c.method = "notBetween" THEN Known(x) /\ ~Between(x, c) ELSE Meets(x, c)

\* The chains for which the filter is another than the one asked for.
\*  - two conditions on _id, of which the last stays, or one after an "or" (387, 487);
\*  - an operator or a range on _id (387, 1228), or "id" where it is no _id (509);
\*  - not between, which no value meets (1348);
\*  - a raw filter with an $and or $or of its own, or another on the same field, which
\*    it replaces (1451, 1464).
Misread ==
  LET ids == {i \in DOMAIN asked : asked[i].on = "id"}
      odd(c) == \/ c.method = "notBetween" \/ (c.method = "raw" /\ c.op \in {"$and", "$or"})
                \/ c.on = "id" /\ (c.or \/ c.op # "$eq" \/ c.method \notin {"where", "in", "notIn"})
      replaces(c, d) == Plain(c) /\ Plain(d) /\ c.on = d.on /\ c # d
  IN  \/ Cardinality(ids) > 1 \/ \E i \in DOMAIN asked : odd(asked[i])
      \/ \E i, j \in DOMAIN asked : replaces(asked[i], asked[j])

Meant ==
  {d \in Documents :
     /\ \A i \in DOMAIN asked : ~asked[i].or => Asks(asked[i], d)
     /\ (\E i \in DOMAIN asked : asked[i].or) => \E i \in DOMAIN asked : asked[i].or /\ Asks(asked[i], d)
     /\ \A i \in DOMAIN hook : Meets(before[d], hook[i])}

\* An operation touches the documents that its clauses and the hook of the model mean:
\* many() all of them, or a page of as many; one() one of them, if there is one; count()
\* counts and delete() deletes all of them, unless a condition is on _id, which neither
\* looks at (mongo_query_builder.ts 316, 331); and update() changes none but them.
DocumentsMeant ==
  LET size == Cardinality(Meant)
  IN  ran # "none" /\ ~Misread =>
        /\ ran \in {"many", "one", "update"} => answers \subseteq Meant
        /\ ran = "many" /\ limitNumber = 0 /\ offsetNumber = 0 => answers = Meant
        /\ ran = "many" /\ limitNumber = 1 => Cardinality(answers) = (IF size > offsetNumber THEN 1 ELSE 0)
        /\ ran = "one" => (answers = {} <=> Meant = {})
        /\ ran \in {"count", "delete"} /\ idObject = <<>> => answers \cup changed = Meant
        /\ ran \in {"update", "refused"} => changed \subseteq Meant
=============================================================================
