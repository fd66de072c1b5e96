------------------------------ MODULE SchemaSync ------------------------------
(***************************************************************************)
(* The schema sync: the schema of the database is compared with the        *)
(* models, the differences become statements in a fixed order, and the     *)
(* statements run one by one; the same differences also become the code of *)
(* a migration with its down().                                            *)
(*                                                                         *)
(* A schema is a set of objects: tables, columns, indexes, unique          *)
(* constraints, checks, foreign keys and primary keys, each on one column. *)
(* def holds the type, size, nullability and default of a column, each 0   *)
(* where the models or the database name none, and the actions of a key.   *)
(* A many-to-many relation is an object of the models only.                *)
(* The lists of the diff are sets of operations: the tables are compared   *)
(* at the same time, and operations of a kind may come in any order.       *)
(***************************************************************************)
EXTENDS Naturals, Sequences, FiniteSets

CONSTANTS
  Databases,  \* the schemas the database may have at first
  ModelSets,  \* the models that may be synced with it
  PkNames,    \* the names that are LIKE 'pk_%'
  MaxSyncs,   \* bound on the syncs of a behaviour
  Interrupts  \* a sync may be cut off between two statements

VARIABLES
  db,        \* the objects of the database
  models,    \* the objects of the models
  stage,
  compared,  \* the tables compared so far
  data,      \* the differences found
  todo,      \* the operations left to run
  ran,       \* the operations that ran, in their order
  before,    \* the objects when the sync began
  syncs      \* how many syncs began

vars == <<db, models, stage, compared, data, todo, ran, before, syncs>>

-----------------------------------------------------------------------------
(* Objects and operations.                                                 *)

Object(kind, table, name, on, ref, def) ==
  [kind |-> kind, table |-> table, name |-> name, on |-> on, ref |-> ref, def |-> def]

TableObject(table) == Object("table", table, <<table>>, "", <<>>, <<>>)

Of(objects, kind, table) == {o \in objects : o.kind = kind /\ o.table = table}
Names(objects) == {o.name : o \in objects}
Tables == {o.table : o \in {m \in models : m.kind = "table"}}

\* The column of the primary key of a model.
Pk(table) == IF Of(models, "pk", table) = {} THEN "id"
             ELSE CHOOSE c \in {o.on : o \in Of(models, "pk", table)} : TRUE

\* getDefaultFkConstraintName().
FkName(table, column, ref) == <<table, column, ref>>

ForeignKey(table, name, column, ref, actions) ==
  Object("fk", table, name, column, <<ref, Pk(ref)>>, actions)

\* Whatever there is belongs to a table that is there, and to a column of it, known by
\* its name; relations are of tables.
Sound(objects) ==
  \A o \in objects :
    /\ o = Object(o.kind, o.table, o.name, o.on, o.ref, o.def)
    /\ TableObject(o.table) \in objects
    /\ o.kind = "table" => o = TableObject(o.table)
    /\ o.kind \notin {"table", "m2m"} => \E c \in Of(objects, "column", o.table) : c.on = o.on
    /\ o.kind = "fk" => o.ref = <<o.ref[1], o.ref[2]>>
    /\ o.kind = "column" =>
         /\ o.on # "" /\ o.name = <<o.on>>
         /\ \A c \in Of(objects, "column", o.table) : c.on = o.on => c = o

\* Names of indexes, also of those of constraints, are unique in a schema, the
\* others in their table.
Clash(a, b) ==
  /\ a.name = b.name
  /\ \/ a.kind = b.kind /\ a.table = b.table
     \/ {a.kind, b.kind} \subseteq {"index", "unique", "pk"}

Keyed(t, c, objects) == \E o \in objects : o.kind \in {"pk", "unique"} /\ o.table = t /\ o.on = c

\* A database has no relations, and a foreign key refers to a key.
SoundDatabase(objects) ==
  /\ Sound(objects)
  /\ \A o \in objects :
       o.kind # "m2m" /\ (o.kind = "fk" => Keyed(o.ref[1], o.ref[2], objects))

Operation(op, object) == [op |-> op, object |-> object, with |-> {}]
Operations(op, objects) == {Operation(op, o) : o \in objects}

-----------------------------------------------------------------------------
(* The differences of one table.                                           *)

\* getTableSchema().
ColumnsHere(t) == Of(db, "column", t)

\* What postgres lists as the indexes of a table: also its unique constraints and its
\* primary key, which is unique, but nothing whose name is LIKE 'pk_%'.
Listed(objects) == {o \in objects : o.name \notin PkNames}
UniquesHere(t) == Listed(Of(db, "unique", t) \cup Of(db, "pk", t))
PlainIndexesHere(t) == Listed(Of(db, "index", t))
IndexesHere(t) == PlainIndexesHere(t) \cup UniquesHere(t)

KeysHere(t) == Of(db, "fk", t)
PrimaryKeyHere(t) == Of(db, "pk", t)
ChecksHere(t) == Of(db, "check", t)
Here(t) == ColumnsHere(t) \cup KeysHere(t) \cup PrimaryKeyHere(t) \cup ChecksHere(t)

There(t) == {o \in models : o.table = t}

Lacking(kinds, found, wanted) ==
  {o \in wanted : o.name \notin Names({f \in found : f.kind \in kinds})}

\* A table without columns is created with its columns and its primary key.
NewTable(t) ==
  {[op |-> "create_table", object |-> TableObject(t),
    with |-> Of(models, "column", t) \cup Of(models, "pk", t)]}
    \cup Operations("create_index", Of(models, "index", t))
    \cup Operations("add_unique", Of(models, "unique", t))
    \cup Operations("add_check", Of(models, "check", t))
    \cup Operations("add_fk", Of(models, "fk", t))


ColumnsLost(t) == Lacking({"column"}, There(t), ColumnsHere(t))
ColumnsNew(t) == Lacking({"column"}, Here(t), Of(models, "column", t))

Type(c) == c.def[1]
Size(c) == c.def[2]
Nullable(c) == c.def[3]  \* 1 if it is, 2 if not
Default(c) == c.def[4]   \* Null is a default the database does not keep
Null == 9

SizesDiffer(d, o) == Size(d) # 0 /\ Size(o) # 0 /\ Size(d) # Size(o)

\* areColumnsEqual(): of what the models do not give, nothing is compared.
SameColumn(d, o) ==
  /\ Type(d) = Type(o)
  /\ ~SizesDiffer(d, o)
  /\ Nullable(o) \in {0, Nullable(d)}

\* getDefaultChange(): a default is looked at when the type agrees.
DefaultChanged(d, o) == Type(d) = Type(o) /\ ~SizesDiffer(d, o) /\ Default(d) # Default(o)

ColumnsChanged(t) ==
  {o \in Of(models, "column", t) :
     \E d \in ColumnsHere(t) : d.name = o.name /\ (~SameColumn(d, o) \/ DefaultChanged(d, o))}

\* Indexes and unique constraints are known by their names; a unique one hides an
\* index of its name, and an index called like a foreign key stays.  A primary key that
\* is listed is a unique constraint the models lack.
IndexesNew(t) == {o \in Of(models, "index", t) : o.name \notin Names(IndexesHere(t))}
IndexesLost(t) ==
  Lacking({"fk"}, Here(t), Lacking({"index"}, There(t), PlainIndexesHere(t)))
UniquesNew(t) == {o \in Of(models, "unique", t) : o.name \notin Names(UniquesHere(t))}
UniquesLost(t) == Lacking({"unique"}, There(t), UniquesHere(t))

ChecksNew(t) == Lacking({"check"}, Here(t), Of(models, "check", t))
ChecksLost(t) == Lacking({"check"}, There(t), ChecksHere(t))

\* A many-to-many relation asks for the left key of its through table anew, under a
\* name of its own.
RelationKey(m) == ForeignKey(m.ref[1], m.name, m.on, m.table, m.def)

RelationsNew(t) ==
  Lacking({"fk"}, Here(t), Of(models, "fk", t))
    \cup {RelationKey(m) : m \in Of(models, "m2m", t)}
RelationsLost(t) == Lacking({"fk"}, There(t), KeysHere(t))

RelationsChanged(t) ==
  {o \in Of(models, "fk", t) :
     \E d \in KeysHere(t) : d.name = o.name /\ d.on = o.on /\ d.ref = o.ref /\ d.def # o.def}

PrimaryKeys(t) ==
  LET wanted == Of(models, "pk", t)
      found == PrimaryKeyHere(t)
  IN IF found = {} THEN Operations("add_pk", wanted)
     ELSE IF wanted = {} THEN Operations("drop_pk", found)
     ELSE Operations("modify_pk", wanted \ found)

Differences(t) ==
  Operations("add_column", ColumnsNew(t)) \cup Operations("drop_column", ColumnsLost(t))
    \cup Operations("modify_column", ColumnsChanged(t))
    \cup Operations("create_index", IndexesNew(t)) \cup Operations("drop_index", IndexesLost(t))
    \cup Operations("add_unique", UniquesNew(t)) \cup Operations("drop_unique", UniquesLost(t))
    \cup Operations("add_check", ChecksNew(t)) \cup Operations("drop_check", ChecksLost(t))
    \cup Operations("add_fk", RelationsNew(t)) \cup Operations("drop_fk", RelationsLost(t))
    \cup Operations("modify_fk", RelationsChanged(t)) \cup PrimaryKeys(t)

-----------------------------------------------------------------------------
(* The through tables of many-to-many relations, and what is left out.     *)

\* clonePkAsColumn(): the type of the primary key, never null and without a default.
KeyColumn(table, column, of) ==
  LET key == CHOOSE c \in Of(models, "column", of) : c.on = Pk(of)
  IN Object("column", table, <<column>>, column, <<>>, <<Type(key), Size(key), 2, 0>>)

\* The two sides of the through table of m: a column and the table it refers to.
Left(m) == <<m.on, m.table>>
Right(m) == <<m.ref[3], m.ref[2]>>
Sides(m) == {Left(m), Right(m)}

Relations(objects) == {o \in objects : o.kind = "m2m"}

\* Both sides have a primary key, the through table has the column of the left one if
\* it has a model, its keys have different names, and relations through the same table
\* agree on its columns.
SoundRelation(m, objects) ==
  /\ Left(m)[1] # Right(m)[1] /\ Left(m)[1] # "" /\ Right(m)[1] # ""
  /\ \A s \in Sides(m) : Of(objects, "pk", s[2]) # {} /\ m.name # FkName(m.ref[1], s[1], s[2])
  /\ \A o \in objects : o.table = m.ref[1] =>
       /\ o.kind = "fk" => o.name # m.name
       /\ \E c \in Of(objects, "column", o.table) : c.on = m.on
  /\ \A n \in Relations(objects) : m.ref[1] = n.ref[1] =>
       Sides(m) = Sides(n) /\ (m.name = n.name => m = n)

\* A model has columns and at most one primary key, what it refers to is the key of a
\* model, no name is given twice, and none LIKE 'pk_%' to an index or a unique
\* constraint, which a comparison could not see.
SoundModels(objects) ==
  /\ Sound(objects)
  /\ \A o \in objects :
       /\ Of(objects, "column", o.table) # {}
       /\ o.kind = "fk" => \E k \in Of(objects, "pk", o.ref[1]) : k.on = o.ref[2]
       /\ \A x \in Of(objects, "pk", o.table) : o.kind = "pk" => o = x
       /\ \A x \in objects : o.kind # "m2m" /\ Clash(o, x) => o = x
       /\ o.kind \in {"index", "unique"} => o.name \notin PkNames
  /\ \A m \in Relations(objects) : SoundRelation(m, objects)

ASSUME SchemaSyncAssumption ==
  /\ MaxSyncs \in Nat \ {0} /\ Interrupts \in BOOLEAN
  /\ \A s \in Databases : IsFiniteSet(s) /\ SoundDatabase(s)
  /\ \A s \in ModelSets : IsFiniteSet(s) /\ SoundModels(s)

SideKey(m, side) ==
  ForeignKey(m.ref[1], FkName(m.ref[1], side[1], side[2]), side[1], side[2], m.def)

NewThrough(m) ==
  {[op |-> "create_table", object |-> TableObject(m.ref[1]),
    with |-> {KeyColumn(m.ref[1], s[1], s[2]) : s \in Sides(m)}]}
    \cup {Operation("add_fk", SideKey(m, s)) : s \in Sides(m)}

\* The keys of the through table that refer to the table of a side.
KeysOf(m, side) == {fk \in KeysHere(m.ref[1]) : fk.ref[1] = side[2]}

Keyless(m) == {s \in Sides(m) : ~\E fk \in KeysOf(m, s) : fk.on = s[1]}

\* Mutant: every key of the through table is taken for one of its left side.
MisplacedByLeft(m) ==
  {fk \in UNION {KeysOf(m, s) : s \in Sides(m)} : fk.on # Left(m)[1]}

\* A key on another column than its side has: the left one, if both refer to one table.
Misplaced(m) ==
  {fk \in UNION {KeysOf(m, s) : s \in Sides(m)} :
     fk.on # IF fk.ref[1] = m.table THEN Left(m)[1] ELSE Right(m)[1]}

\* The first key that refers to the table of a side without its key goes.
Conflicting(m) ==
  {CHOOSE fk \in KeysOf(m, s) : TRUE : s \in {k \in Keyless(m) : KeysOf(m, k) # {}}}

\* A misplaced key goes with its column; a column that is missing or of another type
\* is added.
ThroughChanged(m) ==
  LET through == m.ref[1]
      lost == {fk.on : fk \in Misplaced(m)} \ {s[1] : s \in Sides(m)}
  IN Operations("drop_fk", Misplaced(m) \cup Conflicting(m))
       \cup Operations("drop_column", {c \in ColumnsHere(through) : c.on \in lost})
       \cup Operations("add_column",
              {c \in {KeyColumn(through, s[1], s[2]) : s \in Sides(m)} :
                 ~\E d \in ColumnsHere(through) : d.on = c.on /\ SameColumn(d, c)})
       \cup Operations("add_fk", {SideKey(m, s) : s \in Keyless(m)})

\* The first relation through a table stands for all.  Through tables that have a model
\* are compared like any other.
Processed ==
  {CHOOSE m \in Relations(models) : m.ref[1] = t : t \in {m.ref[1] : m \in Relations(models)} \ Tables}

Throughs ==
  UNION {IF ColumnsHere(m.ref[1]) = {} THEN NewThrough(m) ELSE ThroughChanged(m) : m \in Processed}

Alike(a, b) == a.table = b.table /\ a.on = b.on /\ a.ref = b.ref

\* Mutant: keys the database has under another name are added again.
WithChurn(ops) == ops

\* removeFkChurnByName(): a key the database has is not added, under its name or
\* another; one the models have is not dropped.
WithoutChurn(ops) ==
  {o \in ops :
     /\ o.op = "add_fk" =>
          ~\E fk \in KeysHere(o.object.table) : fk.name = o.object.name \/ Alike(fk, o.object)
     /\ o.op = "drop_fk" =>
          ~\E fk \in Of(models, "fk", o.object.table) : Alike(fk, o.object)}

-----------------------------------------------------------------------------
(* The statements.                                                         *)

\* generateOperations(), and the phases its operations are grouped by.
StructureCreation == <<"create_table", "add_column">>
ConstraintCreation ==
  <<"drop_unique", "drop_index", "add_pk", "add_fk", "add_unique", "create_index",
    "drop_check", "add_check">>
Destructive == <<"drop_fk", "drop_column", "modify_column">>

\* Mutant: what is no longer wanted goes first.
DestructiveFirst == Destructive \o StructureCreation \o ConstraintCreation

Order == StructureCreation \o ConstraintCreation \o Destructive

\* Changes of primary keys and of the actions of foreign keys have no statement; a
\* foreign key that is both added and dropped has none either.
Generated(ops) ==
  {o \in ops :
     /\ \E i \in DOMAIN Order : Order[i] = o.op
     /\ ~\E a, d \in ops :
          /\ a.op = "add_fk" /\ d.op = "drop_fk" /\ o \in {a, d}
          /\ a.object.table = d.object.table /\ a.object.name = d.object.name}

Rank(o) == CHOOSE i \in DOMAIN Order : Order[i] = o.op

\* The operations whose turn it is.
Due == {o \in todo : \A p \in todo : Rank(o) <= Rank(p)}

-----------------------------------------------------------------------------
(* What a postgres database does with a statement.                         *)

HasColumn(t, c) == c \in {o.on : o \in Of(db, "column", t)}
\* A column nothing in another table refers to once the objects are gone.
Unreferenced(t, c, gone) ==
  Keyed(t, c, db \ gone) \/ ~\E fk \in db \ gone : fk.kind = "fk" /\ fk.ref = <<t, c>>

Free(o) == ~\E d \in db : Clash(d, o)

On(t, c) == {o \in db : o.table = t /\ o.on = c}

Accepts(op, o) ==
  CASE op = "create_table" -> o \notin db
    [] op = "add_column" -> TableObject(o.table) \in db /\ ~HasColumn(o.table, o.on)
    [] op = "add_pk" -> Of(db, "pk", o.table) = {} /\ HasColumn(o.table, o.on)
    [] op = "add_fk" -> Free(o) /\ HasColumn(o.table, o.on) /\ Keyed(o.ref[1], o.ref[2], db)
    [] op \in {"add_unique", "create_index", "add_check"} -> Free(o) /\ HasColumn(o.table, o.on)
    [] op \in {"drop_unique", "drop_pk"} -> o \in db /\ Unreferenced(o.table, o.on, {o})
    [] op = "drop_column" -> HasColumn(o.table, o.on) /\ Unreferenced(o.table, o.on, On(o.table, o.on))
    [] op = "drop_table" ->
         o \in db /\ ~\E fk \in db : fk.kind = "fk" /\ fk.ref[1] = o.table /\ fk.table # o.table
    [] op = "modify_column" -> HasColumn(o.table, o.on)
    [] OTHER -> o \in db

\* A column as the database holds it, nullable unless the models or its past say no.
Stored(o, nullable) ==
  [o EXCEPT !.def = <<Type(o), Size(o), IF Nullable(o) = 0 THEN nullable ELSE Nullable(o),
                      IF Default(o) = Null THEN 0 ELSE Default(o)>>]

Effect(op, o, with) ==
  CASE op = "drop_column" -> db \ On(o.table, o.on)
    [] op = "drop_table" -> {d \in db : d.table # o.table}
    [] op = "modify_column" ->
         {IF d.kind = "column" /\ d.table = o.table /\ d.name = o.name
          THEN Stored(o, Nullable(d)) ELSE d : d \in db}
    [] op = "add_column" -> db \cup {Stored(o, 1)}
    [] op = "create_table" ->
         db \cup {o} \cup {IF w.kind = "column" THEN Stored(w, 1) ELSE w : w \in with}
    [] op \in {"drop_unique", "drop_pk", "drop_index", "drop_check", "drop_fk"} -> db \ {o}
    [] OTHER -> db \cup {o}

-----------------------------------------------------------------------------
(* A sync.                                                                 *)

Init ==
  /\ db \in Databases
  /\ models \in ModelSets
  /\ stage = "idle"
  /\ compared = {}
  /\ data = {}
  /\ todo = {}
  /\ ran = <<>>
  /\ before = db
  /\ syncs = 0

Start ==
  /\ stage \in {"idle", "done", "cut", "refused"}
  /\ syncs < MaxSyncs
  /\ stage' = "comparing"
  /\ compared' = {}
  /\ data' = {}
  /\ ran' = <<>>
  /\ before' = db
  /\ syncs' = syncs + 1
  /\ UNCHANGED <<db, models, todo>>

Compared(t) == IF ColumnsHere(t) = {} THEN NewTable(t) ELSE Differences(t)

Compare(t) ==
  /\ stage = "comparing"
  /\ t \in Tables \ compared
  /\ compared' = compared \cup {t}
  /\ data' = data \cup Compared(t)
  /\ UNCHANGED <<db, models, stage, todo, ran, before, syncs>>

\* The rest of makeDiff(), and the operations it leaves.
Generate ==
  /\ stage = "comparing" /\ compared = Tables
  /\ data' = WithoutChurn(data \cup Throughs)
  /\ todo' = Generated(data')
  /\ stage' = IF todo' = {} THEN "done" ELSE "running"
  /\ UNCHANGED <<db, models, compared, ran, before, syncs>>

Execute(o) ==
  /\ stage = "running" /\ o \in Due
  /\ Accepts(o.op, o.object)
  /\ db' = Effect(o.op, o.object, o.with)
  /\ todo' = todo \ {o}
  /\ ran' = Append(ran, o)
  /\ stage' = IF todo' = {} THEN "done" ELSE "running"
  /\ UNCHANGED <<models, compared, data, before, syncs>>

\* The sync ends with the error; a transactional one undoes what ran.
Refuse(o) ==
  /\ stage = "running" /\ o \in Due
  /\ ~Accepts(o.op, o.object)
  /\ stage' = "refused"
  /\ todo' = {}
  /\ \E transactional \in BOOLEAN : db' = IF transactional THEN before ELSE db
  /\ UNCHANGED <<models, compared, data, ran, before, syncs>>

\* The connection is lost or the process dies outside a transaction.
Interrupt ==
  /\ Interrupts
  /\ stage = "running" /\ ran # <<>>
  /\ stage' = "cut"
  /\ todo' = {}
  /\ UNCHANGED <<db, models, compared, data, ran, before, syncs>>

-----------------------------------------------------------------------------
(* The generated migration.                                                *)

Undoing(op) ==
  CASE op = "create_table" -> "drop_table"
    [] op = "add_column" -> "drop_column"
    [] op = "add_pk" -> "drop_pk"
    [] op = "add_fk" -> "drop_fk"
    [] op = "add_unique" -> "drop_unique"
    [] op = "create_index" -> "drop_index"
    [] op = "add_check" -> "drop_check"
    [] OTHER -> ""

\* Mutant: an index is left behind.
UndoingButIndexes(op) == IF op = "create_index" THEN "" ELSE Undoing(op)

\* down() has the statements in the order of up(); for what was dropped or modified
\* it has a comment.
Down(op) == Undoing(op)

\* The operations were the up() of a migration, which is now rolled back.
RollBack ==
  /\ stage = "done" /\ ran # <<>>
  /\ stage' = "undoing"
  /\ UNCHANGED <<db, models, compared, data, todo, ran, before, syncs>>

Undo ==
  /\ stage = "undoing" /\ ran # <<>>
  /\ LET o == Head(ran)
         op == Down(o.op)
     IN IF op = "" THEN UNCHANGED <<db, stage>>
        ELSE IF Accepts(op, o.object)
          THEN db' = Effect(op, o.object, {}) /\ UNCHANGED stage
        ELSE stage' = "stuck" /\ UNCHANGED db
  /\ ran' = Tail(ran)
  /\ UNCHANGED <<models, compared, data, todo, before, syncs>>

Next ==
  \/ Start
  \/ \E t \in Tables : Compare(t)
  \/ Generate
  \/ \E o \in todo : Execute(o)
  \/ \E o \in todo : Refuse(o)
  \/ Interrupt
  \/ RollBack
  \/ Undo

Spec == Init /\ [][Next]_vars

-----------------------------------------------------------------------------
(* Properties.                                                             *)

\* What a sync that began now would do.
Remaining == Generated(WithoutChurn((UNION {Compared(t) : t \in Tables}) \cup Throughs))

\* The models have the key of t on another column than the database had it: that
\* change has no statement.
KeyMoved(t) == \E k \in Of(before, "pk", t) : k.on # Pk(t)

\* What a foreign key referred to when the sync began.
Referenced(o) == {fk \in before : fk.kind = "fk" /\ fk.ref = <<o.table, o.on>>}

\* A primary key that is taken for a unique constraint.
AsUnique(o) == o.kind = "pk" /\ o.name \notin PkNames

\* The statements come in an order in which the database accepts each of them,
\* whatever it held and wherever an earlier sync was cut off.  Refused are only a
\* foreign key to a primary key that moved, or that was dropped as a unique constraint;
\* the removal of what a key refers to whose name the models give another, or whose
\* table has no model; the removal of a referenced unique constraint, or of a primary
\* key taken for one, which comes before the removal of the foreign key; the second
\* creation of a column of a through table that has another type, and of a table that
\* has no column; and an index whose name is taken in another table, or by an index that
\* stays because a foreign key is called so.
Applicable == stage = "running" => \A o \in Due :
  \/ Accepts(o.op, o.object)
  \/ o.op = "add_fk" /\ KeyMoved(o.object.ref[1])
  \/ o.op = "add_fk" /\ \E k \in Of(before, "pk", o.object.ref[1]) : AsUnique(k)
  \/ o.op = "drop_column" /\ \E fk \in Referenced(o.object) :
       fk.table \notin Tables \/ fk.name \in Names(Of(models, "fk", fk.table))
  \/ o.op = "drop_unique" /\ Referenced(o.object) # {}
  \/ o.op = "add_column" /\ o.object.table \notin Tables
  \/ o.op = "create_table" /\ o.object \in before
  \/ o.op \in {"add_unique", "create_index"} /\ \E b \in before \cap db :
       /\ Clash(b, o.object)
       /\ b.table = o.object.table => b.name \in Names(Of(before, "fk", b.table))

\* The through table of a relation of a model with itself: both its keys are taken for
\* the left one, and each sync drops the key the one before it added.
OfItself(t) == \E m \in models : m.kind = "m2m" /\ m.ref[1] = t /\ m.ref[2] = m.table

\* What was there when the sync began under the name of x, or as the primary key of its
\* table, but on another column or as another kind of object, and is gone now.
GaveWay(x) == \E b \in before \ db :
  /\ b.table = x.table
  /\ b.name = x.name \/ {b.kind, x.kind} = {"pk"}
  /\ b.on # x.on \/ b.kind # x.kind \/ b.ref # x.ref

\* The default name of the key x was that of another key of its table.
NameTaken(x) == \E b \in before :
  b.table = x.table /\ b.name = FkName(x.table, x.on, x.ref[1]) /\ ~Alike(b, x)

\* A sync that ran to its end leaves nothing for the next one, as the tests of the
\* schema diff ask, but what only now finds its name free; a primary key not named
\* LIKE 'pk_%', which postgres has dropped and added in turn; a default of NULL, which
\* is set for ever; the keys of the through table of a relation of a model with itself;
\* and the left key of a relation, when its through table has a model, to which it is a
\* key too many, or when the default name was taken.
SettlesAtOnce == stage = "done" => \A o \in Remaining :
  \/ GaveWay(o.object)
  \/ o.op = "drop_unique" /\ AsUnique(o.object)
  \/ o.op = "add_pk" /\ \E k \in Of(before, "pk", o.object.table) : AsUnique(k) /\ k \notin db
  \/ o.op = "modify_column" /\ Default(o.object) = Null
  \/ o.op \in {"add_fk", "drop_fk"} /\ OfItself(o.object.table)
  \/ /\ o.op \in {"add_fk", "drop_fk"} /\ o.object.table \in Tables
     /\ \E m \in Relations(models) : o.object = RelationKey(m)
  \/ o.op = "add_fk" /\ NameTaken(o.object)

\* The models as a database holds them: with the through tables that have no model.
Wanted ==
  {o \in models : o.kind # "m2m"}
    \cup UNION {UNION {{KeyColumn(m.ref[1], s[1], s[2]), SideKey(m, s)} : s \in Sides(m)} :
                  m \in {o \in models : o.kind = "m2m" /\ o.ref[1] \notin Tables}}

IsAsWanted(o) ==
  IF o.kind = "column"
  THEN \E w \in Wanted : w.kind = "column" /\ w.table = o.table /\ w.on = o.on
                           /\ SameColumn(o, w) /\ ~DefaultChanged(o, w)
  ELSE o \in Wanted

\* What was as the models want it when the sync began is there at every moment of it:
\* no column is dropped and added again, no constraint is missing for a while, but the
\* keys of the through table of a model with itself, and a primary key not named
\* LIKE 'pk_%', which is dropped as a unique constraint.
KeepsWanted == stage \in {"running", "done", "cut", "refused"} =>
  \A o \in before : IsAsWanted(o) =>
    o \in db \/ (o.kind = "fk" /\ OfItself(o.table)) \/ AsUnique(o)

\* A migration that only adds is undone by its down(), which has the statements in the
\* order of up(), unless one of the additions is part of another or refers to it.
DownUndoes ==
  LET added == {o.object : o \in Generated(data)}
      undone == \A o \in Generated(data) : Undoing(o.op) # ""
  IN /\ (stage = "undoing" /\ ran = <<>> /\ undone) => db = before
     /\ stage = "stuck" =>
          \E a, b \in added :
            /\ a # b
            /\ \/ a.table = b.table /\ a.on \in {b.on, ""}
               \/ b.ref # <<>> /\ b.ref[1] = a.table
=============================================================================
