----------------------------- MODULE SchemaProofs -----------------------------
(***************************************************************************)
(* Proofs about the schema sync: for any sound database and any sound      *)
(* models, what is as the models want it is kept by every sync, a          *)
(* migration that only adds is undone by its down(), every statement is    *)
(* accepted when its turn comes, and a sync that ran to its end leaves     *)
(* nothing to the next one, but for the exceptions each property names.    *)
(***************************************************************************)
EXTENDS SchemaSync, SequenceTheorems, TLAPS

Adding ==
  {"create_table", "add_column", "add_pk", "add_fk", "add_unique", "create_index", "add_check"}
Dropping == {"drop_unique", "drop_index", "drop_check", "drop_fk", "drop_column"}
Statements == Adding \cup Dropping \cup {"modify_column"}

\* What the object of a statement is.
Fit(o) ==
  LET x == o.object
  IN  /\ x = Object(x.kind, x.table, x.name, x.on, x.ref, x.def)
      /\ o.op \in {"add_column", "modify_column", "drop_column"} =>
           x.kind = "column" /\ x.on # "" /\ x.name = <<x.on>>
      /\ o.op = "add_unique" => x.kind = "unique"
      /\ o.op = "drop_unique" => x.kind = "unique" \/ (x.kind = "pk" /\ x.name \notin PkNames)
      /\ o.op \in {"create_index", "drop_index"} => x.kind = "index"
      /\ o.op \in {"add_check", "drop_check"} => x.kind = "check"
      /\ o.op \in {"add_fk", "drop_fk"} => x.kind = "fk" /\ x.ref = <<x.ref[1], x.ref[2]>>
      /\ o.op = "add_pk" => x.kind = "pk"
      /\ o.op = "create_table" =>
           /\ x = TableObject(x.table)
           /\ \A w \in o.with :
                /\ w = Object(w.kind, w.table, w.name, w.on, w.ref, w.def)
                /\ w.table = x.table /\ w.kind \in {"column", "pk"}
                /\ \E c \in o.with : c.kind = "column" /\ c.on = w.on
                /\ w.kind = "column" =>
                     /\ w.on # "" /\ w.name = <<w.on>>
                     /\ \A c \in o.with : c.kind = "column" /\ c.on = w.on => c = w

\* The fields of what is built.
LEMMA ObjectFields ==
  ASSUME NEW kind, NEW table, NEW name, NEW on, NEW ref, NEW def, NEW o,
         o = Object(kind, table, name, on, ref, def)
  PROVE  /\ o.kind = kind /\ o.table = table /\ o.name = name /\ o.on = on /\ o.ref = ref /\ o.def = def
         /\ o = Object(o.kind, o.table, o.name, o.on, o.ref, o.def)
BY DEF Object

LEMMA TableFields ==
  ASSUME NEW t, NEW o, o = TableObject(t)
  PROVE  /\ o.kind = "table" /\ o.table = t /\ o.name = <<t>> /\ o.on = "" /\ o.ref = <<>>
BY DEF TableObject, Object

\* A stored column is the one of the models, but for what the database makes of its type.
LEMMA StoredFields ==
  ASSUME NEW o, o = Object(o.kind, o.table, o.name, o.on, o.ref, o.def), NEW n, NEW s, s = Stored(o, n)
  PROVE  /\ s.kind = o.kind /\ s.table = o.table /\ s.name = o.name /\ s.on = o.on /\ s.ref = o.ref
         /\ s = Object(s.kind, s.table, s.name, s.on, s.ref, s.def)
BY DEF Stored, Object

-----------------------------------------------------------------------------
(* The database stays sound.                                               *)

\* A sound database stays so when nothing of what is left loses its table, its column or
\* the key it refers to, and when a constraint comes to a column that is there.
LEMMA SoundAfterRemoval ==
  ASSUME NEW d, SoundDatabase(d), NEW e, e \subseteq d,
         \A o \in e : TableObject(o.table) \in e,
         \A o \in e : o.kind # "table" => \E c \in e : c.kind = "column" /\ c.table = o.table /\ c.on = o.on,
         \A o \in e : o.kind = "fk" => Keyed(o.ref[1], o.ref[2], e)
  PROVE  SoundDatabase(e)
BY DEF SoundDatabase, Sound, Of

LEMMA SoundAfterAddition ==
  ASSUME NEW d, SoundDatabase(d), NEW x, x = Object(x.kind, x.table, x.name, x.on, x.ref, x.def),
         x.kind \in {"pk", "fk", "unique", "index", "check"},
         NEW c \in d, c.kind = "column", c.table = x.table, c.on = x.on,
         x.kind = "fk" => x.ref = <<x.ref[1], x.ref[2]>> /\ Keyed(x.ref[1], x.ref[2], d)
  PROVE  SoundDatabase(d \cup {x})
<1> DEFINE e == d \cup {x}
<1>1. TableObject(x.table) \in d
    BY DEF SoundDatabase, Sound
<1>2. \A o \in e : o.kind = "fk" => Keyed(o.ref[1], o.ref[2], e)
    BY DEF SoundDatabase, Keyed
<1>3. \A o \in d : Of(d, "column", o.table) = Of(e, "column", o.table)
    BY DEF Of
<1>4. \A o \in e : o.kind = "column" => o \in d
    OBVIOUS
<1>5. ASSUME NEW o \in e
      PROVE  /\ o = Object(o.kind, o.table, o.name, o.on, o.ref, o.def)
             /\ TableObject(o.table) \in e
             /\ o.kind = "table" => o = TableObject(o.table)
             /\ o.kind = "fk" => o.ref = <<o.ref[1], o.ref[2]>>
             /\ o.kind \notin {"table", "m2m"} => \E b \in Of(e, "column", o.table) : b.on = o.on
             /\ o.kind = "column" =>
                  /\ o.on # "" /\ o.name = <<o.on>>
                  /\ \A b \in Of(e, "column", o.table) : b.on = o.on => b = o
  <2>1. CASE o \in d
      BY <1>3, <2>1 DEF SoundDatabase, Sound
  <2>2. CASE o = x
    <3>1. c \in Of(e, "column", x.table)
        BY DEF Of
    <3> QED
        BY <1>1, <2>2, <3>1
  <2> QED
      BY <2>1, <2>2
<1> QED
    BY <1>2, <1>5 DEF SoundDatabase, Sound

-----------------------------------------------------------------------------
(* The order of the statements.                                            *)

Joined(r, s, t) ==
  /\ r = s \o t /\ Len(r) = Len(s) + Len(t)
  /\ \A i \in 1..Len(s) : r[i] = s[i]
  /\ \A i \in 1..Len(t) : r[Len(s) + i] = t[i]

LEMMA Concatenated ==
  ASSUME NEW S, NEW s \in Seq(S), NEW t \in Seq(S)
  PROVE  \E r \in Seq(S) : Joined(r, s, t)
<1>1. /\ s \o t \in Seq(S) /\ Len(s \o t) = Len(s) + Len(t)
      /\ \A i \in 1 .. Len(s) + Len(t) : (s \o t)[i] = IF i <= Len(s) THEN s[i] ELSE t[i - Len(s)]
    BY ConcatProperties, Zenon
<1>2. PICK r \in Seq(S) : r = s \o t
    BY <1>1, Zenon
<1>3. Len(r) = Len(s) + Len(t) /\ \A i \in 1 .. Len(s) + Len(t) : r[i] = IF i <= Len(s) THEN s[i] ELSE t[i - Len(s)]
    BY <1>1, <1>2, Zenon
<1>4. PICK m \in Nat, n \in Nat : m = Len(s) /\ n = Len(t)
    OBVIOUS
<1>5. \A i \in 1 .. m + n : r[i] = IF i <= m THEN s[i] ELSE t[i - m]
    BY <1>3, <1>4
<1>6. \A i \in 1..m : r[i] = s[i]
    BY <1>5
<1>7. \A i \in 1..n : m + i \in 1..(m + n) /\ ~(m + i <= m) /\ (m + i) - m = i
    OBVIOUS
<1>8. \A i \in 1..n : r[m + i] = t[i]
    BY <1>5, <1>7
<1>9. \A i \in 1..Len(s) : r[i] = s[i]
    BY <1>4, <1>6, Zenon
<1>10. \A i \in 1..Len(t) : r[Len(s) + i] = t[i]
    BY <1>4, <1>8, Zenon
<1> QED
    BY <1>2, <1>3, <1>9, <1>10, Zenon DEF Joined

\* The statements in their order.
LEMMA OrderIs ==
  /\ Order \in Seq(Statements) /\ DOMAIN Order = 1..13
  /\ Order[1] = "create_table" /\ Order[2] = "add_column" /\ Order[3] = "drop_unique"
  /\ Order[4] = "drop_index" /\ Order[5] = "add_pk" /\ Order[6] = "add_fk"
  /\ Order[7] = "add_unique" /\ Order[8] = "create_index" /\ Order[9] = "drop_check"
  /\ Order[10] = "add_check" /\ Order[11] = "drop_fk" /\ Order[12] = "drop_column"
  /\ Order[13] = "modify_column"
<1> DEFINE first == StructureCreation
           second == ConstraintCreation
           third == Destructive
<1>1. first \in Seq(Statements) /\ Len(first) = 2 /\ first[1] = "create_table" /\ first[2] = "add_column"
    BY DEF StructureCreation, Statements, Adding
<1>2. /\ second \in Seq(Statements) /\ Len(second) = 8 /\ second[1] = "drop_unique"
      /\ second[2] = "drop_index" /\ second[3] = "add_pk" /\ second[4] = "add_fk"
      /\ second[5] = "add_unique" /\ second[6] = "create_index" /\ second[7] = "drop_check"
      /\ second[8] = "add_check"
    BY DEF ConstraintCreation, Statements, Adding, Dropping
<1>3. /\ third \in Seq(Statements) /\ Len(third) = 3
      /\ third[1] = "drop_fk" /\ third[2] = "drop_column" /\ third[3] = "modify_column"
    BY DEF Destructive, Statements, Dropping
<1> HIDE DEF first, second, third
<1>4. Order = (first \o second) \o third
    BY DEF Order, first, second, third
<1>5. PICK a \in Seq(Statements) : a = first
    BY <1>1, Zenon
<1>6. PICK b \in Seq(Statements) : b = second
    BY <1>2, Zenon
<1>7. PICK c \in Seq(Statements) : c = third
    BY <1>3, Zenon
<1>8. PICK s \in Seq(Statements) : Joined(s, a, b)
    BY Concatenated, Zenon
<1>9. PICK r \in Seq(Statements) : Joined(r, s, c)
    BY Concatenated, Zenon
<1>10. Len(a) = 2 /\ Len(b) = 8 /\ Len(c) = 3
    BY <1>1, <1>2, <1>3, <1>5, <1>6, <1>7, Zenon
<1>11. Order = r
    BY <1>4, <1>5, <1>6, <1>7, <1>8, <1>9, Zenon DEF Joined
<1>12. Len(s) = Len(a) + Len(b) /\ Len(r) = Len(s) + Len(c)
    BY <1>8, <1>9, Zenon DEF Joined
<1>13. Len(s) = 10 /\ Len(r) = 13
    BY <1>10, <1>12
<1>14. \A i \in 1..2 : s[i] = a[i]
    BY <1>8, <1>10, Zenon DEF Joined
<1>15. \A i \in 1..8 : s[2 + i] = b[i]
    BY <1>8, <1>10, Zenon DEF Joined
<1>16. \A i \in 1..10 : r[i] = s[i]
    BY <1>9, <1>13, Zenon DEF Joined
<1>17. \A i \in 1..3 : r[10 + i] = c[i]
  <2>1. \A i \in 1..Len(c) : r[Len(s) + i] = c[i]
      BY <1>9, Zenon DEF Joined
  <2> QED
      BY <2>1, <1>10, <1>13
<1>18. r[1] = "create_table" /\ r[2] = "add_column"
  <2>1. a[1] = "create_table" /\ a[2] = "add_column"
      BY <1>1, <1>5, Zenon
  <2>2. s[1] = a[1] /\ s[2] = a[2]
      BY <1>14
  <2>3. r[1] = s[1] /\ r[2] = s[2]
      BY <1>16
  <2> QED
      BY <2>1, <2>2, <2>3
<1>19. /\ r[3] = "drop_unique" /\ r[4] = "drop_index" /\ r[5] = "add_pk" /\ r[6] = "add_fk"
       /\ r[7] = "add_unique" /\ r[8] = "create_index" /\ r[9] = "drop_check" /\ r[10] = "add_check"
  <2>1. /\ b[1] = "drop_unique" /\ b[2] = "drop_index" /\ b[3] = "add_pk" /\ b[4] = "add_fk"
        /\ b[5] = "add_unique" /\ b[6] = "create_index" /\ b[7] = "drop_check" /\ b[8] = "add_check"
      BY <1>2, <1>6, Zenon
  <2>2. /\ s[2 + 1] = b[1] /\ s[2 + 2] = b[2] /\ s[2 + 3] = b[3] /\ s[2 + 4] = b[4]
        /\ s[2 + 5] = b[5] /\ s[2 + 6] = b[6] /\ s[2 + 7] = b[7] /\ s[2 + 8] = b[8]
      BY <1>15
  <2>3. /\ r[3] = s[3] /\ r[4] = s[4] /\ r[5] = s[5] /\ r[6] = s[6] /\ r[7] = s[7]
        /\ r[8] = s[8] /\ r[9] = s[9] /\ r[10] = s[10]
      BY <1>16
  <2> QED
      BY <2>1, <2>2, <2>3
<1>20. r[11] = "drop_fk" /\ r[12] = "drop_column" /\ r[13] = "modify_column"
  <2>1. c[1] = "drop_fk" /\ c[2] = "drop_column" /\ c[3] = "modify_column"
      BY <1>3, <1>7, Zenon
  <2>2. r[10 + 1] = c[1] /\ r[10 + 2] = c[2] /\ r[10 + 3] = c[3]
      BY <1>17
  <2> QED
      BY <2>1, <2>2
<1>21. DOMAIN r = 1..13
    BY <1>13
<1> QED
    BY <1>11, <1>18, <1>19, <1>20, <1>21, Zenon

LEMMA GeneratedAre ==
  ASSUME NEW ops, NEW o \in Generated(ops)
  PROVE  o \in ops /\ o.op \in Statements
<1>1. PICK i \in DOMAIN Order : Order[i] = o.op
    BY DEF Generated
<1>2. PICK r \in Seq(Statements) : r = Order
    BY OrderIs, Zenon
<1>3. i \in DOMAIN r /\ r[i] = o.op
    BY <1>1, <1>2, Zenon
<1>4. o.op \in Statements
    BY <1>3
<1> QED
    BY <1>4 DEF Generated

-----------------------------------------------------------------------------
(* What is as the models want it is kept.                                  *)

\* The statement o takes away nothing that is as the models want it, but the key of a
\* relation of a model with itself, and a primary key that is taken for a unique one.
Spares(o) ==
  \A b \in before : IsAsWanted(b) =>
    /\ o.op = "drop_unique" => b # o.object \/ AsUnique(b)
    /\ o.op \in {"drop_index", "drop_check"} => b # o.object
    /\ o.op = "drop_fk" => b # o.object \/ OfItself(b.table)
    /\ o.op = "drop_column" => ~(b.table = o.object.table /\ b.on = o.object.on)
    /\ o.op = "modify_column" =>
         ~(b.kind = "column" /\ b.table = o.object.table /\ b.name = o.object.name)

SyncInv ==
  /\ SoundModels(models)
  /\ SoundDatabase(before)
  /\ stage \notin {"undoing", "stuck"} => SoundDatabase(db)
  /\ stage = "comparing" => db = before /\ \A o \in data : Fit(o) /\ Spares(o)
  /\ stage = "running" => \A o \in todo : o.op \in Statements /\ Fit(o) /\ Spares(o)
  /\ KeepsWanted

\* What it is to be sound.
LEMMA SoundObjects ==
  ASSUME NEW S, Sound(S)
  PROVE  /\ \A o \in S : o = Object(o.kind, o.table, o.name, o.on, o.ref, o.def)
         /\ \A o \in S : TableObject(o.table) \in S
         /\ \A o \in S : o.kind = "table" => o = TableObject(o.table)
         /\ \A o \in S : o.kind = "fk" => o.ref = <<o.ref[1], o.ref[2]>>
BY DEF Sound

LEMMA SoundColumns ==
  ASSUME NEW S, Sound(S)
  PROVE  /\ \A o \in S : o.kind = "column" => o.on # "" /\ o.name = <<o.on>>
         /\ \A o, c \in S : o.kind = "column" /\ c.kind = "column" /\ c.table = o.table /\ c.on = o.on
                              => c = o
         /\ \A o \in S : o.kind \notin {"table", "m2m"} =>
              \E c \in S : c.kind = "column" /\ c.table = o.table /\ c.on = o.on
<1>1. \A o \in S : o.kind = "column" => o.on # "" /\ o.name = <<o.on>>
    BY DEF Sound
<1>2. ASSUME NEW o \in S, NEW c \in S, o.kind = "column", c.kind = "column", c.table = o.table,
             c.on = o.on
      PROVE  c = o
  <2>1. c \in Of(S, "column", o.table)
      BY <1>2 DEF Of
  <2> QED
      BY <1>2, <2>1 DEF Sound
<1>3. ASSUME NEW o \in S, o.kind \notin {"table", "m2m"}
      PROVE  \E c \in S : c.kind = "column" /\ c.table = o.table /\ c.on = o.on
  <2>1. PICK c \in Of(S, "column", o.table) : c.on = o.on
      BY <1>3, Zenon DEF Sound
  <2> QED
      BY <2>1 DEF Of
<1> QED
    BY <1>1, <1>2, <1>3

LEMMA ModelFacts ==
  ASSUME SoundModels(models)
  PROVE  /\ \A o \in models : o = Object(o.kind, o.table, o.name, o.on, o.ref, o.def)
         /\ \A o \in models : TableObject(o.table) \in models
         /\ \A o \in models : o.kind = "table" => o = TableObject(o.table)
         /\ \A o \in models : o.kind = "fk" => o.ref = <<o.ref[1], o.ref[2]>>
         /\ \A o \in models : o.kind = "column" => o.on # "" /\ o.name = <<o.on>>
         /\ \A o, c \in models :
              o.kind = "column" /\ c.kind = "column" /\ c.table = o.table /\ c.on = o.on => c = o
         /\ \A o \in models : o.kind \notin {"table", "m2m"} =>
              \E c \in models : c.kind = "column" /\ c.table = o.table /\ c.on = o.on
<1>1. Sound(models)
    BY DEF SoundModels
<1> QED
    BY <1>1, SoundObjects, SoundColumns, Zenon

\* What the models agree on.
LEMMA NamesDiffer ==
  ASSUME SoundModels(models)
  PROVE  /\ \A o \in models : \E c \in models : c.kind = "column" /\ c.table = o.table
         /\ \A o, x \in models : o.kind = "pk" /\ x.kind = "pk" /\ o.table = x.table => o = x
         /\ \A o \in models : o.kind = "fk" =>
              \E k \in models : k.kind = "pk" /\ k.table = o.ref[1] /\ k.on = o.ref[2]
         /\ \A o, x \in models : o.kind # "m2m" /\ Clash(o, x) => o = x
<1>1. ASSUME NEW o \in models
      PROVE  /\ Of(models, "column", o.table) # {}
             /\ o.kind = "fk" => \E k \in Of(models, "pk", o.ref[1]) : k.on = o.ref[2]
             /\ \A x \in Of(models, "pk", o.table) : o.kind = "pk" => o = x
             /\ \A x \in models : o.kind # "m2m" /\ Clash(o, x) => o = x
    BY Zenon DEF SoundModels
<1> QED
    BY <1>1 DEF Of

LEMMA PlainNames ==
  ASSUME SoundModels(models)
  PROVE  \A o \in models : o.kind \in {"index", "unique"} => o.name \notin PkNames
BY DEF SoundModels

LEMMA RelationFacts ==
  ASSUME SoundModels(models), NEW m \in models, m.kind = "m2m"
  PROVE  /\ SoundRelation(m, models)
         /\ Left(m)[1] # Right(m)[1] /\ Left(m)[1] # "" /\ Right(m)[1] # ""
         /\ \A n \in models : n.kind = "m2m" /\ m.ref[1] = n.ref[1] =>
              Sides(m) = Sides(n) /\ (m.name = n.name => m = n)
<1>1. SoundRelation(m, models)
    BY DEF SoundModels, Relations
<1>2. \A n \in models : n.kind = "m2m" /\ m.ref[1] = n.ref[1] =>
        Sides(m) = Sides(n) /\ (m.name = n.name => m = n)
    BY <1>1 DEF SoundRelation, Relations
<1> QED
    BY <1>1, <1>2 DEF SoundRelation

LEMMA DatabaseFacts ==
  ASSUME NEW S, SoundDatabase(S)
  PROVE  /\ \A o \in S : o = Object(o.kind, o.table, o.name, o.on, o.ref, o.def)
         /\ \A o \in S : TableObject(o.table) \in S
         /\ \A o \in S : o.kind = "table" => o = TableObject(o.table)
         /\ \A o \in S : o.kind = "fk" => o.ref = <<o.ref[1], o.ref[2]>>
         /\ \A o \in S : o.kind = "column" => o.on # "" /\ o.name = <<o.on>>
         /\ \A o, c \in S :
              o.kind = "column" /\ c.kind = "column" /\ c.table = o.table /\ c.on = o.on => c = o
         /\ \A o \in S : o.kind # "table" =>
              \E c \in S : c.kind = "column" /\ c.table = o.table /\ c.on = o.on
         /\ \A o \in S : o.kind # "m2m"
         /\ \A o \in S : o.kind = "fk" => Keyed(o.ref[1], o.ref[2], S)
<1>1. /\ Sound(S) /\ \A o \in S : o.kind # "m2m"
      /\ \A o \in S : o.kind = "fk" => Keyed(o.ref[1], o.ref[2], S)
    BY DEF SoundDatabase
<1>2. /\ \A o \in S : o = Object(o.kind, o.table, o.name, o.on, o.ref, o.def)
      /\ \A o \in S : TableObject(o.table) \in S
      /\ \A o \in S : o.kind = "table" => o = TableObject(o.table)
      /\ \A o \in S : o.kind = "fk" => o.ref = <<o.ref[1], o.ref[2]>>
    BY <1>1, SoundObjects, Zenon
<1>3. /\ \A o \in S : o.kind = "column" => o.on # "" /\ o.name = <<o.on>>
      /\ \A o, c \in S :
           o.kind = "column" /\ c.kind = "column" /\ c.table = o.table /\ c.on = o.on => c = o
    BY <1>1, SoundColumns, Zenon
<1>4. \A o \in S : o.kind \notin {"table", "m2m"} =>
        \E c \in S : c.kind = "column" /\ c.table = o.table /\ c.on = o.on
    BY <1>1, SoundColumns, Zenon
<1>5. \A o \in S : o.kind # "table" =>
        \E c \in S : c.kind = "column" /\ c.table = o.table /\ c.on = o.on
    BY <1>1, <1>4
<1> QED
    BY <1>1, <1>2, <1>3, <1>5, Zenon

LEMMA BeforeFacts ==
  ASSUME SoundDatabase(before)
  PROVE  /\ \A o \in before : o.kind = "column" => o.on # "" /\ o.name = <<o.on>>
         /\ \A o, c \in before :
              o.kind = "column" /\ c.kind = "column" /\ c.table = o.table /\ c.on = o.on => c = o
BY DatabaseFacts, Zenon

\* The objects of the models are of tables of the models.
LEMMA ModelTables ==
  ASSUME SoundModels(models), NEW o \in models
  PROVE  o.table \in Tables
<1>1. TableObject(o.table) \in models
    BY DEF SoundModels, Sound
<1>2. TableObject(o.table).kind = "table" /\ TableObject(o.table).table = o.table
    BY TableFields
<1> QED
    BY <1>1, <1>2 DEF Tables

LEMMA KeyColumnFields ==
  ASSUME NEW t, NEW c, NEW of, NEW o, o = KeyColumn(t, c, of)
  PROVE  /\ o.kind = "column" /\ o.table = t /\ o.name = <<c>> /\ o.on = c
         /\ o = Object(o.kind, o.table, o.name, o.on, o.ref, o.def)
<1>1. PICK d : o = Object("column", t, <<c>>, c, <<>>, d)
    BY DEF KeyColumn
<1> QED
    BY <1>1, ObjectFields

LEMMA SideKeyFields ==
  ASSUME NEW m, NEW s, NEW o, o = SideKey(m, s)
  PROVE  /\ o.kind = "fk" /\ o.table = m.ref[1] /\ o.on = s[1]
         /\ o.ref = <<o.ref[1], o.ref[2]>> /\ o.ref[1] = s[2]
         /\ o = Object(o.kind, o.table, o.name, o.on, o.ref, o.def)
<1>1. PICK n, p, d : o = Object("fk", m.ref[1], n, s[1], <<s[2], p>>, d)
    BY DEF SideKey, ForeignKey
<1>2. /\ o.kind = "fk" /\ o.table = m.ref[1] /\ o.on = s[1] /\ o.ref = <<s[2], p>>
      /\ o = Object(o.kind, o.table, o.name, o.on, o.ref, o.def)
    BY <1>1, ObjectFields
<1> QED
    BY <1>2

\* What is wanted is an object of the models, or of a through table without a model.
LEMMA WantedIs ==
  ASSUME SoundModels(models), NEW w \in Wanted
  PROVE  /\ w.table \in Tables => w \in models /\ w.kind # "m2m"
         /\ w.table \notin Tables =>
              \E m \in models : /\ m.kind = "m2m" /\ m.ref[1] = w.table
                                /\ \E s \in Sides(m) : \/ w = KeyColumn(m.ref[1], s[1], s[2])
                                                       \/ w = SideKey(m, s)
<1>1. CASE w \in models /\ w.kind # "m2m"
    BY <1>1, ModelTables
<1>2. CASE ~(w \in models /\ w.kind # "m2m")
  <2>1. PICK m \in {o \in models : o.kind = "m2m" /\ o.ref[1] \notin Tables} :
          w \in UNION {{KeyColumn(m.ref[1], s[1], s[2]), SideKey(m, s)} : s \in Sides(m)}
      BY <1>2 DEF Wanted
  <2>2. PICK s \in Sides(m) : w = KeyColumn(m.ref[1], s[1], s[2]) \/ w = SideKey(m, s)
      BY <2>1, Zenon
  <2>3. w.table = m.ref[1]
    <3>1. CASE w = KeyColumn(m.ref[1], s[1], s[2])
        BY <3>1, KeyColumnFields
    <3>2. CASE w = SideKey(m, s)
        BY <3>2, SideKeyFields
    <3> QED
        BY <2>2, <3>1, <3>2
  <2>4. m \in models /\ m.kind = "m2m" /\ m.ref[1] \notin Tables
      BY <2>1, Zenon
  <2>5. \E s1 \in Sides(m) : w = KeyColumn(m.ref[1], s1[1], s1[2]) \/ w = SideKey(m, s1)
      BY <2>2, Zenon
  <2> QED
      BY <2>3, <2>4, <2>5, Zenon
<1> QED
    BY <1>1, <1>2

\* The operations of one table.
LEMMA OperationsAre ==
  ASSUME NEW op, NEW S, NEW o \in Operations(op, S)
  PROVE  o.op = op /\ o.object \in S
BY DEF Operations, Operation

LEMMA ComparedIs ==
  ASSUME NEW t, NEW o \in Compared(t)
  PROVE  \/ /\ o.op = "create_table" /\ o.object = TableObject(t)
            /\ o.with = Of(models, "column", t) \cup Of(models, "pk", t)
         \/ o.op = "add_column" /\ o.object \in ColumnsNew(t)
         \/ o.op = "modify_column" /\ o.object \in ColumnsChanged(t)
         \/ o.op = "drop_column" /\ o.object \in ColumnsLost(t)
         \/ o.op = "create_index" /\ o.object \in Of(models, "index", t)
         \/ o.op = "drop_index" /\ o.object \in IndexesLost(t)
         \/ o.op = "add_unique" /\ o.object \in Of(models, "unique", t)
         \/ o.op = "drop_unique" /\ o.object \in UniquesLost(t)
         \/ o.op = "add_check" /\ o.object \in Of(models, "check", t)
         \/ o.op = "drop_check" /\ o.object \in ChecksLost(t)
         \/ o.op = "add_fk" /\ o.object \in Of(models, "fk", t) \cup RelationsNew(t)
         \/ o.op = "drop_fk" /\ o.object \in RelationsLost(t)
         \/ o.op = "modify_fk" /\ o.object \in RelationsChanged(t)
         \/ o.op = "add_pk" /\ o.object \in Of(models, "pk", t)
         \/ o.op = "modify_pk" /\ o.object \in Of(models, "pk", t)
         \/ o.op = "drop_pk" /\ o.object \in PrimaryKeyHere(t)
<1>1. CASE ColumnsHere(t) = {}
  <2>1. o \in NewTable(t)
      BY <1>1 DEF Compared
  <2> QED
      BY <2>1, OperationsAre DEF NewTable
<1>2. CASE ColumnsHere(t) # {}
  <2>1. o \in Differences(t)
      BY <1>2 DEF Compared
  <2>2. /\ IndexesNew(t) \subseteq Of(models, "index", t)
        /\ UniquesNew(t) \subseteq Of(models, "unique", t)
        /\ ChecksNew(t) \subseteq Of(models, "check", t)
      BY DEF IndexesNew, UniquesNew, ChecksNew, Lacking
  <2>3. CASE o \in PrimaryKeys(t)
      BY <2>3, OperationsAre DEF PrimaryKeys
  <2>4. CASE o \notin PrimaryKeys(t)
    <3>1. \/ o \in Operations("add_column", ColumnsNew(t))
          \/ o \in Operations("drop_column", ColumnsLost(t))
          \/ o \in Operations("modify_column", ColumnsChanged(t))
          \/ o \in Operations("create_index", IndexesNew(t))
          \/ o \in Operations("drop_index", IndexesLost(t))
          \/ o \in Operations("add_unique", UniquesNew(t))
          \/ o \in Operations("drop_unique", UniquesLost(t))
          \/ o \in Operations("add_check", ChecksNew(t))
          \/ o \in Operations("drop_check", ChecksLost(t))
          \/ o \in Operations("add_fk", RelationsNew(t))
          \/ o \in Operations("drop_fk", RelationsLost(t))
          \/ o \in Operations("modify_fk", RelationsChanged(t))
        BY <2>1, <2>4 DEF Differences
    <3> QED
        BY <3>1, <2>2, OperationsAre
  <2> QED
      BY <2>3, <2>4
<1> QED
    BY <1>1, <1>2

\* A new key is one of the models, or the left key of a relation.
LEMMA NewKeyFields ==
  ASSUME SoundModels(models), NEW t, NEW x \in Of(models, "fk", t) \cup RelationsNew(t)
  PROVE  /\ x.kind = "fk" /\ x.ref = <<x.ref[1], x.ref[2]>>
         /\ x = Object(x.kind, x.table, x.name, x.on, x.ref, x.def)
<1>1. CASE x \in Of(models, "fk", t)
    BY <1>1 DEF SoundModels, Sound, Of
<1>2. CASE x \notin Of(models, "fk", t)
  <2>1. PICK m \in Of(models, "m2m", t) : x = RelationKey(m)
      BY <1>2 DEF RelationsNew, Lacking
  <2>2. PICK p : x = Object("fk", m.ref[1], m.name, m.on, <<m.table, p>>, m.def)
      BY <2>1 DEF RelationKey, ForeignKey
  <2>3. /\ x.kind = "fk" /\ x.ref = <<m.table, p>>
        /\ x = Object(x.kind, x.table, x.name, x.on, x.ref, x.def)
      BY <2>2, ObjectFields
  <2> QED
      BY <2>3
<1> QED
    BY <1>1, <1>2

\* What the comparison of a table finds fits.
LEMMA ComparedFits ==
  ASSUME SoundModels(models), SoundDatabase(db), NEW t, NEW o \in Compared(t)
  PROVE  Fit(o)
<1>1. CASE /\ o.op = "create_table" /\ o.object = TableObject(t)
           /\ o.with = Of(models, "column", t) \cup Of(models, "pk", t)
  <2>1. /\ o.object.kind = "table" /\ o.object.table = t
        /\ o.object = Object(o.object.kind, o.object.table, o.object.name, o.object.on,
                             o.object.ref, o.object.def)
    <3>1. PICK x : x = o.object
        OBVIOUS
    <3>2. x = Object("table", t, <<t>>, "", <<>>, <<>>)
        BY <1>1, <3>1 DEF TableObject
    <3>3. /\ x.kind = "table" /\ x.table = t
          /\ x = Object(x.kind, x.table, x.name, x.on, x.ref, x.def)
        BY <3>2 DEF Object
    <3> QED
        BY <3>1, <3>3
  <2>2. ASSUME NEW w \in o.with
        PROVE  /\ w = Object(w.kind, w.table, w.name, w.on, w.ref, w.def)
               /\ w.table = t /\ w.kind \in {"column", "pk"}
               /\ \E c \in o.with : c.kind = "column" /\ c.on = w.on
               /\ w.kind = "column" =>
                    /\ w.on # "" /\ w.name = <<w.on>>
                    /\ \A c \in o.with : c.kind = "column" /\ c.on = w.on => c = w
    <3>1. w \in models /\ w.table = t /\ w.kind \in {"column", "pk"}
        BY <1>1 DEF Of
    <3>3. \A c : c \in o.with <=> c \in models /\ c.table = t /\ c.kind \in {"column", "pk"}
        BY <1>1 DEF Of
    <3>4. \E c \in models : c.kind = "column" /\ c.table = t /\ c.on = w.on
        BY <3>1, ModelFacts
    <3>5. w = Object(w.kind, w.table, w.name, w.on, w.ref, w.def)
        BY <3>1, ModelFacts
    <3>6. w.kind = "column" => w.on # "" /\ w.name = <<w.on>>
        BY <3>1, ModelFacts
    <3>7. ASSUME w.kind = "column", NEW c \in o.with, c.kind = "column", c.on = w.on
          PROVE  c = w
        BY <3>1, <3>3, <3>7, ModelFacts
    <3> QED
        BY <3>1, <3>3, <3>4, <3>5, <3>6, <3>7
  <2> QED
      BY <1>1, <2>1, <2>2 DEF Fit
<1>2. CASE o.op \in {"add_column", "modify_column", "create_index", "add_unique", "add_check",
                     "add_pk", "modify_pk", "modify_fk"}
  <2>1. /\ o.object \in models
        /\ o.op \in {"add_column", "modify_column"} => o.object.kind = "column"
        /\ o.op = "create_index" => o.object.kind = "index"
        /\ o.op = "add_unique" => o.object.kind = "unique"
        /\ o.op = "add_check" => o.object.kind = "check"
        /\ o.op = "add_pk" => o.object.kind = "pk"
    <3>1. \/ o.op = "add_column" /\ o.object \in ColumnsNew(t)
          \/ o.op = "modify_column" /\ o.object \in ColumnsChanged(t)
          \/ o.op = "create_index" /\ o.object \in Of(models, "index", t)
          \/ o.op = "add_unique" /\ o.object \in Of(models, "unique", t)
          \/ o.op = "add_check" /\ o.object \in Of(models, "check", t)
          \/ o.op = "modify_fk" /\ o.object \in RelationsChanged(t)
          \/ o.op = "add_pk" /\ o.object \in Of(models, "pk", t)
          \/ o.op = "modify_pk" /\ o.object \in Of(models, "pk", t)
        BY <1>2, ComparedIs
    <3> QED
        BY <3>1 DEF ColumnsNew, ColumnsChanged, RelationsChanged, Lacking, Of
  <2> QED
      BY <1>2, <2>1 DEF Fit, SoundModels, Sound
<1>3. CASE o.op \in {"drop_column", "drop_index", "drop_unique", "drop_check", "drop_fk", "drop_pk"}
  <2>1. /\ o.object \in db
        /\ o.op = "drop_column" => o.object.kind = "column"
        /\ o.op = "drop_index" => o.object.kind = "index"
        /\ o.op = "drop_unique" =>
             \/ o.object.kind = "unique"
             \/ o.object.kind = "pk" /\ o.object.name \notin PkNames
        /\ o.op = "drop_check" => o.object.kind = "check"
        /\ o.op = "drop_fk" => o.object.kind = "fk"
    <3>1. \/ o.op = "drop_column" /\ o.object \in ColumnsLost(t)
          \/ o.op = "drop_index" /\ o.object \in IndexesLost(t)
          \/ o.op = "drop_unique" /\ o.object \in UniquesLost(t)
          \/ o.op = "drop_check" /\ o.object \in ChecksLost(t)
          \/ o.op = "drop_fk" /\ o.object \in RelationsLost(t)
          \/ o.op = "drop_pk" /\ o.object \in PrimaryKeyHere(t)
        BY <1>3, ComparedIs
    <3> QED
        BY <3>1 DEF ColumnsLost, IndexesLost, UniquesLost, ChecksLost, RelationsLost, PrimaryKeyHere,
                    ColumnsHere, ChecksHere, KeysHere, PlainIndexesHere, UniquesHere, Listed,
                    Lacking, Of
  <2> QED
      BY <1>3, <2>1 DEF Fit, SoundDatabase, Sound
<1>4. CASE o.op = "add_fk"
  <2>1. o.object \in Of(models, "fk", t) \cup RelationsNew(t)
      BY <1>4, ComparedIs
  <2> QED
      BY <1>4, <2>1, NewKeyFields DEF Fit
<1> QED
    BY <1>1, <1>2, <1>3, <1>4, ComparedIs

\* What is lost is not in the models, but for a primary key that is taken for a unique one.
LEMMA LostIs ==
  ASSUME NEW t, NEW x
  PROVE  /\ x \in UniquesLost(t) =>
              x.table = t /\ (AsUnique(x) \/ (x.kind = "unique" /\ x \notin models))
         /\ x \in IndexesLost(t) \/ x \in ChecksLost(t) \/ x \in RelationsLost(t) =>
              x.table = t /\ x.kind # "column" /\ x \notin models
<1>1. ASSUME x \in UniquesLost(t)
      PROVE  x.table = t /\ (AsUnique(x) \/ (x.kind = "unique" /\ x \notin models))
  <2>1. /\ x.table = t /\ x.kind \in {"unique", "pk"} /\ x.name \notin PkNames
        /\ ~\E m \in models : m.table = t /\ m.kind = "unique" /\ m.name = x.name
      BY <1>1 DEF UniquesLost, UniquesHere, Listed, There, Lacking, Names, Of
  <2> QED
      BY <2>1 DEF AsUnique
<1>2. ASSUME x \in IndexesLost(t)
      PROVE  x.table = t /\ x.kind # "column" /\ x \notin models
  <2>1. /\ x.table = t /\ x.kind = "index"
        /\ ~\E m \in models : m.table = t /\ m.kind = "index" /\ m.name = x.name
      BY <1>2 DEF IndexesLost, PlainIndexesHere, Listed, There, Lacking, Names, Of
  <2> QED
      BY <2>1
<1>3. ASSUME x \in ChecksLost(t) \/ x \in RelationsLost(t)
      PROVE  x.table = t /\ x.kind # "column" /\ x \notin models
    BY <1>3 DEF ChecksLost, RelationsLost, ChecksHere, KeysHere, There, Lacking, Names, Of
<1> QED
    BY <1>1, <1>2, <1>3

\* What the comparison of a table takes away, or changes, is not as the models want it.
LEMMA ComparedSpares ==
  ASSUME SoundModels(models), SoundDatabase(before), db = before, NEW t \in Tables,
         NEW o \in Compared(t)
  PROVE  Spares(o)
<1> DEFINE x == o.object
<1>1. SUFFICES ASSUME NEW b \in before, IsAsWanted(b)
               PROVE  /\ o.op = "drop_unique" => b # x \/ AsUnique(b)
                      /\ o.op \in {"drop_index", "drop_check"} => b # x
                      /\ o.op = "drop_fk" => b # x
                      /\ o.op = "drop_column" => ~(b.table = x.table /\ b.on = x.on)
                      /\ o.op = "modify_column" =>
                           ~(b.kind = "column" /\ b.table = x.table /\ b.name = x.name)
    BY DEF Spares
<1>2. PICK w \in Wanted :
        /\ w.table = b.table /\ w.on = b.on
        /\ IF b.kind = "column" THEN w.kind = "column" /\ SameColumn(b, w) /\ ~DefaultChanged(b, w)
           ELSE w = b
    BY <1>1 DEF IsAsWanted
<1>3. b.table = t => w \in models /\ w.kind # "m2m"
    BY <1>2, WantedIs
<1>4. ASSUME o.op \in {"drop_unique", "drop_index", "drop_check", "drop_fk"},
             ~(o.op = "drop_unique" /\ AsUnique(x))
      PROVE  b # x
  <2>1. x.table = t /\ x \notin models /\ x.kind # "column"
    <3>1. \/ x \in IndexesLost(t) \/ (o.op = "drop_unique" /\ x \in UniquesLost(t))
          \/ x \in ChecksLost(t) \/ x \in RelationsLost(t)
        BY <1>4, ComparedIs
    <3> QED
        BY <1>4, <3>1, LostIs
  <2> QED
      BY <2>1, <1>2, <1>3
<1>5. ASSUME o.op = "drop_column", b.table = x.table, b.on = x.on
      PROVE  FALSE
  <2>1. x \in ColumnsLost(t)
      BY <1>5, ComparedIs
  <2>2. /\ x \in before /\ x.kind = "column" /\ x.table = t
        /\ \A m \in models : m.kind = "column" /\ m.table = t => m.name # x.name
      BY <2>1 DEF ColumnsLost, ColumnsHere, There, Lacking, Names, Of
  <2>3. x.name = <<x.on>> /\ x.on # ""
      BY <2>2, BeforeFacts
  <2>4. w \in models /\ w.kind # "m2m" /\ w.table = t /\ w.on = x.on
      BY <1>2, <1>3, <1>5, <2>2
  <2>5. w.kind # "table"
    <3>1. w.kind = "table" => w = TableObject(w.table)
        BY <2>4, ModelFacts, Zenon
    <3>2. w = TableObject(w.table) => w.on = ""
        BY TableFields, Zenon
    <3> QED
        BY <2>3, <2>4, <3>1, <3>2
  <2>6. \E c \in models : c.kind = "column" /\ c.table = t /\ c.on = x.on
    <3>1. \A m \in models : m.kind \notin {"table", "m2m"} =>
            \E c \in models : c.kind = "column" /\ c.table = m.table /\ c.on = m.on
        BY ModelFacts
    <3> QED
        BY <2>4, <2>5, <3>1
  <2>7. \E c \in models : c.kind = "column" /\ c.table = t /\ c.name = <<x.on>>
      BY <2>6, ModelFacts
  <2> QED
      BY <2>2, <2>3, <2>7
<1>6. ASSUME o.op = "modify_column", b.kind = "column", b.table = x.table, b.name = x.name
      PROVE  FALSE
  <2>1. x \in ColumnsChanged(t)
      BY <1>6, ComparedIs
  <2>2. x \in models /\ x.kind = "column" /\ x.table = t
      BY <2>1 DEF ColumnsChanged, Of
  <2>3. PICK d \in before : /\ d.kind = "column" /\ d.table = t /\ d.name = x.name
                            /\ ~SameColumn(d, x) \/ DefaultChanged(d, x)
      BY <2>1 DEF ColumnsChanged, ColumnsHere, Of
  <2>4. x.name = <<x.on>> /\ b.name = <<b.on>> /\ d.name = <<d.on>>
      BY <2>2, <2>3, <1>6, ModelFacts, BeforeFacts
  <2>5. b.on = x.on /\ d.on = x.on
      BY <2>3, <2>4, <1>6
  <2>6. b = d
      BY <2>2, <2>3, <2>5, <1>6, BeforeFacts
  <2>7. w \in models /\ w.kind = "column" /\ w.table = t /\ w.on = x.on
      BY <1>2, <1>3, <1>6, <2>2, <2>5
  <2>8. w = x
    <3>1. \A m, c \in models :
            m.kind = "column" /\ c.kind = "column" /\ c.table = m.table /\ c.on = m.on => c = m
        BY ModelFacts
    <3> QED
        BY <2>2, <2>7, <3>1
  <2> QED
      BY <1>2, <1>6, <2>3, <2>6, <2>8
<1> QED
    BY <1>4, <1>5, <1>6

\* One relation through each table that has no model is looked at.
LEMMA ProcessedAre ==
  ASSUME NEW m \in Processed
  PROVE  /\ m \in models /\ m.kind = "m2m" /\ m.ref[1] \notin Tables
         /\ m = CHOOSE n \in Relations(models) : n.ref[1] = m.ref[1]
<1>1. PICK t \in {n.ref[1] : n \in Relations(models)} \ Tables :
        m = CHOOSE n \in Relations(models) : n.ref[1] = t
    BY DEF Processed
<1>2. \E n \in Relations(models) : n.ref[1] = t
    BY <1>1
<1>3. m \in Relations(models) /\ m.ref[1] = t
    BY <1>1, <1>2
<1>4. m \in models /\ m.kind = "m2m"
    BY <1>3 DEF Relations
<1>5. m = CHOOSE n \in Relations(models) : n.ref[1] = m.ref[1]
    BY <1>1, <1>3, Zenon
<1> QED
    BY <1>1, <1>3, <1>4, <1>5

LEMMA ProcessedOnce ==
  ASSUME NEW m \in Processed, NEW n \in Processed, m.ref[1] = n.ref[1]
  PROVE  m = n
<1>1. PICK t : t = m.ref[1]
    OBVIOUS
<1>2. /\ m = CHOOSE r \in Relations(models) : r.ref[1] = t
      /\ n = CHOOSE r \in Relations(models) : r.ref[1] = t
    BY <1>1, ProcessedAre
<1> QED
    BY <1>2, Zenon

LEMMA AllProcessed ==
  ASSUME NEW r \in models, r.kind = "m2m", r.ref[1] \notin Tables
  PROVE  \E m \in Processed : m.ref[1] = r.ref[1]
<1>1. r \in Relations(models)
    BY DEF Relations
<1>2. PICK t : t = r.ref[1]
    OBVIOUS
<1>3. t \in {n.ref[1] : n \in Relations(models)} \ Tables
    BY <1>1, <1>2
<1>4. PICK m : m = CHOOSE n \in Relations(models) : n.ref[1] = t
    OBVIOUS
<1>5. m \in Processed
    BY <1>3, <1>4 DEF Processed
<1>6. m.ref[1] = t
    BY <1>1, <1>2, <1>4
<1> QED
    BY <1>2, <1>5, <1>6

\* The operations of the through table of a relation.
LEMMA ThroughsAre ==
  ASSUME NEW o \in Throughs
  PROVE  \E m \in models :
           /\ m.kind = "m2m" /\ m.ref[1] \notin Tables
           /\ \/ o \in NewThrough(m)
              \/ o \in ThroughChanged(m)
<1>1. PICK m \in Processed :
        o \in IF ColumnsHere(m.ref[1]) = {} THEN NewThrough(m) ELSE ThroughChanged(m)
    BY DEF Throughs
<1>2. m \in models /\ m.kind = "m2m" /\ m.ref[1] \notin Tables
    BY ProcessedAre
<1>3. o \in NewThrough(m) \/ o \in ThroughChanged(m)
    BY <1>1
<1> QED
    BY <1>2, <1>3

LEMMA ThroughChangedIs ==
  ASSUME NEW m, NEW o \in ThroughChanged(m)
  PROVE  \/ o.op = "drop_fk" /\ o.object \in Misplaced(m) \cup Conflicting(m)
         \/ /\ o.op = "drop_column" /\ o.object \in ColumnsHere(m.ref[1])
            /\ \A s \in Sides(m) : s[1] # o.object.on
         \/ o.op = "add_column" /\ \E s \in Sides(m) : o.object = KeyColumn(m.ref[1], s[1], s[2])
         \/ o.op = "add_fk" /\ \E s \in Sides(m) : o.object = SideKey(m, s)
<1> DEFINE lost == {fk.on : fk \in Misplaced(m)} \ {s[1] : s \in Sides(m)}
           columns == {c \in {KeyColumn(m.ref[1], s[1], s[2]) : s \in Sides(m)} :
                         ~\E d \in ColumnsHere(m.ref[1]) : d.on = c.on /\ SameColumn(d, c)}
<1>1. \/ o \in Operations("drop_fk", Misplaced(m) \cup Conflicting(m))
      \/ o \in Operations("drop_column", {c \in ColumnsHere(m.ref[1]) : c.on \in lost})
      \/ o \in Operations("add_column", columns)
      \/ o \in Operations("add_fk", {SideKey(m, s) : s \in Keyless(m)})
    BY DEF ThroughChanged
<1>2. \A s \in Sides(m) : s[1] \notin lost
    OBVIOUS
<1>3. \A c \in columns : \E s \in Sides(m) : c = KeyColumn(m.ref[1], s[1], s[2])
    OBVIOUS
<1>4. Keyless(m) \subseteq Sides(m)
    BY DEF Keyless
<1> HIDE DEF lost, columns
<1>5. CASE o \in Operations("drop_fk", Misplaced(m) \cup Conflicting(m))
    BY <1>5, OperationsAre
<1>6. CASE o \in Operations("drop_column", {c \in ColumnsHere(m.ref[1]) : c.on \in lost})
  <2>1. o.op = "drop_column" /\ o.object \in {c \in ColumnsHere(m.ref[1]) : c.on \in lost}
      BY <1>6, OperationsAre, Zenon
  <2> QED
      BY <2>1, <1>2
<1>7. CASE o \in Operations("add_column", columns)
    BY <1>7, <1>3, OperationsAre
<1>8. CASE o \in Operations("add_fk", {SideKey(m, s) : s \in Keyless(m)})
  <2>1. o.op = "add_fk" /\ o.object \in {SideKey(m, s) : s \in Keyless(m)}
      BY <1>8, OperationsAre, Zenon
  <2> QED
      BY <2>1, <1>4
<1> QED
    BY <1>1, <1>5, <1>6, <1>7, <1>8

\* A key that goes is one the through table has.
LEMMA ThroughKeysGone ==
  ASSUME NEW m, NEW x \in Misplaced(m) \cup Conflicting(m)
  PROVE  /\ x \in KeysHere(m.ref[1])
         /\ \/ \E s \in Sides(m) :
                 /\ x.ref[1] = s[2]
                 /\ x.on # IF x.ref[1] = m.table THEN Left(m)[1] ELSE Right(m)[1]
            \/ \E s \in Sides(m) : x.ref[1] = s[2] /\ x.on # s[1]
<1>1. CASE x \in Misplaced(m)
  <2>1. PICK s \in Sides(m) : x \in KeysOf(m, s)
      BY <1>1 DEF Misplaced
  <2>2. x.on # IF x.ref[1] = m.table THEN Left(m)[1] ELSE Right(m)[1]
      BY <1>1 DEF Misplaced
  <2>3. x \in KeysHere(m.ref[1]) /\ x.ref[1] = s[2]
      BY <2>1 DEF KeysOf
  <2> QED
      BY <2>2, <2>3
<1>2. CASE x \in Conflicting(m)
  <2>1. PICK s \in Sides(m) : /\ s \in Keyless(m) /\ KeysOf(m, s) # {}
                              /\ x = CHOOSE fk \in KeysOf(m, s) : TRUE
      BY <1>2 DEF Conflicting, Keyless
  <2>2. x \in KeysOf(m, s)
      BY <2>1
  <2>3. x \in KeysHere(m.ref[1]) /\ x.ref[1] = s[2] /\ x.on # s[1]
      BY <2>1, <2>2 DEF KeysOf, Keyless
  <2> QED
      BY <2>3
<1> QED
    BY <1>1, <1>2

LEMMA SidesAre ==
  ASSUME NEW m, NEW s
  PROVE  s \in Sides(m) <=> s = Left(m) \/ s = Right(m)
BY DEF Sides

LEMMA SideFields ==
  ASSUME NEW m
  PROVE  Left(m)[1] = m.on /\ Left(m)[2] = m.table /\ Right(m)[2] = m.ref[2]
BY DEF Left, Right

\* What a relation asks for fits.
LEMMA ThroughFits ==
  ASSUME SoundModels(models), SoundDatabase(db), NEW o \in Throughs
  PROVE  Fit(o)
<1>1. PICK m \in models : m.kind = "m2m" /\ (o \in NewThrough(m) \/ o \in ThroughChanged(m))
    BY ThroughsAre
<1>2. Left(m)[1] # Right(m)[1] /\ Left(m)[1] # "" /\ Right(m)[1] # ""
    BY <1>1, RelationFacts
<1>3. \A s \in Sides(m) : s[1] # ""
    BY <1>2, SidesAre
<1>4. ASSUME NEW s \in Sides(m), NEW r \in Sides(m), s[1] = r[1]
      PROVE  s = r
  <2>1. PICK left, right : left = Left(m) /\ right = Right(m)
      OBVIOUS
  <2>2. (s = left \/ s = right) /\ (r = left \/ r = right)
      BY <2>1, SidesAre
  <2>3. left[1] # right[1]
      BY <1>2, <2>1
  <2> QED
      BY <1>4, <2>2, <2>3
<1>5. CASE o.op = "create_table"
  <2>1. /\ o.object = TableObject(m.ref[1])
        /\ o.with = {KeyColumn(m.ref[1], s[1], s[2]) : s \in Sides(m)}
    <3>1. o \notin ThroughChanged(m)
        BY <1>5, ThroughChangedIs
    <3>2. o \notin {Operation("add_fk", SideKey(m, s)) : s \in Sides(m)}
        BY <1>5 DEF Operation
    <3> QED
        BY <1>1, <3>1, <3>2 DEF NewThrough
  <2>2. /\ o.object.kind = "table" /\ o.object.table = m.ref[1]
        /\ o.object = Object(o.object.kind, o.object.table, o.object.name, o.object.on,
                             o.object.ref, o.object.def)
    <3>1. PICK x : x = o.object
        OBVIOUS
    <3>2. x = Object("table", m.ref[1], <<m.ref[1]>>, "", <<>>, <<>>)
        BY <2>1, <3>1 DEF TableObject
    <3>3. /\ x.kind = "table" /\ x.table = m.ref[1]
          /\ x = Object(x.kind, x.table, x.name, x.on, x.ref, x.def)
        BY <3>2 DEF Object
    <3> QED
        BY <3>1, <3>3
  <2>3. ASSUME NEW w \in o.with
        PROVE  /\ w = Object(w.kind, w.table, w.name, w.on, w.ref, w.def)
               /\ w.table = m.ref[1] /\ w.kind = "column"
               /\ w.on # "" /\ w.name = <<w.on>>
               /\ \A c \in o.with : c.on = w.on => c = w
    <3>1. PICK s \in Sides(m) : w = KeyColumn(m.ref[1], s[1], s[2])
        BY <2>1
    <3>2. /\ w = Object(w.kind, w.table, w.name, w.on, w.ref, w.def)
          /\ w.table = m.ref[1] /\ w.kind = "column" /\ w.name = <<s[1]>> /\ w.on = s[1]
        BY <3>1, KeyColumnFields
    <3>3. ASSUME NEW c \in o.with, c.on = w.on
          PROVE  c = w
      <4>1. PICK r \in Sides(m) : c = KeyColumn(m.ref[1], r[1], r[2])
          BY <2>1
      <4>2. c.on = r[1]
          BY <4>1, KeyColumnFields
      <4>3. r = s
          BY <1>4, <3>2, <3>3, <4>2
      <4> QED
          BY <3>1, <4>1, <4>3
    <3> QED
        BY <1>3, <3>2, <3>3
  <2>4. \A w \in o.with : /\ w = Object(w.kind, w.table, w.name, w.on, w.ref, w.def)
                          /\ w.table = m.ref[1] /\ w.kind = "column"
                          /\ w.on # "" /\ w.name = <<w.on>>
                          /\ \A c \in o.with : c.on = w.on => c = w
      BY <2>3
  <2> QED
      BY <1>5, <2>1, <2>2, <2>4 DEF Fit
<1>6. CASE o.op = "add_column" /\ \E s \in Sides(m) : o.object = KeyColumn(m.ref[1], s[1], s[2])
  <2>0. PICK s \in Sides(m) : o.object = KeyColumn(m.ref[1], s[1], s[2])
      BY <1>6
  <2>1. PICK x : x = o.object /\ x = KeyColumn(m.ref[1], s[1], s[2])
      BY <2>0
  <2>2. /\ x.kind = "column" /\ x.name = <<s[1]>> /\ x.on = s[1]
        /\ x = Object(x.kind, x.table, x.name, x.on, x.ref, x.def)
      BY <2>1, KeyColumnFields
  <2> QED
      BY <1>3, <1>6, <2>1, <2>2 DEF Fit
<1>7. CASE o.op = "add_fk" /\ \E s \in Sides(m) : o.object = SideKey(m, s)
  <2>0. PICK s \in Sides(m) : o.object = SideKey(m, s)
      BY <1>7
  <2>1. PICK x : x = o.object /\ x = SideKey(m, s)
      BY <2>0
  <2>2. /\ x.kind = "fk" /\ x.ref = <<x.ref[1], x.ref[2]>>
        /\ x = Object(x.kind, x.table, x.name, x.on, x.ref, x.def)
      BY <2>1, SideKeyFields
  <2> QED
      BY <1>7, <2>1, <2>2 DEF Fit
<1>8. CASE o.op \in {"drop_fk", "drop_column"} /\ o \in ThroughChanged(m)
  <2>1. /\ o.object \in db
        /\ o.op = "drop_column" => o.object.kind = "column"
        /\ o.op = "drop_fk" => o.object.kind = "fk"
    <3>1. \/ o.op = "drop_fk" /\ o.object \in Misplaced(m) \cup Conflicting(m)
          \/ o.op = "drop_column" /\ o.object \in ColumnsHere(m.ref[1])
        BY <1>8, ThroughChangedIs
    <3>2. o.op = "drop_fk" => o.object \in KeysHere(m.ref[1])
        BY <3>1, ThroughKeysGone, Zenon
    <3> QED
        BY <1>8, <3>1, <3>2 DEF ColumnsHere, KeysHere, Of
  <2>2. PICK x \in db : x = o.object
      BY <2>1
  <2>3. /\ x = Object(x.kind, x.table, x.name, x.on, x.ref, x.def)
        /\ x.kind = "fk" => x.ref = <<x.ref[1], x.ref[2]>>
        /\ x.kind = "column" => x.on # "" /\ x.name = <<x.on>>
      BY DatabaseFacts, Zenon
  <2> QED
      BY <1>8, <2>1, <2>2, <2>3 DEF Fit
<1>9. CASE o \in NewThrough(m)
  <2>1. \/ o.op = "create_table"
        \/ o \in {Operation("add_fk", SideKey(m, s)) : s \in Sides(m)}
      BY <1>9 DEF NewThrough
  <2>2. o.op = "create_table" \/ (o.op = "add_fk" /\ \E s \in Sides(m) : o.object = SideKey(m, s))
      BY <2>1 DEF Operation
  <2> QED
      BY <1>5, <1>7, <2>2
<1>10. CASE o \in ThroughChanged(m)
    BY <1>6, <1>7, <1>8, <1>10, ThroughChangedIs
<1> QED
    BY <1>1, <1>9, <1>10

\* What a relation takes from its through table is not as the models want it, but when
\* both its sides are one model.
LEMMA ThroughSpares ==
  ASSUME SoundModels(models), db = before, NEW o \in Throughs
  PROVE  Spares(o)
<1> DEFINE x == o.object
<1>1. PICK m \in models : /\ m.kind = "m2m" /\ m.ref[1] \notin Tables
                          /\ o \in NewThrough(m) \/ o \in ThroughChanged(m)
    BY ThroughsAre
<1>2. CASE o \in NewThrough(m)
  <2>1. o.op \in {"create_table", "add_fk"}
      BY <1>2 DEF NewThrough, Operation
  <2> QED
      BY <2>1 DEF Spares
<1>3. CASE o \in ThroughChanged(m)
  <2>1. SUFFICES ASSUME NEW b \in before, IsAsWanted(b), b.table = m.ref[1]
                 PROVE  /\ o.op = "drop_fk" => b # x \/ OfItself(b.table)
                        /\ o.op = "drop_column" => b.on # x.on
    <3>1. \/ o.op = "drop_fk" /\ x \in KeysHere(m.ref[1])
          \/ o.op = "drop_column" /\ x \in ColumnsHere(m.ref[1])
          \/ o.op \in {"add_column", "add_fk"}
      <4>1. \/ o.op = "drop_fk" /\ x \in Misplaced(m) \cup Conflicting(m)
            \/ o.op = "drop_column" /\ x \in ColumnsHere(m.ref[1])
            \/ o.op \in {"add_column", "add_fk"}
          BY <1>3, ThroughChangedIs
      <4>2. o.op = "drop_fk" => x \in KeysHere(m.ref[1])
          BY <4>1, ThroughKeysGone, Zenon
      <4> QED
          BY <4>1, <4>2
    <3>2. o.op \in {"drop_fk", "drop_column"} => x.table = m.ref[1]
        BY <3>1 DEF KeysHere, ColumnsHere, Of
    <3> QED
        BY <3>1, <3>2 DEF Spares
  <2>2. PICK w \in Wanted :
          /\ w.table = b.table /\ w.on = b.on
          /\ b.kind # "column" => w = b
      BY <2>1 DEF IsAsWanted
  <2>3. PICK n \in models :
          /\ n.kind = "m2m" /\ n.ref[1] = m.ref[1]
          /\ \E s \in Sides(n) : w = KeyColumn(n.ref[1], s[1], s[2]) \/ w = SideKey(n, s)
    <3>1. w.table \notin Tables
        BY <1>1, <2>1, <2>2
    <3>2. \E n \in models : /\ n.kind = "m2m" /\ n.ref[1] = w.table
                            /\ \E s \in Sides(n) : \/ w = KeyColumn(n.ref[1], s[1], s[2])
                                                   \/ w = SideKey(n, s)
        BY <3>1, WantedIs
    <3>3. w.table = m.ref[1]
        BY <2>1, <2>2
    <3> QED
        BY <3>2, <3>3, Zenon
  <2>4. PICK s \in Sides(m) : w = KeyColumn(n.ref[1], s[1], s[2]) \/ w = SideKey(n, s)
      BY <1>1, <2>3, RelationFacts
  <2>5. w.on = s[1] /\ (w.kind = "fk" => w.ref[1] = s[2])
    <3>1. CASE w = KeyColumn(n.ref[1], s[1], s[2])
        BY <3>1, KeyColumnFields
    <3>2. CASE w = SideKey(n, s)
        BY <3>2, SideKeyFields
    <3> QED
        BY <2>4, <3>1, <3>2
  <2>6. CASE o.op = "drop_column"
    <3>1. \A r \in Sides(m) : r[1] # x.on
        BY <1>3, <2>6, ThroughChangedIs
    <3> QED
        BY <2>2, <2>4, <2>5, <2>6, <3>1
  <2>7. CASE o.op = "drop_fk"
    <3>1. SUFFICES ASSUME b = x, ~OfItself(b.table)
                   PROVE  FALSE
        BY <2>7
    <3>2. x \in Misplaced(m) \cup Conflicting(m)
        BY <1>3, <2>7, ThroughChangedIs
    <3>3. x.kind = "fk"
        BY <3>2, ThroughKeysGone DEF KeysHere, Of
    <3>4. w = x
        BY <2>2, <3>1, <3>3
    <3>5. x.on = s[1] /\ x.ref[1] = s[2]
        BY <2>5, <3>3, <3>4
    <3>6. m.ref[2] # m.table
        BY <1>1, <2>1, <3>1 DEF OfItself
    <3>7. ASSUME NEW r \in Sides(m), r[2] = s[2]
          PROVE  r = s
      <4>1. PICK left, right : left = Left(m) /\ right = Right(m)
          OBVIOUS
      <4>2. (s = left \/ s = right) /\ (r = left \/ r = right)
          BY <2>4, <4>1, SidesAre
      <4>3. left[2] # right[2]
          BY <3>6, <4>1, SideFields
      <4> QED
          BY <3>7, <4>2, <4>3
    <3>8. CASE \E r \in Sides(m) : x.ref[1] = r[2] /\ x.on # r[1]
        BY <3>5, <3>7, <3>8
    <3>9. CASE x.on # IF x.ref[1] = m.table THEN Left(m)[1] ELSE Right(m)[1]
      <4>1. s = Left(m) \/ s = Right(m)
          BY <2>4, SidesAre
      <4> QED
          BY <3>5, <3>6, <3>9, <4>1, SideFields
    <3> QED
        BY <3>2, <3>8, <3>9, ThroughKeysGone
  <2> QED
      BY <2>6, <2>7
<1> QED
    BY <1>1, <1>2, <1>3

-----------------------------------------------------------------------------
(* A statement the database accepts leaves it sound.                       *)

LEMMA SoundIfFacts ==
  ASSUME NEW e,
         \A d \in e : /\ d = Object(d.kind, d.table, d.name, d.on, d.ref, d.def)
                      /\ TableObject(d.table) \in e
                      /\ d.kind = "table" => d = TableObject(d.table)
                      /\ d.kind = "fk" => d.ref = <<d.ref[1], d.ref[2]>>
                      /\ d.kind = "column" => d.on # "" /\ d.name = <<d.on>>
                      /\ d.kind # "m2m"
                      /\ d.kind = "fk" => Keyed(d.ref[1], d.ref[2], e),
         \A d \in e : d.kind # "table" =>
           \E c \in e : c.kind = "column" /\ c.table = d.table /\ c.on = d.on,
         \A d, c \in e : /\ d.kind = "column" /\ c.kind = "column"
                         /\ c.table = d.table /\ c.on = d.on
                         => c = d
  PROVE  SoundDatabase(e)
<1>1. ASSUME NEW d \in e
      PROVE  /\ d = Object(d.kind, d.table, d.name, d.on, d.ref, d.def)
             /\ TableObject(d.table) \in e
             /\ d.kind = "table" => d = TableObject(d.table)
             /\ d.kind \notin {"table", "m2m"} => \E c \in Of(e, "column", d.table) : c.on = d.on
             /\ d.kind = "fk" => d.ref = <<d.ref[1], d.ref[2]>>
             /\ d.kind = "column" =>
                  /\ d.on # "" /\ d.name = <<d.on>>
                  /\ \A c \in Of(e, "column", d.table) : c.on = d.on => c = d
  <2>1. \A c : c \in Of(e, "column", d.table) <=> c \in e /\ c.kind = "column" /\ c.table = d.table
      BY DEF Of
  <2>2. d.kind \notin {"table", "m2m"} => \E c \in Of(e, "column", d.table) : c.on = d.on
      BY <2>1
  <2>3. d.kind = "column" => \A c \in Of(e, "column", d.table) : c.on = d.on => c = d
      BY <2>1
  <2> QED
      BY <2>2, <2>3
<1> QED
    BY <1>1 DEF SoundDatabase, Sound

LEMMA CreatedTableSound ==
  ASSUME SoundDatabase(db), NEW o, Fit(o), o.op = "create_table", Accepts(o.op, o.object)
  PROVE  SoundDatabase(Effect(o.op, o.object, o.with))
<1> DEFINE x == o.object
           held(w) == IF w.kind = "column" THEN Stored(w, 1) ELSE w
<1>1. PICK e : e = Effect(o.op, x, o.with)
    OBVIOUS
<1>2. e = db \cup {x} \cup {held(w) : w \in o.with}
    BY <1>1 DEF Effect
<1>3. x \notin db
    BY DEF Accepts
<1>4. /\ x = TableObject(x.table)
      /\ \A w \in o.with :
           /\ w = Object(w.kind, w.table, w.name, w.on, w.ref, w.def)
           /\ w.table = x.table /\ w.kind \in {"column", "pk"}
           /\ \E c \in o.with : c.kind = "column" /\ c.on = w.on
           /\ w.kind = "column" =>
                /\ w.on # "" /\ w.name = <<w.on>>
                /\ \A c \in o.with : c.kind = "column" /\ c.on = w.on => c = w
    BY DEF Fit
<1>5. ASSUME NEW w \in o.with
      PROVE  /\ held(w).kind = w.kind /\ held(w).table = x.table
             /\ held(w).on = w.on /\ held(w).name = w.name
             /\ held(w) = Object(held(w).kind, held(w).table, held(w).name, held(w).on,
                                 held(w).ref, held(w).def)
  <2>1. PICK h : h = held(w)
      OBVIOUS
  <2>2. h = w \/ h = Stored(w, 1)
      BY <2>1
  <2>3. w = Object(w.kind, w.table, w.name, w.on, w.ref, w.def) /\ w.table = x.table
      BY <1>4
  <2>4. /\ h.kind = w.kind /\ h.table = w.table /\ h.on = w.on /\ h.name = w.name
        /\ h = Object(h.kind, h.table, h.name, h.on, h.ref, h.def)
      BY <2>2, <2>3, StoredFields
  <2> QED
      BY <2>1, <2>3, <2>4
<1> HIDE DEF held
<1>6. \A d \in db : d.table # x.table
  <2>1. \A d \in db : TableObject(d.table) \in db
      BY DatabaseFacts, Zenon
  <2>2. x = TableObject(x.table)
      BY <1>4
  <2> QED
      BY <1>3, <2>1, <2>2, Zenon
<1>7. x.kind = "table" /\ x = Object(x.kind, x.table, x.name, x.on, x.ref, x.def)
  <2>1. PICK y : y = x
      OBVIOUS
  <2>2. y.kind = "table"
    <3>1. PICK t : y = TableObject(t)
        BY <1>4, <2>1
    <3> QED
        BY <3>1, TableFields
  <2>3. x = Object(x.kind, x.table, x.name, x.on, x.ref, x.def)
      BY DEF Fit
  <2> QED
      BY <2>1, <2>2, <2>3
<1>8. /\ \A d \in db : d = Object(d.kind, d.table, d.name, d.on, d.ref, d.def)
      /\ \A d \in db : TableObject(d.table) \in db
      /\ \A d \in db : d.kind = "table" => d = TableObject(d.table)
      /\ \A d \in db : d.kind = "fk" => d.ref = <<d.ref[1], d.ref[2]>>
      /\ \A d \in db : d.kind = "column" => d.on # "" /\ d.name = <<d.on>>
    BY DatabaseFacts, Zenon
<1>9. /\ \A d, c \in db :
           d.kind = "column" /\ c.kind = "column" /\ c.table = d.table /\ c.on = d.on => c = d
      /\ \A d \in db : d.kind # "table" =>
           \E c \in db : c.kind = "column" /\ c.table = d.table /\ c.on = d.on
      /\ \A d \in db : d.kind # "m2m"
      /\ \A d \in db : d.kind = "fk" => Keyed(d.ref[1], d.ref[2], db)
    BY DatabaseFacts, Zenon
<1>10. ASSUME NEW d \in e
       PROVE  d \in db \/ d = x \/ \E w \in o.with : d = held(w)
    BY <1>2
<1>11. ASSUME NEW d \in e
       PROVE  /\ d = Object(d.kind, d.table, d.name, d.on, d.ref, d.def)
              /\ TableObject(d.table) \in e
              /\ d.kind = "table" => d = TableObject(d.table)
              /\ d.kind = "fk" => d.ref = <<d.ref[1], d.ref[2]>>
              /\ d.kind = "column" => d.on # "" /\ d.name = <<d.on>>
              /\ d.kind # "m2m"
              /\ d.kind = "fk" => Keyed(d.ref[1], d.ref[2], e)
  <2>1. CASE d \in db
    <3>1. d.kind = "fk" => Keyed(d.ref[1], d.ref[2], e)
        BY <1>2, <1>9, <2>1 DEF Keyed
    <3> QED
        BY <1>2, <1>8, <1>9, <2>1, <3>1
  <2>2. CASE d = x
      BY <1>2, <1>4, <1>7, <2>2
  <2>3. CASE \E w \in o.with : d = held(w)
    <3>1. PICK w \in o.with : d = held(w)
        BY <2>3
    <3>2. d.kind = w.kind /\ d.table = x.table /\ d.on = w.on /\ d.name = w.name
          /\ d = Object(d.kind, d.table, d.name, d.on, d.ref, d.def)
        BY <1>5, <3>1
    <3>3. TableObject(d.table) \in e
        BY <1>2, <1>4, <3>2
    <3>4. w.kind \in {"column", "pk"} /\ (w.kind = "column" => w.on # "" /\ w.name = <<w.on>>)
        BY <1>4
    <3> QED
        BY <3>2, <3>3, <3>4
  <2> QED
      BY <1>10, <2>1, <2>2, <2>3
<1>12. ASSUME NEW d \in e, d.kind # "table"
       PROVE  \E c \in e : c.kind = "column" /\ c.table = d.table /\ c.on = d.on
  <2>1. CASE d \in db
      BY <1>2, <1>9, <1>12, <2>1
  <2>2. CASE \E w \in o.with : d = held(w)
    <3>1. PICK w \in o.with : d = held(w)
        BY <2>2
    <3>2. PICK c \in o.with : c.kind = "column" /\ c.on = w.on
        BY <1>4
    <3>3. held(c) \in e /\ held(c).kind = "column" /\ held(c).table = x.table /\ held(c).on = w.on
        BY <1>2, <1>5, <3>2
    <3>4. d.table = x.table /\ d.on = w.on
        BY <1>5, <3>1
    <3> QED
        BY <3>3, <3>4
  <2> QED
      BY <1>7, <1>10, <1>12, <2>1, <2>2
<1>13. ASSUME NEW d \in e, NEW c \in e, d.kind = "column", c.kind = "column",
              c.table = d.table, c.on = d.on
       PROVE  c = d
  <2>1. CASE d.table = x.table
    <3>1. PICK w \in o.with : d = held(w)
        BY <1>6, <1>7, <1>10, <1>13, <2>1
    <3>2. PICK v \in o.with : c = held(v)
        BY <1>6, <1>7, <1>10, <1>13, <2>1
    <3>3. /\ w.kind = "column" /\ v.kind = "column" /\ w.on = v.on
        BY <1>5, <1>13, <3>1, <3>2
    <3>4. v = w
        BY <1>4, <3>3
    <3> QED
        BY <3>1, <3>2, <3>4
  <2>2. CASE d.table # x.table
    <3>1. \A w \in o.with : held(w).table = x.table
        BY <1>5
    <3>2. d \in db /\ c \in db
        BY <1>10, <1>13, <2>2, <3>1
    <3> QED
        BY <1>9, <1>13, <3>2
  <2> QED
      BY <2>1, <2>2
<1>14. SoundDatabase(e)
    BY <1>11, <1>12, <1>13, SoundIfFacts
<1> QED
    BY <1>1, <1>14

\* A column that is not there yet is added to a table that is.
LEMMA AddedColumnSound ==
  ASSUME SoundDatabase(db), NEW o, Fit(o), o.op = "add_column", Accepts(o.op, o.object)
  PROVE  SoundDatabase(Effect(o.op, o.object, o.with))
<1> DEFINE x == o.object
<1>1. PICK s : s = Stored(x, 1)
    OBVIOUS
<1>2. PICK e : e = db \cup {s}
    OBVIOUS
<1>3. Effect(o.op, x, o.with) = e
    BY <1>1, <1>2 DEF Effect
<1>4. /\ x.kind = "column" /\ x.on # "" /\ x.name = <<x.on>>
      /\ x = Object(x.kind, x.table, x.name, x.on, x.ref, x.def)
    BY DEF Fit
<1>5. /\ s.kind = "column" /\ s.on # "" /\ s.name = <<s.on>> /\ s.table = x.table /\ s.on = x.on
      /\ s = Object(s.kind, s.table, s.name, s.on, s.ref, s.def)
  <2>1. PICK y : y = x
      OBVIOUS
  <2>2. y = Object(y.kind, y.table, y.name, y.on, y.ref, y.def) /\ s = Stored(y, 1)
      BY <1>1, <1>4, <2>1
  <2>3. /\ s.kind = y.kind /\ s.table = y.table /\ s.name = y.name /\ s.on = y.on
        /\ s = Object(s.kind, s.table, s.name, s.on, s.ref, s.def)
      BY <2>2, StoredFields
  <2> QED
      BY <1>4, <2>1, <2>3
<1>6. TableObject(s.table) \in db /\ \A c \in db : c.kind = "column" /\ c.table = s.table => c.on # s.on
    BY <1>5 DEF Accepts, HasColumn, Of
<1>7. /\ \A d \in db : d = Object(d.kind, d.table, d.name, d.on, d.ref, d.def)
      /\ \A d \in db : TableObject(d.table) \in db
      /\ \A d \in db : d.kind = "table" => d = TableObject(d.table)
      /\ \A d \in db : d.kind = "fk" => d.ref = <<d.ref[1], d.ref[2]>>
      /\ \A d \in db : d.kind = "column" => d.on # "" /\ d.name = <<d.on>>
    BY DatabaseFacts, Zenon
<1>8. /\ \A d, c \in db :
           d.kind = "column" /\ c.kind = "column" /\ c.table = d.table /\ c.on = d.on => c = d
      /\ \A d \in db : d.kind # "table" =>
           \E c \in db : c.kind = "column" /\ c.table = d.table /\ c.on = d.on
      /\ \A d \in db : d.kind # "m2m"
      /\ \A d \in db : d.kind = "fk" => Keyed(d.ref[1], d.ref[2], db)
    BY DatabaseFacts, Zenon
<1>9. ASSUME NEW d \in e
      PROVE  /\ d = Object(d.kind, d.table, d.name, d.on, d.ref, d.def)
             /\ TableObject(d.table) \in e
             /\ d.kind = "table" => d = TableObject(d.table)
             /\ d.kind = "fk" => d.ref = <<d.ref[1], d.ref[2]>>
             /\ d.kind = "column" => d.on # "" /\ d.name = <<d.on>>
             /\ d.kind # "m2m"
             /\ d.kind = "fk" => Keyed(d.ref[1], d.ref[2], e)
  <2>1. CASE d \in db
    <3>1. d.kind = "fk" => Keyed(d.ref[1], d.ref[2], e)
        BY <1>2, <1>8, <2>1 DEF Keyed
    <3> QED
        BY <1>2, <1>7, <1>8, <2>1, <3>1
  <2>2. CASE d = s
      BY <1>2, <1>5, <1>6, <2>2
  <2> QED
      BY <1>2, <2>1, <2>2
<1>10. ASSUME NEW d \in e, d.kind # "table"
       PROVE  \E c \in e : c.kind = "column" /\ c.table = d.table /\ c.on = d.on
    BY <1>2, <1>5, <1>8, <1>10
<1>11. ASSUME NEW d \in e, NEW c \in e, d.kind = "column", c.kind = "column",
              c.table = d.table, c.on = d.on
       PROVE  c = d
    BY <1>2, <1>6, <1>8, <1>11
<1>12. SoundDatabase(e)
    BY <1>9, <1>10, <1>11, SoundIfFacts
<1> QED
    BY <1>3, <1>12

\* A modified column stays on its name.
LEMMA ModifiedColumnSound ==
  ASSUME SoundDatabase(db), NEW o, Fit(o), o.op = "modify_column"
  PROVE  SoundDatabase(Effect(o.op, o.object, o.with))
<1> DEFINE x == o.object
           same(d) == d.kind = "column" /\ d.table = x.table /\ d.name = x.name
           held(d) == IF same(d) THEN Stored(x, Nullable(d)) ELSE d
<1>1. PICK e : e = {held(d) : d \in db}
    OBVIOUS
<1>2. Effect(o.op, x, o.with) = e
    BY <1>1 DEF Effect
<1>3. /\ x.kind = "column" /\ x.on # "" /\ x.name = <<x.on>>
      /\ x = Object(x.kind, x.table, x.name, x.on, x.ref, x.def)
    BY DEF Fit
<1>4. /\ \A d \in db : d = Object(d.kind, d.table, d.name, d.on, d.ref, d.def)
      /\ \A d \in db : TableObject(d.table) \in db
      /\ \A d \in db : d.kind = "table" => d = TableObject(d.table)
      /\ \A d \in db : d.kind = "fk" => d.ref = <<d.ref[1], d.ref[2]>>
      /\ \A d \in db : d.kind = "column" => d.on # "" /\ d.name = <<d.on>>
    BY DatabaseFacts, Zenon
<1>5. /\ \A d, c \in db :
           d.kind = "column" /\ c.kind = "column" /\ c.table = d.table /\ c.on = d.on => c = d
      /\ \A d \in db : d.kind # "table" =>
           \E c \in db : c.kind = "column" /\ c.table = d.table /\ c.on = d.on
      /\ \A d \in db : d.kind # "m2m"
      /\ \A d \in db : d.kind = "fk" => Keyed(d.ref[1], d.ref[2], db)
    BY DatabaseFacts, Zenon
<1>6. ASSUME NEW d \in db
      PROVE  /\ held(d).kind = d.kind /\ held(d).table = d.table /\ held(d).on = d.on
             /\ held(d).name = d.name
             /\ held(d) = Object(held(d).kind, held(d).table, held(d).name, held(d).on,
                                 held(d).ref, held(d).def)
             /\ d.kind # "column" => held(d) = d
  <2>1. CASE same(d)
    <3>1. PICK y, n : y = x /\ n = Nullable(d)
        OBVIOUS
    <3>2. PICK s : s = Stored(y, n)
        OBVIOUS
    <3>3. s = held(d)
        BY <2>1, <3>1, <3>2
    <3>4. y = Object(y.kind, y.table, y.name, y.on, y.ref, y.def)
        BY <1>3, <3>1
    <3>5. /\ s.kind = y.kind /\ s.table = y.table /\ s.name = y.name /\ s.on = y.on
          /\ s = Object(s.kind, s.table, s.name, s.on, s.ref, s.def)
        BY <3>2, <3>4, StoredFields
    <3>6. x.name = <<x.on>> /\ d.name = <<d.on>> /\ d.name = x.name
        BY <1>3, <1>4, <2>1
    <3>7. x.on = d.on
        BY <3>6
    <3> QED
        BY <1>3, <2>1, <3>1, <3>3, <3>5, <3>7
  <2>2. CASE ~same(d)
      BY <1>4, <2>2
  <2> QED
      BY <2>1, <2>2
<1>7. \A d \in db : held(d) \in e
    BY <1>1
<1>8. \A d \in e : \E c \in db : d = held(c)
    BY <1>1
<1> HIDE DEF held
<1>9. \A d \in db : TableObject(d.table) \in e
  <2>1. SUFFICES ASSUME NEW d \in db PROVE TableObject(d.table) \in e
      OBVIOUS
  <2>2. PICK t \in db : t = TableObject(d.table)
      BY <1>4
  <2>3. t.kind = "table"
      BY <2>2, TableFields
  <2>4. held(t) = t
      BY <1>6, <2>3
  <2> QED
      BY <1>7, <2>2, <2>4
<1>10. \A a, b : Keyed(a, b, db) => Keyed(a, b, e)
  <2>1. SUFFICES ASSUME NEW a, NEW b, NEW k \in db, k.kind \in {"pk", "unique"}, k.table = a, k.on = b
                 PROVE  Keyed(a, b, e)
      BY DEF Keyed
  <2>2. k \in e
      BY <1>6, <1>7, <2>1
  <2> QED
      BY <2>1, <2>2 DEF Keyed
<1>11. ASSUME NEW d \in e
       PROVE  /\ d = Object(d.kind, d.table, d.name, d.on, d.ref, d.def)
              /\ TableObject(d.table) \in e
              /\ d.kind = "table" => d = TableObject(d.table)
              /\ d.kind = "fk" => d.ref = <<d.ref[1], d.ref[2]>>
              /\ d.kind = "column" => d.on # "" /\ d.name = <<d.on>>
              /\ d.kind # "m2m"
              /\ d.kind = "fk" => Keyed(d.ref[1], d.ref[2], e)
  <2>1. PICK c \in db : d = held(c)
      BY <1>8
  <2>2. /\ d.kind = c.kind /\ d.table = c.table /\ d.on = c.on /\ d.name = c.name
        /\ d = Object(d.kind, d.table, d.name, d.on, d.ref, d.def)
        /\ c.kind # "column" => d = c
      BY <1>6, <2>1
  <2> QED
      BY <1>4, <1>5, <1>9, <1>10, <2>2
<1>12. ASSUME NEW d \in e, d.kind # "table"
       PROVE  \E c \in e : c.kind = "column" /\ c.table = d.table /\ c.on = d.on
  <2>1. PICK b \in db : d = held(b)
      BY <1>8
  <2>2. PICK c \in db : c.kind = "column" /\ c.table = b.table /\ c.on = b.on
      BY <1>5, <1>6, <1>12, <2>1
  <2>3. /\ held(c) \in e /\ held(c).kind = "column"
        /\ held(c).table = d.table /\ held(c).on = d.on
      BY <1>6, <1>7, <2>1, <2>2
  <2> QED
      BY <2>3
<1>13. ASSUME NEW d \in e, NEW c \in e, d.kind = "column", c.kind = "column",
              c.table = d.table, c.on = d.on
       PROVE  c = d
  <2>1. PICK a \in db, b \in db : d = held(a) /\ c = held(b)
      BY <1>8
  <2>2. a = b
      BY <1>5, <1>6, <1>13, <2>1
  <2> QED
      BY <2>1, <2>2
<1>14. SoundDatabase(e)
    BY <1>11, <1>12, <1>13, SoundIfFacts
<1> QED
    BY <1>2, <1>14

LEMMA AddedObjectSound ==
  ASSUME SoundDatabase(db), NEW o, Fit(o), Accepts(o.op, o.object),
         o.op \in {"add_pk", "add_fk", "add_unique", "create_index", "add_check"}
  PROVE  SoundDatabase(Effect(o.op, o.object, o.with))
<1>1. PICK x : x = o.object
    OBVIOUS
<1>2. x = Object(x.kind, x.table, x.name, x.on, x.ref, x.def)
    BY <1>1 DEF Fit
<1>3. x.kind \in {"pk", "fk", "unique", "index", "check"}
    BY <1>1 DEF Fit
<1>4. x.kind = "fk" => x.ref = <<x.ref[1], x.ref[2]>> /\ Keyed(x.ref[1], x.ref[2], db)
    BY <1>1 DEF Fit, Accepts
<1>5. HasColumn(x.table, x.on)
    BY <1>1 DEF Accepts
<1>6. PICK c \in db : c.kind = "column" /\ c.table = x.table /\ c.on = x.on
    BY <1>5 DEF HasColumn, Of
<1>7. Effect(o.op, o.object, o.with) = db \cup {x}
    BY <1>1 DEF Effect
<1>8. SoundDatabase(db \cup {x})
    BY <1>2, <1>3, <1>4, <1>6, SoundAfterAddition
<1> QED
    BY <1>7, <1>8

LEMMA DroppedObjectSound ==
  ASSUME SoundDatabase(db), NEW o, Fit(o), Accepts(o.op, o.object),
         o.op \in {"drop_unique", "drop_index", "drop_check", "drop_fk"}
  PROVE  SoundDatabase(Effect(o.op, o.object, o.with))
<1>1. PICK x : x = o.object
    OBVIOUS
<1>2. PICK e : e = db \ {x}
    OBVIOUS
<1>3. Effect(o.op, o.object, o.with) = e
    BY <1>1, <1>2 DEF Effect
<1>4. /\ x.kind \in {"unique", "pk", "index", "check", "fk"}
      /\ x.kind \in {"unique", "pk"} => o.op = "drop_unique"
    BY <1>1 DEF Fit
<1>5. \A d \in e : TableObject(d.table) \in e
  <2>1. SUFFICES ASSUME NEW d \in e PROVE TableObject(d.table) \in e
      OBVIOUS
  <2>2. \A b \in db : TableObject(b.table) \in db
      BY DatabaseFacts, Zenon
  <2>3. PICK t : t = TableObject(d.table)
      OBVIOUS
  <2>4. t.kind = "table"
      BY <2>3, TableFields
  <2> QED
      BY <1>2, <1>4, <2>2, <2>3, <2>4
<1>6. \A d \in e : d.kind # "table" => \E c \in e : c.kind = "column" /\ c.table = d.table /\ c.on = d.on
  <2>1. \A d \in db : d.kind # "table" =>
          \E c \in db : c.kind = "column" /\ c.table = d.table /\ c.on = d.on
      BY DatabaseFacts, Zenon
  <2> QED
      BY <1>2, <1>4, <2>1
<1>7. ASSUME NEW d \in e, d.kind = "fk"
      PROVE  Keyed(d.ref[1], d.ref[2], e)
  <2>1. Keyed(d.ref[1], d.ref[2], db) /\ d.ref = <<d.ref[1], d.ref[2]>>
    <3>1. /\ \A b \in db : b.kind = "fk" => Keyed(b.ref[1], b.ref[2], db)
          /\ \A b \in db : b.kind = "fk" => b.ref = <<b.ref[1], b.ref[2]>>
        BY DatabaseFacts, Zenon
    <3> QED
        BY <1>2, <1>7, <3>1
  <2>2. PICK k \in db : k.kind \in {"pk", "unique"} /\ k.table = d.ref[1] /\ k.on = d.ref[2]
      BY <2>1 DEF Keyed
  <2>3. CASE k # x
      BY <1>2, <2>2, <2>3 DEF Keyed
  <2>4. CASE k = x
    <3>1. x.table = d.ref[1] /\ x.on = d.ref[2] /\ o.op = "drop_unique"
        BY <1>4, <2>2, <2>4
    <3>2. Keyed(x.table, x.on, e) \/ ~\E fk \in e : fk.kind = "fk" /\ fk.ref = <<x.table, x.on>>
        BY <1>1, <1>2, <3>1 DEF Accepts, Unreferenced
    <3>3. d.ref = <<x.table, x.on>>
        BY <2>1, <3>1
    <3> QED
        BY <1>7, <3>1, <3>2, <3>3
  <2> QED
      BY <2>3, <2>4
<1>8. SoundDatabase(e)
    BY <1>2, <1>5, <1>6, <1>7, SoundAfterRemoval
<1> QED
    BY <1>3, <1>8

LEMMA DroppedColumnSound ==
  ASSUME SoundDatabase(db), NEW o, Fit(o), o.op = "drop_column", Accepts(o.op, o.object)
  PROVE  SoundDatabase(Effect(o.op, o.object, o.with))
<1>1. PICK x : x = o.object
    OBVIOUS
<1>2. PICK e : e = db \ On(x.table, x.on)
    OBVIOUS
<1>3. Effect(o.op, o.object, o.with) = e
    BY <1>1, <1>2 DEF Effect
<1>4. x.on # ""
    BY <1>1 DEF Fit
<1>5. \A d : d \in e <=> d \in db /\ ~(d.table = x.table /\ d.on = x.on)
    BY <1>2 DEF On
<1>6. \A d \in e : TableObject(d.table) \in e
  <2>1. SUFFICES ASSUME NEW d \in e PROVE TableObject(d.table) \in e
      OBVIOUS
  <2>2. \A b \in db : TableObject(b.table) \in db
      BY DatabaseFacts, Zenon
  <2>3. PICK t : t = TableObject(d.table)
      OBVIOUS
  <2>4. t.on = ""
      BY <2>3, TableFields
  <2> QED
      BY <1>4, <1>5, <2>2, <2>3, <2>4
<1>7. \A d \in e : d.kind # "table" => \E c \in e : c.kind = "column" /\ c.table = d.table /\ c.on = d.on
  <2>1. \A d \in db : d.kind # "table" =>
          \E c \in db : c.kind = "column" /\ c.table = d.table /\ c.on = d.on
      BY DatabaseFacts, Zenon
  <2> QED
      BY <1>5, <2>1
<1>8. ASSUME NEW d \in e, d.kind = "fk"
      PROVE  Keyed(d.ref[1], d.ref[2], e)
  <2>1. Keyed(d.ref[1], d.ref[2], db) /\ d.ref = <<d.ref[1], d.ref[2]>>
    <3>1. /\ \A b \in db : b.kind = "fk" => Keyed(b.ref[1], b.ref[2], db)
          /\ \A b \in db : b.kind = "fk" => b.ref = <<b.ref[1], b.ref[2]>>
        BY DatabaseFacts, Zenon
    <3> QED
        BY <1>2, <1>8, <3>1
  <2>2. PICK k \in db : k.kind \in {"pk", "unique"} /\ k.table = d.ref[1] /\ k.on = d.ref[2]
      BY <2>1 DEF Keyed
  <2>3. CASE k \in e
      BY <2>2, <2>3 DEF Keyed
  <2>4. CASE k \notin e
    <3>1. x.table = d.ref[1] /\ x.on = d.ref[2]
        BY <1>5, <2>2, <2>4
    <3>2. Keyed(x.table, x.on, e) \/ ~\E fk \in e : fk.kind = "fk" /\ fk.ref = <<x.table, x.on>>
        BY <1>1, <1>2 DEF Accepts, Unreferenced
    <3>3. d.ref = <<x.table, x.on>>
        BY <2>1, <3>1
    <3> QED
        BY <1>8, <3>1, <3>2, <3>3
  <2> QED
      BY <2>3, <2>4
<1>9. SoundDatabase(e)
    BY <1>2, <1>6, <1>7, <1>8, SoundAfterRemoval
<1> QED
    BY <1>3, <1>9

LEMMA EffectSound ==
  ASSUME SoundDatabase(db), NEW o, Fit(o), o.op \in Statements, Accepts(o.op, o.object)
  PROVE  SoundDatabase(Effect(o.op, o.object, o.with))
<1>1. CASE o.op = "create_table"
    BY <1>1, CreatedTableSound
<1>2. CASE o.op = "add_column"
    BY <1>2, AddedColumnSound
<1>3. CASE o.op = "modify_column"
    BY <1>3, ModifiedColumnSound
<1>4. CASE o.op \in {"add_pk", "add_fk", "add_unique", "create_index", "add_check"}
    BY <1>4, AddedObjectSound
<1>5. CASE o.op \in {"drop_unique", "drop_index", "drop_check", "drop_fk"}
    BY <1>5, DroppedObjectSound
<1>6. CASE o.op = "drop_column"
    BY <1>6, DroppedColumnSound
<1> QED
    BY <1>1, <1>2, <1>3, <1>4, <1>5, <1>6 DEF Statements, Adding, Dropping

\* A statement that spares what is wanted leaves it there.
LEMMA EffectSpares ==
  ASSUME NEW o, o.op \in Statements, Spares(o), Fit(o), NEW b \in before, IsAsWanted(b), b \in db
  PROVE  b \in Effect(o.op, o.object, o.with) \/ (b.kind = "fk" /\ OfItself(b.table)) \/ AsUnique(b)
<1>1. CASE o.op \in Adding
    BY <1>1 DEF Adding, Effect
<1>2. CASE o.op \in {"drop_unique", "drop_index", "drop_check", "drop_fk"}
  <2>1. b # o.object \/ (b.kind = "fk" /\ OfItself(b.table)) \/ AsUnique(b)
      BY <1>2 DEF Spares, Fit
  <2>2. Effect(o.op, o.object, o.with) = db \ {o.object}
      BY <1>2 DEF Effect
  <2> QED
      BY <2>1, <2>2
<1>3. CASE o.op = "drop_column"
  <2>1. ~(b.table = o.object.table /\ b.on = o.object.on)
      BY <1>3 DEF Spares
  <2> QED
      BY <1>3, <2>1 DEF Effect, On
<1>4. CASE o.op = "modify_column"
  <2>1. ~(b.kind = "column" /\ b.table = o.object.table /\ b.name = o.object.name)
      BY <1>4 DEF Spares
  <2> QED
      BY <1>4, <2>1 DEF Effect
<1> QED
    BY <1>1, <1>2, <1>3, <1>4 DEF Statements, Dropping

-----------------------------------------------------------------------------
(* The steps of a sync.                                                    *)

\* What is wanted is a matter of the models.
LEMMA WantedStays ==
  ASSUME models' = models
  PROVE  /\ \A b : IsAsWanted(b)' <=> IsAsWanted(b)
         /\ \A t : OfItself(t)' <=> OfItself(t)
<1>1. Tables' = Tables
    BY DEF Tables
<1>2. \A t : Pk(t)' = Pk(t)
    BY DEF Pk
<1>3. \A m, s : SideKey(m, s)' = SideKey(m, s)
    BY <1>2 DEF SideKey, ForeignKey
<1>4. \A t, c, of : KeyColumn(t, c, of)' = KeyColumn(t, c, of)
    BY <1>2 DEF KeyColumn
<1>5. Wanted' = Wanted
    BY <1>1, <1>3, <1>4 DEF Wanted
<1>6. \A b : IsAsWanted(b)' <=> IsAsWanted(b)
    BY <1>5 DEF IsAsWanted
<1>7. \A t : OfItself(t)' <=> OfItself(t)
    BY DEF OfItself
<1> QED
    BY <1>6, <1>7

LEMMA SparesStays ==
  ASSUME models' = models, before' = before, NEW o, Spares(o)
  PROVE  Spares(o)'
<1>1. \A b : IsAsWanted(b)' <=> IsAsWanted(b)
    BY WantedStays
<1>2. \A t : OfItself(t)' <=> OfItself(t)
    BY WantedStays
<1> QED
    BY <1>1, <1>2 DEF Spares, AsUnique

\* What was wanted when the sync began is there, but for the exceptions.
LEMMA KeepsWantedIf ==
  ASSUME models' = models, before' = before,
         \A b \in before : IsAsWanted(b) =>
           b \in db' \/ (b.kind = "fk" /\ OfItself(b.table)) \/ AsUnique(b)
  PROVE  KeepsWanted'
<1>1. \A b : IsAsWanted(b)' <=> IsAsWanted(b)
    BY WantedStays
<1>2. \A t : OfItself(t)' <=> OfItself(t)
    BY WantedStays
<1> QED
    BY <1>1, <1>2 DEF KeepsWanted, AsUnique

LEMMA StartKeeps ==
  ASSUME SyncInv, Start
  PROVE  SyncInv'
<1>1. SoundModels(models)' /\ SoundDatabase(before)' /\ SoundDatabase(db)'
    BY DEF SyncInv, Start
<1>2. db' = before' /\ data' = {} /\ stage' = "comparing"
    BY DEF Start
<1>3. KeepsWanted'
    BY <1>2 DEF KeepsWanted
<1> QED
    BY <1>1, <1>2, <1>3 DEF SyncInv

LEMMA CompareKeeps ==
  ASSUME SyncInv, NEW t \in Tables, Compare(t)
  PROVE  SyncInv'
<1>1. SoundModels(models)' /\ SoundDatabase(before)' /\ SoundDatabase(db)'
    BY DEF SyncInv, Compare
<1>2. db' = before' /\ stage' = "comparing" /\ models' = models /\ before' = before
    BY DEF SyncInv, Compare
<1>3. KeepsWanted'
    BY <1>2 DEF KeepsWanted
<1>4. ASSUME NEW o \in data'
      PROVE  Fit(o) /\ Spares(o)'
  <2>1. CASE o \in data
      BY <1>2, <2>1, SparesStays DEF SyncInv, Compare
  <2>2. CASE o \in Compared(t)
    <3>1. SoundModels(models) /\ SoundDatabase(before) /\ db = before
        BY DEF SyncInv, Compare
    <3>2. Fit(o) /\ Spares(o)
        BY <2>2, <3>1, ComparedFits, ComparedSpares
    <3> QED
        BY <1>2, <3>2, SparesStays
  <2> QED
      BY <2>1, <2>2 DEF Compare
<1> QED
    BY <1>1, <1>2, <1>3, <1>4 DEF SyncInv

LEMMA GenerateKeeps ==
  ASSUME SyncInv, Generate
  PROVE  SyncInv'
<1>1. SoundModels(models)' /\ SoundDatabase(before)' /\ SoundDatabase(db)'
    BY DEF SyncInv, Generate
<1>2. models' = models /\ before' = before /\ db' = db /\ db = before
    BY DEF SyncInv, Generate
<1>3. KeepsWanted'
    BY <1>2, KeepsWantedIf
<1>4. ASSUME NEW o \in todo'
      PROVE  o.op \in Statements /\ Fit(o) /\ Spares(o)'
  <2>1. PICK found : found = data'
      OBVIOUS
  <2>2. todo' = Generated(found) /\ found = WithoutChurn(data \cup Throughs)
      BY <2>1 DEF Generate
  <2>3. o \in found /\ o.op \in Statements
      BY <2>2, GeneratedAre
  <2>4. o \in data \/ o \in Throughs
      BY <2>2, <2>3 DEF WithoutChurn
  <2>5. SoundModels(models) /\ SoundDatabase(before) /\ SoundDatabase(db)
      BY <1>2 DEF SyncInv
  <2>6. CASE o \in data
      BY <1>2, <2>3, <2>6, SparesStays DEF SyncInv, Generate
  <2>7. CASE o \in Throughs
    <3>1. Fit(o) /\ Spares(o)
        BY <1>2, <2>5, <2>7, ThroughFits, ThroughSpares
    <3> QED
        BY <1>2, <2>3, <3>1, SparesStays
  <2> QED
      BY <2>3, <2>4, <2>6, <2>7
<1>5. stage' # "comparing"
    BY DEF Generate
<1> QED
    BY <1>1, <1>2, <1>3, <1>4, <1>5 DEF SyncInv

LEMMA ExecuteKeeps ==
  ASSUME SyncInv, NEW o \in todo, Execute(o)
  PROVE  SyncInv'
<1>1. /\ o.op \in Statements /\ Fit(o) /\ Spares(o) /\ SoundDatabase(db)
      /\ Accepts(o.op, o.object) /\ db' = Effect(o.op, o.object, o.with)
    BY DEF SyncInv, Execute
<1>2. models' = models /\ before' = before /\ todo' \subseteq todo
    BY DEF Execute
<1>3. stage = "running" /\ stage' \in {"running", "done"}
    BY DEF Execute
<1>4. SoundDatabase(db')
    BY <1>1, EffectSound
<1>5. SoundModels(models)' /\ SoundDatabase(before)'
    BY <1>2 DEF SyncInv
<1>6. \A b \in before : IsAsWanted(b) =>
        b \in db' \/ (b.kind = "fk" /\ OfItself(b.table)) \/ AsUnique(b)
  <2>1. SUFFICES ASSUME NEW b \in before, IsAsWanted(b), ~(b.kind = "fk" /\ OfItself(b.table)),
                        ~AsUnique(b)
                 PROVE  b \in db'
      OBVIOUS
  <2>2. b \in db
      BY <1>3, <2>1 DEF SyncInv, KeepsWanted
  <2> QED
      BY <1>1, <2>1, <2>2, EffectSpares
<1>7. KeepsWanted'
    BY <1>2, <1>6, KeepsWantedIf
<1>8. ASSUME NEW p \in todo'
      PROVE  p.op \in Statements /\ Fit(p) /\ Spares(p)'
  <2>1. p.op \in Statements /\ Fit(p) /\ Spares(p)
      BY <1>2, <1>3 DEF SyncInv
  <2> QED
      BY <1>2, <2>1, SparesStays
<1> QED
    BY <1>3, <1>4, <1>5, <1>7, <1>8 DEF SyncInv

\* A sync that ends early leaves what it found, or what it made of it.
LEMMA EndKeeps ==
  ASSUME SyncInv, (\E o \in todo : Refuse(o)) \/ Interrupt
  PROVE  SyncInv'
<1>1. /\ models' = models /\ before' = before /\ db' \in {db, before}
      /\ stage = "running" /\ stage' \in {"refused", "cut"}
    BY DEF Refuse, Interrupt
<1>2. SoundModels(models)' /\ SoundDatabase(before)' /\ SoundDatabase(db)'
    BY <1>1 DEF SyncInv
<1>3. \A b \in before : IsAsWanted(b) =>
        b \in db' \/ (b.kind = "fk" /\ OfItself(b.table)) \/ AsUnique(b)
    BY <1>1 DEF SyncInv, KeepsWanted
<1>4. KeepsWanted'
    BY <1>1, <1>3, KeepsWantedIf
<1> QED
    BY <1>1, <1>2, <1>4 DEF SyncInv

LEMMA UndoKeeps ==
  ASSUME SyncInv, RollBack \/ Undo
  PROVE  SyncInv'
<1>1. models' = models /\ before' = before /\ stage' \in {"undoing", "stuck"}
    BY DEF RollBack, Undo
<1>2. SoundModels(models)' /\ SoundDatabase(before)'
    BY <1>1 DEF SyncInv
<1>3. KeepsWanted'
    BY <1>1 DEF KeepsWanted
<1> QED
    BY <1>1, <1>2, <1>3 DEF SyncInv

LEMMA StutterKeeps ==
  ASSUME SyncInv, UNCHANGED vars
  PROVE  SyncInv'
<1>1. /\ db' = db /\ models' = models /\ before' = before /\ stage' = stage
      /\ data' = data /\ todo' = todo
    BY DEF vars
<1>2. SoundModels(models)' /\ SoundDatabase(before)'
    BY <1>1 DEF SyncInv
<1>3. stage' \notin {"undoing", "stuck"} => SoundDatabase(db)'
    BY <1>1 DEF SyncInv
<1>4. KeepsWanted'
  <2>1. \A b : IsAsWanted(b)' <=> IsAsWanted(b)
      BY <1>1, WantedStays
  <2>2. \A t : OfItself(t)' <=> OfItself(t)
      BY <1>1, WantedStays
  <2> QED
      BY <1>1, <2>1, <2>2 DEF SyncInv, KeepsWanted
<1>5. \A o : Spares(o) => Spares(o)'
    BY <1>1, SparesStays
<1>6. stage' = "comparing" => db' = before' /\ \A o \in data' : Fit(o) /\ Spares(o)'
    BY <1>1, <1>5 DEF SyncInv
<1>7. stage' = "running" => \A o \in todo' : o.op \in Statements /\ Fit(o) /\ Spares(o)'
    BY <1>1, <1>5 DEF SyncInv
<1> QED
    BY <1>2, <1>3, <1>4, <1>6, <1>7 DEF SyncInv

\* A sync keeps a sound database sound, and the statements left to run take nothing that
\* is wanted (makeDiff() and generateOperations(), schema_diff.ts and
\* migration_operation_generator.ts).
THEOREM SyncInvariant == Spec => []SyncInv
<1>1. Init => SyncInv
  <2>1. SUFFICES ASSUME Init PROVE SyncInv
      OBVIOUS
  <2>2. SoundModels(models) /\ SoundDatabase(db) /\ before = db /\ stage = "idle"
      BY <2>1, SchemaSyncAssumption DEF Init
  <2>3. KeepsWanted
      BY <2>2 DEF KeepsWanted
  <2> QED
      BY <2>2, <2>3 DEF SyncInv
<1>2. SyncInv /\ [Next]_vars => SyncInv'
  <2>1. SUFFICES ASSUME SyncInv, [Next]_vars PROVE SyncInv'
      OBVIOUS
  <2>2. CASE Start
      BY <2>1, <2>2, StartKeeps
  <2>3. CASE \E t \in Tables : Compare(t)
      BY <2>1, <2>3, CompareKeeps
  <2>4. CASE Generate
      BY <2>1, <2>4, GenerateKeeps
  <2>5. CASE \E o \in todo : Execute(o)
      BY <2>1, <2>5, ExecuteKeeps
  <2>6. CASE (\E o \in todo : Refuse(o)) \/ Interrupt
      BY <2>1, <2>6, EndKeeps
  <2>7. CASE RollBack \/ Undo
      BY <2>1, <2>7, UndoKeeps
  <2>8. CASE UNCHANGED vars
      BY <2>1, <2>8, StutterKeeps
  <2> QED
      BY <2>1, <2>2, <2>3, <2>4, <2>5, <2>6, <2>7, <2>8 DEF Next
<1> QED
    BY <1>1, <1>2, PTL DEF Spec

\* What was as the models want it when a sync began is there at every moment of it, but
\* for the keys of the through table of a model with itself: processManyToMany() and
\* removeFkChurnByName() leave no drop of a key that is added again (schema_diff.ts).
THEOREM WantedIsKept == Spec => []KeepsWanted
<1>1. SyncInv => KeepsWanted
    BY DEF SyncInv
<1> QED
    BY <1>1, SyncInvariant, PTL

-----------------------------------------------------------------------------
(* A migration that only adds is undone by its down().                     *)

\* What a statement takes away was there when the sync began, what it adds was not.
Meant(o) ==
  /\ o.op \in Dropping => o.object \in before
  /\ o.op \in {"add_pk", "add_unique", "create_index", "add_check"} => o.object \notin before

\* No object that was there when the sync began is one o made, or in a table it made.
Fresh(o) ==
  \A b \in before :
    /\ o.op = "create_table" => b.table # o.object.table
    /\ o.op = "add_column" => ~(b.table = o.object.table /\ b.on = o.object.on)
    /\ o.op \in Adding => b # o.object

\* What o made is there.
Present(o) ==
  /\ o.op = "add_column" => HasColumn(o.object.table, o.object.on)
  /\ o.op \in Adding \ {"add_column"} => o.object \in db

\* What o made, with what came to be on it.
Covers(o, x) ==
  \/ o.op = "create_table" /\ x.table = o.object.table
  \/ o.op = "add_column" /\ x.table = o.object.table /\ x.on = o.object.on
  \/ o.op \in Adding /\ x = o.object

Entangled ==
  \E a, b \in {o.object : o \in Generated(data)} :
    /\ a # b
    /\ \/ a.table = b.table /\ a.on \in {b.on, ""}
       \/ b.ref # <<>> /\ b.ref[1] = a.table

\* The part of a sync's work that is done, in the order of the statements.
InOrder ==
  /\ \A i \in 1 .. Len(ran) : \A o \in todo : Rank(ran[i]) <= Rank(o)
  /\ (\A i \in 1 .. Len(ran) : ran[i].op \in {"create_table", "add_column"}) => before \subseteq db
  /\ (\A i \in 1 .. Len(ran) : ran[i].op \in {"create_table", "add_column", "drop_unique"}) =>
       \A k \in db : k.kind \in {"pk", "unique"} => k \in before \/ TableObject(k.table) \notin before

\* The keys of the database, and what they refer to.
KeysKnown ==
  /\ \A fk \in db : fk.kind = "fk" =>
       fk \in before \/ \E o \in Generated(data) : o.op = "add_fk" /\ o.object = fk
  /\ \A fk \in before \cap db : fk.kind = "fk" => Keyed(fk.ref[1], fk.ref[2], before \cap db)

OnlyAdded ==
  /\ before \subseteq db
  /\ \A x \in db : x \in before \/ \E i \in 1 .. Len(ran) : Covers(ran[i], x)

Untouched ==
  \A i, j \in 1 .. Len(ran) :
    /\ Present(ran[i])
    /\ i # j /\ ran[i].op \in Adding /\ ran[j].op \in Adding => ran[i].object # ran[j].object

Running ==
  /\ ran \in Seq(Generated(data))
  /\ todo \subseteq Generated(data)
  /\ \A o \in Generated(data) : Fit(o) /\ Meant(o) /\ (o.op = "add_fk" => o.object \notin before)
  /\ \A i \in 1 .. Len(ran) : Fresh(ran[i])
  /\ KeysKnown
  /\ (\A o \in Generated(data) : o.op \in Adding) => OnlyAdded
  /\ Entangled \/ Untouched

UndoInv ==
  /\ stage = "comparing" => ran = <<>> /\ \A o \in data : Meant(o)
  /\ stage \in {"running", "done", "undoing"} => Running
  /\ stage = "running" => InOrder
  /\ stage = "stuck" => Entangled

\* The place of a statement in the order.
LEMMA GeneratedRank ==
  ASSUME NEW ops, NEW o \in Generated(ops)
  PROVE  /\ Rank(o) \in 1..13
         /\ o.op = "create_table" <=> Rank(o) = 1
         /\ o.op = "add_column" <=> Rank(o) = 2
         /\ o.op = "drop_unique" <=> Rank(o) = 3
         /\ o.op = "drop_index" <=> Rank(o) = 4
         /\ o.op = "add_pk" <=> Rank(o) = 5
         /\ o.op = "add_fk" <=> Rank(o) = 6
         /\ o.op = "add_unique" <=> Rank(o) = 7
         /\ o.op = "create_index" <=> Rank(o) = 8
         /\ o.op = "drop_check" <=> Rank(o) = 9
         /\ o.op = "add_check" <=> Rank(o) = 10
         /\ o.op = "drop_fk" <=> Rank(o) = 11
         /\ o.op = "drop_column" <=> Rank(o) = 12
         /\ o.op = "modify_column" <=> Rank(o) = 13
<1>1. \E i \in DOMAIN Order : Order[i] = o.op
    BY DEF Generated
<1>2. Rank(o) \in DOMAIN Order /\ Order[Rank(o)] = o.op
    BY <1>1 DEF Rank
<1>3. PICK order, r : order = Order /\ r = Rank(o)
    OBVIOUS
<1>4. /\ r \in 1..13 /\ order[r] = o.op
      /\ order[1] = "create_table" /\ order[2] = "add_column" /\ order[3] = "drop_unique"
      /\ order[4] = "drop_index" /\ order[5] = "add_pk" /\ order[6] = "add_fk"
      /\ order[7] = "add_unique" /\ order[8] = "create_index" /\ order[9] = "drop_check"
      /\ order[10] = "add_check" /\ order[11] = "drop_fk" /\ order[12] = "drop_column"
      /\ order[13] = "modify_column"
    BY <1>2, <1>3, OrderIs, Zenon
<1>5. \/ r = 1 \/ r = 2 \/ r = 3 \/ r = 4 \/ r = 5 \/ r = 6 \/ r = 7 \/ r = 8 \/ r = 9 \/ r = 10
      \/ r = 11 \/ r = 12 \/ r = 13
    BY <1>4
<1> QED
    BY <1>3, <1>4, <1>5

\* What comes before a table, a column or the removal of a unique constraint.
LEMMA Earlier ==
  ASSUME NEW ops, NEW o \in Generated(ops), NEW p \in Generated(ops), Rank(p) <= Rank(o)
  PROVE  /\ o.op \in {"create_table", "add_column"} => p.op \in {"create_table", "add_column"}
         /\ o.op = "drop_unique" => p.op \in {"create_table", "add_column", "drop_unique"}
<1>1. PICK r \in 1..13, s \in 1..13 : r = Rank(p) /\ s = Rank(o)
    BY GeneratedRank
<1>2. /\ o.op \in {"create_table", "add_column"} => s <= 2
      /\ o.op = "drop_unique" => s = 3
    BY <1>1, GeneratedRank
<1>3. r <= s
    BY <1>1
<1>4. /\ r = 1 => p.op = "create_table"
      /\ r = 2 => p.op = "add_column"
      /\ r = 3 => p.op = "drop_unique"
    BY <1>1, GeneratedRank
<1> QED
    BY <1>2, <1>3, <1>4

\* A new index or unique constraint has a name that is neither that of a key nor there.
LEMMA NewNames ==
  ASSUME SoundModels(models), NEW t, NEW x
  PROVE  /\ x \in IndexesNew(t) <=>
              /\ x \in models /\ x.kind = "index" /\ x.table = t
              /\ ~\E b \in db : b.kind \in {"index", "unique", "pk"} /\ b.table = t /\ b.name = x.name
         /\ x \in UniquesNew(t) <=>
              /\ x \in models /\ x.kind = "unique" /\ x.table = t
              /\ ~\E b \in db : b.kind \in {"unique", "pk"} /\ b.table = t /\ b.name = x.name
<1>1. x \in models /\ x.kind \in {"index", "unique"} => x.name \notin PkNames
    BY PlainNames
<1>2. x.name \notin PkNames =>
        /\ x.name \in Names(UniquesHere(t)) <=>
             \E b \in db : b.kind \in {"unique", "pk"} /\ b.table = t /\ b.name = x.name
        /\ x.name \in Names(IndexesHere(t)) <=>
             \E b \in db : b.kind \in {"index", "unique", "pk"} /\ b.table = t /\ b.name = x.name
    BY DEF Names, UniquesHere, IndexesHere, PlainIndexesHere, Listed, Of
<1> QED
    BY <1>1, <1>2 DEF IndexesNew, UniquesNew, Of

\* What the comparison of a table takes away is there, what it adds is not.
LEMMA ComparedMeant ==
  ASSUME SoundModels(models), SoundDatabase(db), db = before, NEW t, NEW o \in Compared(t)
  PROVE  Meant(o)
<1>1. o.op \in Dropping => o.object \in db
  <2>1. SUFFICES ASSUME o.op \in Dropping PROVE o.object \in db
      OBVIOUS
  <2>2. \/ o.object \in ColumnsLost(t)
        \/ o.object \in IndexesLost(t)
        \/ o.object \in UniquesLost(t)
        \/ o.object \in ChecksLost(t)
        \/ o.object \in RelationsLost(t)
      BY <2>1, ComparedIs DEF Dropping
  <2> QED
      BY <2>2 DEF ColumnsLost, IndexesLost, UniquesLost, ChecksLost, RelationsLost,
                  ColumnsHere, ChecksHere, KeysHere, PlainIndexesHere, UniquesHere, Listed,
                  Lacking, Of
<1>2. o.op \in {"add_pk", "add_unique", "create_index", "add_check"} => o.object \notin db
  <2>1. SUFFICES ASSUME o.op \in {"add_pk", "add_unique", "create_index", "add_check"},
                        o.object \in db
                 PROVE  FALSE
      OBVIOUS
  <2>2. o.object.table = t /\ o.object.kind \in {"pk", "unique", "index", "check"}
    <3>1. \/ o.object \in Of(models, "pk", t) \/ o.object \in Of(models, "unique", t)
          \/ o.object \in Of(models, "index", t) \/ o.object \in Of(models, "check", t)
        BY <2>1, ComparedIs
    <3> QED
        BY <3>1 DEF Of
  <2>3. CASE ColumnsHere(t) = {}
    <3>1. \A d \in db : d.kind # "table" =>
            \E c \in db : c.kind = "column" /\ c.table = d.table /\ c.on = d.on
        BY DatabaseFacts, Zenon
    <3> QED
        BY <2>1, <2>2, <2>3, <3>1 DEF ColumnsHere, Of
  <2>4. CASE ColumnsHere(t) # {}
    <3>1. o \in Differences(t)
        BY <2>4 DEF Compared
    <3>2. CASE o \in PrimaryKeys(t)
      <4>1. \/ PrimaryKeyHere(t) = {} /\ o \in Operations("add_pk", Of(models, "pk", t))
            \/ o \in Operations("drop_pk", PrimaryKeyHere(t))
            \/ o \in Operations("modify_pk", Of(models, "pk", t) \ PrimaryKeyHere(t))
          BY <3>2 DEF PrimaryKeys
      <4>2. PrimaryKeyHere(t) = {} /\ o.object \in Of(models, "pk", t)
          BY <2>1, <4>1, OperationsAre
      <4> QED
          BY <2>1, <4>2 DEF PrimaryKeyHere, Of
    <3>3. CASE o \notin PrimaryKeys(t)
      <4>1. \/ o \in Operations("add_column", ColumnsNew(t))
            \/ o \in Operations("drop_column", ColumnsLost(t))
            \/ o \in Operations("modify_column", ColumnsChanged(t))
            \/ o \in Operations("create_index", IndexesNew(t))
            \/ o \in Operations("drop_index", IndexesLost(t))
            \/ o \in Operations("add_unique", UniquesNew(t))
            \/ o \in Operations("drop_unique", UniquesLost(t))
            \/ o \in Operations("add_check", ChecksNew(t))
            \/ o \in Operations("drop_check", ChecksLost(t))
            \/ o \in Operations("add_fk", RelationsNew(t))
            \/ o \in Operations("drop_fk", RelationsLost(t))
            \/ o \in Operations("modify_fk", RelationsChanged(t))
          BY <3>1, <3>3 DEF Differences
      <4>2. o.object \in IndexesNew(t) \/ o.object \in UniquesNew(t) \/ o.object \in ChecksNew(t)
          BY <2>1, <4>1, OperationsAre
      <4>3. CASE o.object \in ChecksNew(t)
          BY <2>1, <4>3 DEF ChecksNew, Lacking, Names, Here, ChecksHere, Of
      <4>4. CASE o.object \in IndexesNew(t) \/ o.object \in UniquesNew(t)
          BY <2>1, <4>4, NewNames
      <4> QED
          BY <4>2, <4>3, <4>4
    <3> QED
        BY <3>2, <3>3
  <2> QED
      BY <2>3, <2>4
<1> QED
    BY <1>1, <1>2 DEF Meant

LEMMA ThroughMeant ==
  ASSUME db = before, NEW o \in Throughs
  PROVE  Meant(o)
<1>1. PICK m \in models : o \in NewThrough(m) \/ o \in ThroughChanged(m)
    BY ThroughsAre
<1>2. CASE o \in NewThrough(m)
  <2>1. o.op \in {"create_table", "add_fk"}
      BY <1>2 DEF NewThrough, Operation
  <2> QED
      BY <2>1 DEF Meant, Dropping
<1>3. CASE o \in ThroughChanged(m)
  <2>1. \/ o.op = "drop_fk" /\ o.object \in Misplaced(m) \cup Conflicting(m)
        \/ o.op = "drop_column" /\ o.object \in ColumnsHere(m.ref[1])
        \/ o.op \in {"add_column", "add_fk"}
      BY <1>3, ThroughChangedIs
  <2>2. o.op = "drop_fk" => o.object \in KeysHere(m.ref[1])
      BY <2>1, ThroughKeysGone, Zenon
  <2>3. o.op \in {"drop_fk", "drop_column"} => o.object \in db
      BY <2>1, <2>2 DEF KeysHere, ColumnsHere, Of
  <2> QED
      BY <2>1, <2>3 DEF Meant, Dropping
<1> QED
    BY <1>1, <1>2, <1>3

LEMMA GenerateUndoes ==
  ASSUME SyncInv, UndoInv, Generate
  PROVE  UndoInv'
<1>1. /\ stage = "comparing" /\ ran = <<>> /\ ran' = <<>> /\ db' = db /\ before' = before /\ db = before
      /\ stage' \in {"running", "done"}
    BY DEF SyncInv, UndoInv, Generate
<1>2. PICK found : found = data' /\ found = WithoutChurn(data \cup Throughs) /\ todo' = Generated(found)
    BY DEF Generate
<1>3. ASSUME NEW o \in Generated(found)
      PROVE  Fit(o) /\ Meant(o) /\ (o.op = "add_fk" => o.object \notin before)
  <2>1. o \in found
      BY GeneratedAre
  <2>2. o \in data \/ o \in Throughs
      BY <1>2, <2>1 DEF WithoutChurn
  <2>3. SoundModels(models) /\ SoundDatabase(db)
      BY <1>1 DEF SyncInv
  <2>4. Fit(o)
      BY <1>1, <2>2, <2>3, ThroughFits DEF SyncInv
  <2>5. Meant(o)
      BY <1>1, <2>2, ThroughMeant DEF UndoInv
  <2>6. ASSUME o.op = "add_fk", o.object \in before
        PROVE  FALSE
    <3>1. ~\E fk \in KeysHere(o.object.table) : fk.name = o.object.name \/ Alike(fk, o.object)
        BY <1>2, <2>1, <2>6 DEF WithoutChurn
    <3>2. o.object \in KeysHere(o.object.table)
        BY <1>1, <2>4, <2>6 DEF Fit, KeysHere, Of
    <3> QED
        BY <3>1, <3>2
  <2> QED
      BY <2>4, <2>5, <2>6
<1>4. \A o : Meant(o) => Meant(o)'
    BY <1>1 DEF Meant
<1>5. ran' \in Seq(Generated(data')) /\ Len(ran') = 0
    BY <1>1
<1>6. todo' = Generated(data')
    BY <1>2
<1>7. \A o \in Generated(data') : Fit(o) /\ Meant(o)' /\ (o.op = "add_fk" => o.object \notin before')
    BY <1>1, <1>2, <1>3, <1>4
<1>8. KeysKnown'
  <2>1. \A fk \in db : fk.kind = "fk" => Keyed(fk.ref[1], fk.ref[2], db)
      BY DatabaseFacts, Zenon, <1>1 DEF SyncInv
  <2>2. before' \cap db' = db /\ db' = db /\ before' = db
      BY <1>1
  <2> QED
      BY <2>1, <2>2 DEF KeysKnown
<1>9. OnlyAdded'
    BY <1>1 DEF OnlyAdded
<1>10. Untouched'
    BY <1>5 DEF Untouched
<1>11. InOrder'
    BY <1>1, <1>5 DEF InOrder
<1>12. \A i \in 1 .. Len(ran') : Fresh(ran[i])'
    BY <1>5
<1>13. Running'
    BY <1>1, <1>5, <1>6, <1>7, <1>8, <1>9, <1>10, <1>12 DEF Running
<1> QED
    BY <1>1, <1>11, <1>13 DEF UndoInv

\* What a statement makes, nothing there before was part of.
LEMMA MadeFresh ==
  ASSUME SyncInv, Running, InOrder, NEW o \in Due, Accepts(o.op, o.object)
  PROVE  Fresh(o)
<1> DEFINE x == o.object
<1>1. /\ o \in todo /\ o \in Generated(data) /\ Fit(o) /\ Meant(o)
      /\ o.op = "add_fk" => x \notin before
    BY DEF Running, Due
<1>2. o.op \in {"create_table", "add_column"} => before \subseteq db
  <2>1. SUFFICES ASSUME o.op \in {"create_table", "add_column"} PROVE before \subseteq db
      OBVIOUS
  <2>2. ASSUME NEW i \in 1 .. Len(ran)
        PROVE  ran[i].op \in {"create_table", "add_column"}
    <3>1. PICK p : p = ran[i]
        OBVIOUS
    <3>2. p \in Generated(data) /\ Rank(p) <= Rank(o)
        BY <1>1, <3>1 DEF Running, InOrder
    <3> QED
        BY <1>1, <2>1, <3>1, <3>2, Earlier
  <2> QED
      BY <2>2 DEF InOrder
<1>3. CASE o.op = "create_table"
  <2>1. x \notin before /\ x = TableObject(x.table)
      BY <1>1, <1>2, <1>3 DEF Accepts, Fit
  <2>2. \A b \in before : TableObject(b.table) \in before
      BY DatabaseFacts, Zenon DEF SyncInv
  <2>3. \A b \in before : b.table # x.table
      BY <2>1, <2>2, Zenon
  <2> QED
      BY <1>3, <2>1, <2>3 DEF Fresh
<1>4. CASE o.op = "add_column"
  <2>1. \A c \in before : c.kind = "column" => ~(c.table = x.table /\ c.on = x.on)
      BY <1>2, <1>4 DEF Accepts, HasColumn, Of
  <2>2. x.on # ""
      BY <1>1, <1>4 DEF Fit
  <2>3. /\ \A b \in before : b.kind # "table" =>
             \E c \in before : c.kind = "column" /\ c.table = b.table /\ c.on = b.on
        /\ \A b \in before : b.kind = "table" => b = TableObject(b.table)
      BY DatabaseFacts, Zenon DEF SyncInv
  <2>4. ASSUME NEW b \in before, b.table = x.table, b.on = x.on
        PROVE  FALSE
    <3>1. CASE b.kind = "table"
      <4>1. b = TableObject(b.table)
          BY <2>3, <3>1, Zenon
      <4>2. b.on = ""
        <5>1. PICK t : b = TableObject(t)
            BY <4>1
        <5> QED
            BY <5>1, TableFields
      <4> QED
          BY <2>2, <2>4, <4>2
    <3>2. CASE b.kind # "table"
        BY <2>1, <2>3, <2>4, <3>2
    <3> QED
        BY <3>1, <3>2
  <2> QED
      BY <1>4, <2>4 DEF Fresh
<1>5. CASE o.op \in {"add_pk", "add_fk", "add_unique", "create_index", "add_check"}
  <2>1. x \notin before
      BY <1>1, <1>5 DEF Meant
  <2> QED
      BY <1>5, <2>1 DEF Fresh
<1>6. CASE o.op \notin Adding
    BY <1>6 DEF Fresh, Adding
<1> QED
    BY <1>3, <1>4, <1>5, <1>6 DEF Adding

\* What is made is there.
LEMMA MadePresent ==
  ASSUME NEW o, Fit(o), db' = Effect(o.op, o.object, o.with)
  PROVE  Present(o)'
<1>1. CASE o.op = "add_column"
  <2>1. PICK x, s : x = o.object /\ s = Stored(x, 1)
      OBVIOUS
  <2>2. s \in db'
      BY <1>1, <2>1 DEF Effect
  <2>3. x = Object(x.kind, x.table, x.name, x.on, x.ref, x.def) /\ x.kind = "column"
      BY <1>1, <2>1 DEF Fit
  <2>4. s.kind = "column" /\ s.table = x.table /\ s.on = x.on
      BY <2>1, <2>3, StoredFields
  <2>5. HasColumn(x.table, x.on)'
      BY <2>2, <2>4 DEF HasColumn, Of
  <2> QED
      BY <1>1, <2>1, <2>5 DEF Present, Adding
<1>2. CASE o.op \in Adding \ {"add_column"}
    BY <1>2 DEF Present, Effect, Adding
<1>3. CASE o.op \notin Adding
    BY <1>3 DEF Present, Adding
<1> QED
    BY <1>1, <1>2, <1>3

\* Nothing but columns changes, and a column only into one of its name.
LEMMA EffectIs ==
  ASSUME NEW o, o.op \in Statements, NEW e, e = Effect(o.op, o.object, o.with)
  PROVE  /\ o.op \in Adding => db \subseteq e
         /\ o.op \in {"drop_unique", "drop_index", "drop_check", "drop_fk"} => e = db \ {o.object}
         /\ o.op = "drop_column" => e = db \ On(o.object.table, o.object.on)
BY DEF Effect, Statements, Adding, Dropping

LEMMA ModifyIs ==
  ASSUME SoundDatabase(db), NEW o, Fit(o), o.op = "modify_column",
         NEW e, e = Effect(o.op, o.object, o.with)
  PROVE  /\ \A d \in db : d.kind # "column" => d \in e
         /\ \A d \in e : d.kind # "column" => d \in db
         /\ \A d \in db : d.kind = "column" =>
              \E c \in e : c.kind = "column" /\ c.table = d.table /\ c.on = d.on
<1> DEFINE x == o.object
           same(d) == d.kind = "column" /\ d.table = x.table /\ d.name = x.name
           held(d) == IF same(d) THEN Stored(x, Nullable(d)) ELSE d
<1>1. e = {held(d) : d \in db}
    BY DEF Effect
<1>2. x.kind = "column" /\ x.name = <<x.on>> /\ x = Object(x.kind, x.table, x.name, x.on, x.ref, x.def)
    BY DEF Fit
<1>3. \A d \in db : d.kind = "column" => d.name = <<d.on>>
    BY DatabaseFacts, Zenon
<1>4. ASSUME NEW d \in db
      PROVE  /\ d.kind # "column" => held(d) = d
             /\ held(d).kind = d.kind /\ held(d).table = d.table /\ held(d).on = d.on
  <2>1. CASE same(d)
    <3>1. PICK y, n : y = x /\ n = Nullable(d)
        OBVIOUS
    <3>2. PICK s : s = Stored(y, n)
        OBVIOUS
    <3>3. s = held(d)
        BY <2>1, <3>1, <3>2
    <3>4. y = Object(y.kind, y.table, y.name, y.on, y.ref, y.def)
        BY <1>2, <3>1
    <3>5. s.kind = y.kind /\ s.table = y.table /\ s.on = y.on
        BY <3>2, <3>4, StoredFields
    <3>6. x.name = <<x.on>> /\ d.name = <<d.on>> /\ d.name = x.name
        BY <1>2, <1>3, <2>1
    <3>7. x.on = d.on
        BY <3>6
    <3> QED
        BY <1>2, <2>1, <3>1, <3>3, <3>5, <3>7
  <2>2. CASE ~same(d)
      BY <2>2
  <2> QED
      BY <2>1, <2>2
<1>5. \A d \in db : held(d) \in e
    BY <1>1
<1>6. \A d \in e : \E c \in db : d = held(c)
    BY <1>1
<1> HIDE DEF held
<1>7. ASSUME NEW d \in e, d.kind # "column"
      PROVE  d \in db
  <2>1. PICK c \in db : d = held(c)
      BY <1>6
  <2> QED
      BY <1>4, <1>7, <2>1
<1>8. \A d \in db : d.kind # "column" => d \in e
    BY <1>4, <1>5
<1>9. ASSUME NEW d \in db, d.kind = "column"
      PROVE  \E c \in e : c.kind = "column" /\ c.table = d.table /\ c.on = d.on
  <2>1. held(d) \in e /\ held(d).kind = "column" /\ held(d).table = d.table /\ held(d).on = d.on
      BY <1>4, <1>5, <1>9
  <2> QED
      BY <2>1
<1> QED
    BY <1>7, <1>8, <1>9

\* What was made stays, unless two of the statements are about the same thing.
LEMMA PresentStays ==
  ASSUME SoundDatabase(db), ~Entangled, NEW o \in Generated(data), Fit(o), Meant(o),
         db' = Effect(o.op, o.object, o.with),
         NEW p \in Generated(data), Fit(p), Fresh(p), Present(p)
  PROVE  Present(p)'
<1>1. PICK x, y, e : x = o.object /\ y = p.object /\ e = db'
    OBVIOUS
<1>2. o.op \in Statements
    BY GeneratedAre
<1>3. SUFFICES ASSUME p.op \in Adding
               PROVE  /\ p.op = "add_column" =>
                           \E c \in e : c.kind = "column" /\ c.table = y.table /\ c.on = y.on
                      /\ p.op # "add_column" => y \in e
    BY <1>1 DEF Present, HasColumn, Of, Adding
<1>4. /\ p.op = "add_column" => \E c \in db : c.kind = "column" /\ c.table = y.table /\ c.on = y.on
      /\ p.op # "add_column" => y \in db /\ y.kind # "column"
  <2>1. /\ p.op = "add_column" => \E c \in db : c.kind = "column" /\ c.table = y.table /\ c.on = y.on
        /\ p.op # "add_column" => y \in db
      BY <1>1, <1>3 DEF Present, HasColumn, Of, Adding
  <2>2. p.op = "create_table" => y.kind # "column"
    <3>1. SUFFICES ASSUME p.op = "create_table" PROVE y.kind # "column"
        OBVIOUS
    <3>2. PICK t : y = TableObject(t)
        BY <1>1, <3>1 DEF Fit
    <3> QED
        BY <3>2, TableFields
  <2>3. p.op \in Adding \ {"create_table", "add_column"} => y.kind # "column"
      BY <1>1 DEF Fit, Adding
  <2> QED
      BY <1>3, <2>1, <2>2, <2>3
<1>5. CASE o.op \in Adding
  <2>1. db \subseteq e
      BY <1>1, <1>2, <1>5, EffectIs
  <2> QED
      BY <1>4, <2>1
<1>6. CASE o.op = "modify_column"
  <2>1. /\ \A d \in db : d.kind # "column" => d \in e
        /\ \A d \in db : d.kind = "column" =>
             \E c \in e : c.kind = "column" /\ c.table = d.table /\ c.on = d.on
      BY <1>1, <1>6, ModifyIs
  <2> QED
      BY <1>4, <2>1
<1>7. CASE o.op \in {"drop_unique", "drop_index", "drop_check", "drop_fk"}
  <2>1. x \in before /\ x.kind # "column"
      BY <1>1, <1>7 DEF Meant, Fit, Dropping
  <2>2. y # x
      BY <1>1, <1>3, <2>1 DEF Fresh
  <2>3. e = db \ {x}
      BY <1>1, <1>2, <1>7, EffectIs
  <2> QED
      BY <1>4, <2>1, <2>2, <2>3
<1>8. CASE o.op = "drop_column"
  <2>1. x \in before /\ x.kind = "column"
      BY <1>1, <1>8 DEF Meant, Fit, Dropping
  <2>2. e = db \ On(x.table, x.on)
      BY <1>1, <1>2, <1>8, EffectIs
  <2>3. p.op = "add_column" => ~(x.table = y.table /\ x.on = y.on)
      BY <1>1, <2>1 DEF Fresh
  <2>4. ASSUME y.table = x.table, y.on = x.on
        PROVE  y \notin db \/ p.op = "add_column"
    <3>1. y # x
        BY <1>1, <1>3, <2>1 DEF Fresh
    <3> QED
        BY <1>1, <2>4, <3>1 DEF Entangled
  <2> QED
      BY <1>4, <2>2, <2>3, <2>4 DEF On
<1> QED
    BY <1>2, <1>5, <1>6, <1>7, <1>8 DEF Statements, Dropping

\* What is there cannot be made again.
LEMMA MadeOnce ==
  ASSUME NEW o, Fit(o), o.op \in Adding, Accepts(o.op, o.object),
         NEW p, Fit(p), p.op \in Adding, Present(p)
  PROVE  p.object # o.object
<1>1. SUFFICES ASSUME NEW x, x = o.object, x = p.object
               PROVE  FALSE
    OBVIOUS
<1>2. /\ o.op = "create_table" => x = TableObject(x.table)
      /\ p.op = "create_table" => x = TableObject(x.table)
    BY <1>1 DEF Fit
<1>3. x = TableObject(x.table) => x.kind = "table"
  <2>1. SUFFICES ASSUME NEW t, x = TableObject(t) PROVE x.kind = "table"
      OBVIOUS
  <2> QED
      BY <2>1, TableFields
<1>4. p.op = o.op
    BY <1>1, <1>2, <1>3 DEF Fit, Adding
<1>5. CASE o.op = "add_column"
    BY <1>1, <1>4, <1>5 DEF Accepts, Present
<1>6. CASE o.op # "add_column"
  <2>1. x \in db
      BY <1>1, <1>4, <1>6 DEF Present
  <2>2. o.op \in {"add_fk", "add_unique", "create_index", "add_check"} => Free(x)
      BY <1>1 DEF Accepts
  <2>3. ~Free(x)
      BY <2>1 DEF Free, Clash
  <2>4. o.op = "add_pk" => Of(db, "pk", x.table) = {} /\ x.kind = "pk"
      BY <1>1 DEF Accepts, Fit
  <2>5. o.op = "create_table" => x \notin db
      BY <1>1 DEF Accepts
  <2> QED
      BY <1>6, <2>1, <2>2, <2>3, <2>4, <2>5 DEF Adding, Of
<1> QED
    BY <1>5, <1>6

\* The keys a statement makes.
LEMMA KeysMade ==
  ASSUME SoundDatabase(db), NEW o, o.op \in Statements, Fit(o),
         NEW e, e = Effect(o.op, o.object, o.with), NEW d \in e, d.kind \in {"pk", "unique", "fk"}
  PROVE  \/ d \in db
         \/ o.op \in {"add_pk", "add_fk", "add_unique"} /\ d = o.object
         \/ o.op = "create_table" /\ d.kind = "pk" /\ d.table = o.object.table
<1>1. CASE o.op = "create_table"
  <2>1. PICK x : x = o.object /\ x = TableObject(x.table)
      BY <1>1 DEF Fit
  <2>2. x.kind = "table"
    <3>1. PICK t : x = TableObject(t)
        BY <2>1
    <3> QED
        BY <3>1, TableFields
  <2>3. d \in db \/ d = x \/ \E w \in o.with : d = IF w.kind = "column" THEN Stored(w, 1) ELSE w
      BY <1>1, <2>1 DEF Effect
  <2>4. CASE \E w \in o.with : d = IF w.kind = "column" THEN Stored(w, 1) ELSE w
    <3>1. PICK w \in o.with : d = IF w.kind = "column" THEN Stored(w, 1) ELSE w
        BY <2>4
    <3>2. /\ w = Object(w.kind, w.table, w.name, w.on, w.ref, w.def)
          /\ w.table = x.table /\ w.kind \in {"column", "pk"}
        BY <1>1, <2>1 DEF Fit
    <3>3. CASE w.kind = "column"
      <4>1. d = Stored(w, 1)
          BY <3>1, <3>3
      <4>2. d.kind = "column"
          BY <3>2, <3>3, <4>1, StoredFields
      <4> QED
          BY <4>2
    <3> QED
        BY <1>1, <2>1, <3>1, <3>2, <3>3
  <2> QED
      BY <2>2, <2>3, <2>4
<1>2. CASE o.op = "add_column"
  <2>1. PICK x, s : x = o.object /\ s = Stored(x, 1)
      OBVIOUS
  <2>2. x = Object(x.kind, x.table, x.name, x.on, x.ref, x.def) /\ x.kind = "column"
      BY <1>2, <2>1 DEF Fit
  <2>3. s.kind = "column"
      BY <2>1, <2>2, StoredFields
  <2>4. d \in db \/ d = s
      BY <1>2, <2>1 DEF Effect
  <2> QED
      BY <2>3, <2>4
<1>3. CASE o.op \in {"add_pk", "add_fk", "add_unique"}
    BY <1>3 DEF Effect
<1>4. CASE o.op \in {"create_index", "add_check"}
    BY <1>4 DEF Effect, Fit
<1>5. CASE o.op = "modify_column"
    BY <1>5, ModifyIs
<1>6. CASE o.op \in Dropping
  <2>1. e \subseteq db
      BY <1>6, EffectIs DEF Dropping
  <2> QED
      BY <2>1
<1> QED
    BY <1>1, <1>2, <1>3, <1>4, <1>5, <1>6 DEF Statements, Adding

\* A key is removed only where the keys that refer to it find another one.
LEMMA KeysStayKnown ==
  ASSUME SyncInv, SoundDatabase(db), Running, InOrder, NEW o \in Due, Fresh(o), Accepts(o.op, o.object),
         db' = Effect(o.op, o.object, o.with), before' = before, data' = data
  PROVE  KeysKnown'
<1>1. PICK x, e : x = o.object /\ e = db'
    OBVIOUS
<1>2. /\ o \in todo /\ o \in Generated(data) /\ Fit(o) /\ Meant(o) /\ KeysKnown
    BY DEF Running, Due
<1>3. o.op \in Statements
    BY <1>2, GeneratedAre
<1>4. ASSUME NEW fk \in e, fk.kind = "fk"
      PROVE  fk \in before \/ \E p \in Generated(data) : p.op = "add_fk" /\ p.object = fk
  <2>1. \/ fk \in db
        \/ o.op \in {"add_pk", "add_fk", "add_unique"} /\ fk = o.object
        \/ o.op = "create_table" /\ fk.kind = "pk"
      BY <1>1, <1>2, <1>3, <1>4, KeysMade
  <2>2. o.op \in {"add_pk", "add_unique"} => o.object.kind # "fk"
      BY <1>2 DEF Fit
  <2> QED
      BY <1>2, <1>4, <2>1, <2>2 DEF KeysKnown
<1>5. ASSUME NEW fk \in before, fk \in e, fk.kind = "fk"
      PROVE  Keyed(fk.ref[1], fk.ref[2], before \cap e)
  <2>1. fk \in db
    <3>1. \/ fk \in db
          \/ o.op \in {"add_pk", "add_fk", "add_unique"} /\ fk = o.object
          \/ o.op = "create_table" /\ fk.kind = "pk"
        BY <1>1, <1>2, <1>3, <1>5, KeysMade
    <3> QED
        BY <1>5, <3>1 DEF Fresh, Adding
  <2>2. PICK k \in before \cap db : k.kind \in {"pk", "unique"} /\ k.table = fk.ref[1] /\ k.on = fk.ref[2]
      BY <1>2, <1>5, <2>1 DEF KeysKnown, Keyed
  <2>3. fk.ref = <<fk.ref[1], fk.ref[2]>>
    <3>1. \A b \in before : b.kind = "fk" => b.ref = <<b.ref[1], b.ref[2]>>
        BY DatabaseFacts, Zenon DEF SyncInv
    <3> QED
        BY <1>5, <3>1
  <2>4. CASE k \in e
      BY <2>2, <2>4 DEF Keyed
  <2>5. CASE k \notin e
    <3>1. CASE o.op \in Adding
        BY <1>1, <1>3, <2>2, <2>5, <3>1, EffectIs
    <3>2. CASE o.op = "modify_column"
        BY <1>1, <1>2, <2>2, <2>5, <3>2, ModifyIs
    <3>3. CASE o.op \in {"drop_index", "drop_check", "drop_fk"}
      <4>1. x.kind \notin {"pk", "unique"}
          BY <1>1, <1>2, <3>3 DEF Fit
      <4>2. e = db \ {x}
          BY <1>1, <1>3, <3>3, EffectIs
      <4> QED
          BY <2>2, <2>5, <4>1, <4>2
    <3>4. CASE o.op = "drop_unique"
      <4>1. e = db \ {x} /\ k = x
        <5>1. e = db \ {x}
            BY <1>1, <1>3, <3>4, EffectIs
        <5> QED
            BY <2>2, <2>5, <5>1
      <4>2. Keyed(x.table, x.on, e) \/ ~\E f \in e : f.kind = "fk" /\ f.ref = <<x.table, x.on>>
          BY <1>1, <3>4, <4>1 DEF Accepts, Unreferenced
      <4>3. Keyed(x.table, x.on, e)
          BY <1>5, <2>2, <2>3, <4>1, <4>2
      <4>4. PICK l \in e : l.kind \in {"pk", "unique"} /\ l.table = x.table /\ l.on = x.on
          BY <4>3 DEF Keyed
      <4>5. ASSUME NEW i \in 1 .. Len(ran)
            PROVE  ran[i].op \in {"create_table", "add_column", "drop_unique"}
        <5>1. PICK p : p = ran[i]
            OBVIOUS
        <5>2. p \in Generated(data) /\ Rank(p) <= Rank(o)
            BY <1>2, <5>1 DEF Running, InOrder
        <5> QED
            BY <1>2, <3>4, <5>1, <5>2, Earlier
      <4>6. l \in before \/ TableObject(l.table) \notin before
          BY <4>1, <4>4, <4>5 DEF InOrder
      <4>7. TableObject(k.table) \in before
        <5>1. \A b \in before : TableObject(b.table) \in before
            BY DatabaseFacts, Zenon DEF SyncInv
        <5> QED
            BY <2>2, <5>1
      <4>8. l \in before
          BY <4>1, <4>4, <4>6, <4>7
      <4> QED
          BY <2>2, <4>1, <4>4, <4>8 DEF Keyed
    <3>5. CASE o.op = "drop_column"
      <4>1. e = db \ On(x.table, x.on)
          BY <1>1, <1>3, <3>5, EffectIs
      <4>2. k.table = x.table /\ k.on = x.on
          BY <2>2, <2>5, <4>1 DEF On
      <4>3. Keyed(x.table, x.on, e) \/ ~\E f \in e : f.kind = "fk" /\ f.ref = <<x.table, x.on>>
          BY <1>1, <3>5, <4>1 DEF Accepts, Unreferenced
      <4>4. ~Keyed(x.table, x.on, e)
          BY <4>1 DEF Keyed, On
      <4> QED
          BY <1>5, <2>2, <2>3, <4>2, <4>3, <4>4
    <3> QED
        BY <1>3, <3>1, <3>2, <3>3, <3>4, <3>5 DEF Statements, Dropping
  <2> QED
      BY <2>4, <2>5
<1> QED
    BY <1>1, <1>4, <1>5 DEF KeysKnown

\* All that a statement that only adds makes is part of what it made.
LEMMA MadeCovered ==
  ASSUME NEW o, o.op \in Adding, Fit(o), NEW e, e = Effect(o.op, o.object, o.with), NEW d \in e
  PROVE  d \in db \/ Covers(o, d)
<1>1. PICK x : x = o.object
    OBVIOUS
<1>2. CASE o.op = "create_table"
  <2>1. d \in db \/ d = x \/ \E w \in o.with : d = IF w.kind = "column" THEN Stored(w, 1) ELSE w
      BY <1>1, <1>2 DEF Effect
  <2>2. CASE \E w \in o.with : d = IF w.kind = "column" THEN Stored(w, 1) ELSE w
    <3>1. PICK w \in o.with : d = IF w.kind = "column" THEN Stored(w, 1) ELSE w
        BY <2>2
    <3>2. w = Object(w.kind, w.table, w.name, w.on, w.ref, w.def) /\ w.table = x.table
        BY <1>1, <1>2 DEF Fit
    <3>3. CASE w.kind = "column"
      <4>1. d = Stored(w, 1)
          BY <3>1, <3>3
      <4>2. d.table = w.table
          BY <3>2, <4>1, StoredFields
      <4> QED
          BY <1>1, <1>2, <3>2, <4>2 DEF Covers
    <3> QED
        BY <1>1, <1>2, <3>1, <3>2, <3>3 DEF Covers
  <2> QED
      BY <1>1, <1>2, <2>1, <2>2 DEF Covers
<1>3. CASE o.op = "add_column"
  <2>1. PICK s : s = Stored(x, 1)
      OBVIOUS
  <2>2. x = Object(x.kind, x.table, x.name, x.on, x.ref, x.def)
      BY <1>1 DEF Fit
  <2>3. s.table = x.table /\ s.on = x.on
      BY <2>1, <2>2, StoredFields
  <2>4. d \in db \/ d = s
      BY <1>1, <1>3, <2>1 DEF Effect
  <2> QED
      BY <1>1, <1>3, <2>3, <2>4 DEF Covers
<1>4. CASE o.op \notin {"create_table", "add_column"}
    BY <1>1, <1>4 DEF Effect, Covers, Adding
<1> QED
    BY <1>2, <1>3, <1>4

\* The statements that ran, after one more.
LEMMA Ran ==
  ASSUME NEW S, ran \in Seq(S), NEW o \in S, ran' = Append(ran, o)
  PROVE  /\ ran' \in Seq(S) /\ Len(ran) \in Nat /\ Len(ran') = Len(ran) + 1
         /\ \A i \in 1 .. Len(ran) : i \in 1 .. Len(ran') /\ ran'[i] = ran[i] /\ ran[i] \in S
         /\ Len(ran') \in 1 .. Len(ran') /\ ran'[Len(ran')] = o
         /\ \A i \in 1 .. Len(ran') : i \in 1 .. Len(ran) \/ i = Len(ran')
OBVIOUS

LEMMA OrderStays ==
  ASSUME SoundDatabase(db), Running, InOrder, NEW o \in Due, Fresh(o), todo' = todo \ {o},
         ran' = Append(ran, o), db' = Effect(o.op, o.object, o.with), before' = before
  PROVE  InOrder'
<1>1. /\ o \in todo /\ o \in Generated(data) /\ Fit(o) /\ ran \in Seq(Generated(data))
      /\ o.op \in Statements
    BY GeneratedAre DEF Running, Due
<1>2. /\ \A i \in 1 .. Len(ran) : i \in 1 .. Len(ran') /\ ran'[i] = ran[i]
      /\ Len(ran') \in 1 .. Len(ran') /\ ran'[Len(ran')] = o
      /\ \A i \in 1 .. Len(ran') : i \in 1 .. Len(ran) \/ i = Len(ran')
    BY <1>1, Ran
<1>3. ASSUME NEW i \in 1 .. Len(ran'), NEW q \in todo'
      PROVE  Rank(ran'[i]) <= Rank(q)
  <2>1. q \in todo
      BY <1>3
  <2>2. CASE i \in 1 .. Len(ran)
    <3>1. Rank(ran[i]) <= Rank(q)
        BY <2>1, <2>2 DEF InOrder
    <3> QED
        BY <1>2, <2>2, <3>1
  <2>3. CASE i = Len(ran')
    <3>1. Rank(o) <= Rank(q)
        BY <2>1 DEF Due
    <3> QED
        BY <1>2, <2>3, <3>1
  <2> QED
      BY <1>2, <2>2, <2>3
<1>4. ASSUME \A i \in 1 .. Len(ran') : ran'[i].op \in {"create_table", "add_column"}
      PROVE  before \subseteq db'
  <2>1. \A i \in 1 .. Len(ran) : ran[i].op \in {"create_table", "add_column"}
      BY <1>2, <1>4
  <2>2. o.op \in {"create_table", "add_column"}
      BY <1>2, <1>4
  <2>3. before \subseteq db
      BY <2>1 DEF InOrder
  <2>4. db \subseteq db'
      BY <1>1, <2>2, EffectIs DEF Adding
  <2> QED
      BY <2>3, <2>4
<1>5. ASSUME \A i \in 1 .. Len(ran') : ran'[i].op \in {"create_table", "add_column", "drop_unique"},
             NEW k \in db', k.kind \in {"pk", "unique"}
      PROVE  k \in before \/ TableObject(k.table) \notin before
  <2>1. \A i \in 1 .. Len(ran) : ran[i].op \in {"create_table", "add_column", "drop_unique"}
      BY <1>2, <1>5
  <2>2. o.op \in {"create_table", "add_column", "drop_unique"}
      BY <1>2, <1>5
  <2>3. CASE k \in db
      BY <1>5, <2>1, <2>3 DEF InOrder
  <2>4. CASE k \notin db
    <3>1. o.op = "create_table" /\ k.table = o.object.table
        BY <1>1, <1>5, <2>2, <2>4, KeysMade
    <3>2. \A b \in before : b.table # k.table
        BY <3>1 DEF Fresh
    <3>3. TableObject(k.table).table = k.table
        BY TableFields
    <3> QED
        BY <3>2, <3>3
  <2> QED
      BY <2>3, <2>4
<1> QED
    BY <1>3, <1>4, <1>5 DEF InOrder

LEMMA ExecuteUndoes ==
  ASSUME SyncInv, UndoInv, NEW o \in todo, Execute(o)
  PROVE  UndoInv'
<1>1. /\ stage = "running" /\ stage' \in {"running", "done"} /\ o \in Due
      /\ Accepts(o.op, o.object) /\ db' = Effect(o.op, o.object, o.with)
      /\ todo' = todo \ {o} /\ ran' = Append(ran, o) /\ data' = data /\ before' = before
    BY DEF Execute
<1>2. Running /\ InOrder /\ SoundDatabase(db)
    BY <1>1 DEF UndoInv, SyncInv
<1>3. /\ o \in Generated(data) /\ o.op \in Statements /\ ran \in Seq(Generated(data))
      /\ Fit(o) /\ Meant(o)
    BY <1>2, GeneratedAre DEF Running
<1>4. /\ ran' \in Seq(Generated(data)) /\ Len(ran) \in Nat /\ Len(ran') = Len(ran) + 1
      /\ \A i \in 1 .. Len(ran) : i \in 1 .. Len(ran') /\ ran'[i] = ran[i] /\ ran[i] \in Generated(data)
      /\ Len(ran') \in 1 .. Len(ran') /\ ran'[Len(ran')] = o
      /\ \A i \in 1 .. Len(ran') : i \in 1 .. Len(ran) \/ i = Len(ran')
    BY <1>1, <1>3, Ran
<1>5. Fresh(o)
    BY <1>1, <1>2, MadeFresh
<1>6. InOrder'
    BY <1>1, <1>2, <1>5, OrderStays
<1>7. KeysKnown'
    BY <1>1, <1>2, <1>5, KeysStayKnown
<1>8. \A p : Meant(p)' <=> Meant(p)
    BY <1>1 DEF Meant
<1>9. \A p : Fresh(p)' <=> Fresh(p)
    BY <1>1 DEF Fresh
<1>10. \A i \in 1 .. Len(ran') : Fresh(ran'[i])
  <2>1. \A i \in 1 .. Len(ran) : Fresh(ran[i])
      BY <1>2 DEF Running
  <2> QED
      BY <1>4, <1>5, <2>1
<1>11. ASSUME \A p \in Generated(data) : p.op \in Adding
       PROVE  OnlyAdded'
  <2>1. OnlyAdded /\ o.op \in Adding
      BY <1>2, <1>3, <1>11 DEF Running
  <2>2. db \subseteq db'
      BY <1>1, <1>3, <2>1, EffectIs
  <2>3. ASSUME NEW x \in db'
        PROVE  x \in before \/ \E i \in 1 .. Len(ran') : Covers(ran'[i], x)
    <3>1. CASE x \in db
      <4>1. x \in before \/ \E i \in 1 .. Len(ran) : Covers(ran[i], x)
          BY <2>1, <3>1 DEF OnlyAdded
      <4> QED
          BY <1>4, <4>1
    <3>2. CASE x \notin db
      <4>1. Covers(o, x)
          BY <1>1, <1>3, <2>1, <2>3, <3>2, MadeCovered
      <4> QED
          BY <1>4, <4>1
    <3> QED
        BY <3>1, <3>2
  <2>4. \A p, x : Covers(p, x)' <=> Covers(p, x)
      BY DEF Covers
  <2> QED
      BY <1>1, <2>1, <2>2, <2>3, <2>4 DEF OnlyAdded
<1>12. Entangled' <=> Entangled
    BY <1>1 DEF Entangled
<1>13. ASSUME ~Entangled
       PROVE  Untouched'
  <2>1. Untouched
      BY <1>2, <1>13 DEF Running
  <2>2. ASSUME NEW i \in 1 .. Len(ran)
        PROVE  Fit(ran[i]) /\ Fresh(ran[i]) /\ Present(ran[i]) /\ ran[i] \in Generated(data)
      BY <1>2, <1>4, <2>1 DEF Running, Untouched
  <2>3. Present(o)'
      BY <1>1, <1>3, MadePresent
  <2>4. ASSUME NEW i \in 1 .. Len(ran')
        PROVE  Present(ran[i])'
    <3>1. PICK p : p = ran'[i]
        OBVIOUS
    <3>2. Present(p)'
      <4>1. CASE i = Len(ran')
          BY <1>4, <2>3, <3>1, <4>1
      <4>2. CASE i \in 1 .. Len(ran)
        <5>1. p = ran[i]
            BY <1>4, <3>1, <4>2
        <5>2. Fit(p) /\ Fresh(p) /\ Present(p) /\ p \in Generated(data)
            BY <2>2, <4>2, <5>1
        <5> QED
            BY <1>1, <1>2, <1>3, <1>13, <5>2, PresentStays
      <4> QED
          BY <1>4, <4>1, <4>2
    <3> QED
        BY <3>1, <3>2 DEF Present, HasColumn
  <2>5. ASSUME NEW i \in 1 .. Len(ran), ran[i].op \in Adding, o.op \in Adding
        PROVE  ran[i].object # o.object
    <3>1. PICK p : p = ran[i]
        OBVIOUS
    <3>2. Fit(p) /\ Present(p)
        BY <2>2, <3>1
    <3> QED
        BY <1>1, <1>3, <2>5, <3>1, <3>2, MadeOnce
  <2>6. ASSUME NEW i \in 1 .. Len(ran'), NEW j \in 1 .. Len(ran'), i # j,
               ran'[i].op \in Adding, ran'[j].op \in Adding
        PROVE  ran'[i].object # ran'[j].object
    <3>1. CASE i \in 1 .. Len(ran) /\ j \in 1 .. Len(ran)
        BY <1>4, <2>1, <2>6, <3>1 DEF Untouched
    <3>2. CASE i = Len(ran') \/ j = Len(ran')
        BY <1>4, <2>5, <2>6, <3>2
    <3> QED
        BY <1>4, <3>1, <3>2
  <2> QED
      BY <2>4, <2>6 DEF Untouched
<1>14. /\ ran' \in Seq(Generated(data')) /\ todo' \subseteq Generated(data')
       /\ \A p \in Generated(data') :
            Fit(p) /\ Meant(p)' /\ (p.op = "add_fk" => p.object \notin before')
    BY <1>1, <1>2, <1>4, <1>8 DEF Running
<1>15. \A i \in 1 .. Len(ran') : Fresh(ran[i])'
    BY <1>1, <1>10 DEF Fresh
<1>16. Running'
  <2>1. Entangled' \/ Untouched'
      BY <1>12, <1>13
  <2>2. (\A p \in Generated(data') : p.op \in Adding) => OnlyAdded'
      BY <1>1, <1>11
  <2> QED
      BY <1>7, <1>14, <1>15, <2>1, <2>2 DEF Running
<1> QED
    BY <1>1, <1>6, <1>16 DEF UndoInv

\* What is undone was there, and nothing that was there before is part of it.
LEMMA UndoneIs ==
  ASSUME NEW o, o.op \in Adding, NEW e, e = Effect(Undoing(o.op), o.object, {})
  PROVE  /\ e \subseteq db
         /\ \A d \in db : d \in e \/ Covers(o, d)
         /\ \A d \in e : ~Covers(o, d)
<1>1. PICK x : x = o.object
    OBVIOUS
<1>2. CASE o.op = "create_table"
    BY <1>1, <1>2 DEF Effect, Undoing, Covers, Adding
<1>3. CASE o.op = "add_column"
    BY <1>1, <1>3 DEF Effect, Undoing, Covers, Adding, On
<1>4. CASE o.op \in {"add_pk", "add_fk", "add_unique", "create_index", "add_check"}
    BY <1>1, <1>4 DEF Effect, Undoing, Covers, Adding
<1> QED
    BY <1>2, <1>3, <1>4 DEF Adding

\* What an accepted statement does not cover stays.
LEMMA FreshUncovered ==
  ASSUME NEW o, Fresh(o), NEW b \in before
  PROVE  ~Covers(o, b)
BY DEF Fresh, Covers

\* Unless two of the statements are about the same thing, each can be undone.
LEMMA CanBeUndone ==
  ASSUME SoundDatabase(before), KeysKnown, ~Entangled,
         NEW o \in Generated(data), o.op \in Adding, Fit(o), Fresh(o), Present(o),
         \A p \in Generated(data) : Fit(p)
  PROVE  Accepts(Undoing(o.op), o.object)
<1>1. PICK x : x = o.object
    OBVIOUS
<1>2. ASSUME NEW fk \in db, fk.kind = "fk", fk \notin before
      PROVE  fk.ref[1] = x.table => fk = x
  <2>1. PICK p \in Generated(data) : p.op = "add_fk" /\ p.object = fk
      BY <1>2 DEF KeysKnown
  <2>2. fk.ref = <<fk.ref[1], fk.ref[2]>>
      BY <2>1 DEF Fit
  <2>3. fk.ref # <<>>
      BY <2>2
  <2> QED
      BY <1>1, <2>1, <2>3 DEF Entangled
<1>3. ASSUME NEW fk \in db, fk.kind = "fk", fk \in before
      PROVE  \E k \in before \cap db : /\ k.kind \in {"pk", "unique"}
                                       /\ k.table = fk.ref[1] /\ k.on = fk.ref[2]
    BY <1>3 DEF KeysKnown, Keyed
<1>4. CASE o.op = "create_table"
  <2>1. x \in db
      BY <1>1, <1>4 DEF Present, Adding
  <2>2. ASSUME NEW fk \in db, fk.kind = "fk", fk.ref[1] = x.table, fk.table # x.table
        PROVE  FALSE
    <3>1. CASE fk \in before
      <4>1. PICK k \in before : k.table = x.table
          BY <1>3, <2>2, <3>1
      <4> QED
          BY <1>1, <1>4, <4>1 DEF Fresh
    <3>2. CASE fk \notin before
        BY <1>2, <2>2, <3>2
    <3> QED
        BY <3>1, <3>2
  <2> QED
      BY <1>1, <1>4, <2>1, <2>2 DEF Accepts, Undoing
<1>5. CASE o.op = "add_column"
  <2>1. HasColumn(x.table, x.on)
      BY <1>1, <1>5 DEF Present
  <2>2. x.kind = "column"
      BY <1>1, <1>5 DEF Fit
  <2>3. ASSUME NEW fk \in db, fk.kind = "fk", fk.ref = <<x.table, x.on>>
        PROVE  FALSE
    <3>1. fk.ref[1] = x.table /\ fk.ref[2] = x.on
        BY <2>3
    <3>2. CASE fk \in before
      <4>1. PICK k \in before : k.table = x.table /\ k.on = x.on
          BY <1>3, <2>3, <3>1, <3>2
      <4> QED
          BY <1>1, <1>5, <4>1 DEF Fresh
    <3>3. CASE fk \notin before
        BY <1>2, <2>2, <2>3, <3>1, <3>3
    <3> QED
        BY <3>2, <3>3
  <2> QED
      BY <1>1, <1>5, <2>1, <2>3 DEF Accepts, Undoing, Unreferenced
<1>6. CASE o.op \in {"add_pk", "add_unique"}
  <2>1. x \in db /\ x.kind # "fk" /\ x \notin before
      BY <1>1, <1>6 DEF Present, Adding, Fit, Fresh
  <2>2. ASSUME NEW fk \in db, fk.kind = "fk", fk.ref = <<x.table, x.on>>
        PROVE  Keyed(x.table, x.on, db \ {x})
    <3>1. fk.ref[1] = x.table /\ fk.ref[2] = x.on
        BY <2>2
    <3>2. fk \in before
        BY <1>2, <2>1, <2>2, <3>1
    <3>3. PICK k \in before \cap db : k.kind \in {"pk", "unique"} /\ k.table = x.table /\ k.on = x.on
        BY <1>3, <2>2, <3>1, <3>2
    <3> QED
        BY <2>1, <3>3 DEF Keyed
  <2> QED
      BY <1>1, <1>6, <2>1, <2>2 DEF Accepts, Undoing, Unreferenced
<1>7. CASE o.op \in {"add_fk", "create_index", "add_check"}
    BY <1>1, <1>7 DEF Accepts, Undoing, Present, Adding
<1> QED
    BY <1>4, <1>5, <1>6, <1>7 DEF Adding

\* What was made and not undone yet stays.
LEMMA PresentAfterUndo ==
  ASSUME ~Entangled, NEW o \in Generated(data), o.op \in Adding, Fit(o),
         db' = Effect(Undoing(o.op), o.object, {}),
         NEW p \in Generated(data), Fit(p), Present(p),
         p.op \in Adding => p.object # o.object
  PROVE  Present(p)'
<1>1. PICK x, y, e : x = o.object /\ y = p.object /\ e = db'
    OBVIOUS
<1>2. SUFFICES ASSUME p.op \in Adding
               PROVE  /\ p.op = "add_column" =>
                           \E c \in e : c.kind = "column" /\ c.table = y.table /\ c.on = y.on
                      /\ p.op # "add_column" => y \in e
    BY <1>1 DEF Present, HasColumn, Of, Adding
<1>3. /\ p.op = "add_column" => \E c \in db : c.kind = "column" /\ c.table = y.table /\ c.on = y.on
      /\ p.op # "add_column" => y \in db
    BY <1>1, <1>2 DEF Present, HasColumn, Of, Adding
<1>4. /\ x # y
      /\ ~(x.table = y.table /\ x.on = y.on) /\ ~(x.table = y.table /\ x.on = "")
    BY <1>1, <1>2 DEF Entangled
<1>5. \A d \in db : d \in e \/ Covers(o, d)
    BY <1>1, UndoneIs
<1>6. o.op = "create_table" => x.on = ""
  <2>1. SUFFICES ASSUME o.op = "create_table" PROVE x.on = ""
      OBVIOUS
  <2>2. PICK t : x = TableObject(t)
      BY <1>1, <2>1 DEF Fit
  <2> QED
      BY <2>2, TableFields
<1>7. CASE p.op = "add_column"
  <2>1. PICK c \in db : c.kind = "column" /\ c.table = y.table /\ c.on = y.on
      BY <1>3, <1>7
  <2>2. o.op \notin {"create_table", "add_column"} => x.kind # "column"
      BY <1>1 DEF Fit, Adding
  <2>3. ~Covers(o, c)
      BY <1>1, <1>4, <1>6, <2>1, <2>2 DEF Covers
  <2> QED
      BY <1>5, <1>7, <2>1, <2>3
<1>8. CASE p.op # "add_column"
  <2>1. ~Covers(o, y)
      BY <1>1, <1>4, <1>6 DEF Covers
  <2> QED
      BY <1>3, <1>5, <1>8, <2>1
<1> QED
    BY <1>7, <1>8

\* The statements that ran, without the first.
LEMMA Unrun ==
  ASSUME NEW S, ran \in Seq(S), ran # <<>>, ran' = Tail(ran)
  PROVE  /\ ran' \in Seq(S) /\ Head(ran) \in S
         /\ 1 \in 1 .. Len(ran) /\ ran[1] = Head(ran)
         /\ \A i \in 1 .. Len(ran') : i + 1 \in 1 .. Len(ran) /\ ran'[i] = ran[i + 1]
         /\ \A i \in 1 .. Len(ran) : i = 1 \/ (i - 1 \in 1 .. Len(ran') /\ ran[i] = ran'[i - 1])
OBVIOUS

LEMMA UndoUndoes ==
  ASSUME SyncInv, UndoInv, Undo
  PROVE  UndoInv'
<1>1. /\ stage = "undoing" /\ ran # <<>> /\ ran' = Tail(ran)
      /\ data' = data /\ before' = before /\ todo' = todo
    BY DEF Undo
<1>2. Running /\ SoundDatabase(before)
    BY <1>1 DEF UndoInv, SyncInv
<1>3. PICK o : o = Head(ran)
    OBVIOUS
<1>4. /\ ran' \in Seq(Generated(data)) /\ o \in Generated(data)
      /\ 1 \in 1 .. Len(ran) /\ ran[1] = o
      /\ \A i \in 1 .. Len(ran') : i + 1 \in 1 .. Len(ran) /\ ran'[i] = ran[i + 1]
      /\ \A i \in 1 .. Len(ran) : i = 1 \/ (i - 1 \in 1 .. Len(ran') /\ ran[i] = ran'[i - 1])
    BY <1>1, <1>2, <1>3, Unrun DEF Running
<1>5. Fit(o) /\ Fresh(o) /\ o.op \in Statements
    BY <1>2, <1>4, GeneratedAre DEF Running
<1>6. o.op \in Adding <=> Undoing(o.op) # ""
    BY <1>5 DEF Statements, Adding, Dropping, Undoing
<1>7. Entangled' <=> Entangled
    BY <1>1 DEF Entangled
<1>8. CASE stage' = "stuck"
  <2>1. Undoing(o.op) # "" /\ ~Accepts(Undoing(o.op), o.object)
      BY <1>1, <1>3, <1>8 DEF Undo, Down
  <2>2. Entangled
    <3>1. SUFFICES ASSUME ~Entangled PROVE FALSE
        OBVIOUS
    <3>2. Present(o) /\ KeysKnown
        BY <1>2, <1>4, <3>1 DEF Running, Untouched
    <3>3. \A p \in Generated(data) : Fit(p)
        BY <1>2 DEF Running
    <3> QED
        BY <1>2, <1>4, <1>5, <1>6, <2>1, <3>1, <3>2, <3>3, CanBeUndone
  <2> QED
      BY <1>7, <1>8, <2>2 DEF UndoInv
<1>9. CASE stage' # "stuck"
  <2>1. /\ stage' = "undoing"
        /\ \/ o.op \notin Adding /\ db' = db
           \/ o.op \in Adding /\ db' = Effect(Undoing(o.op), o.object, {})
      BY <1>1, <1>3, <1>6, <1>9 DEF Undo, Down
  <2>2. /\ db' \subseteq db
        /\ \A d \in db : d \in db' \/ (o.op \in Adding /\ Covers(o, d))
        /\ \A d \in db' : o.op \in Adding => ~Covers(o, d)
    <3>1. CASE o.op \notin Adding
        BY <2>1, <3>1
    <3>2. CASE o.op \in Adding
        BY <2>1, <3>2, UndoneIs
    <3> QED
        BY <3>1, <3>2
  <2>3. before \cap db' = before \cap db
      BY <1>5, <2>2, FreshUncovered
  <2>4. KeysKnown'
    <3>1. KeysKnown
        BY <1>2 DEF Running
    <3>2. before' \cap db' = before \cap db
        BY <1>1, <2>3
    <3>3. \A fk \in db' : fk.kind = "fk" =>
            fk \in before' \/ \E p \in Generated(data') : p.op = "add_fk" /\ p.object = fk
        BY <1>1, <2>2, <3>1 DEF KeysKnown
    <3>4. \A fk \in before' \cap db' : fk.kind = "fk" => Keyed(fk.ref[1], fk.ref[2], before' \cap db')
        BY <3>1, <3>2 DEF KeysKnown
    <3> QED
        BY <3>3, <3>4 DEF KeysKnown
  <2>5. \A i \in 1 .. Len(ran') : Fresh(ran[i])'
    <3>1. \A p : Fresh(p)' <=> Fresh(p)
        BY <1>1 DEF Fresh
    <3>2. \A i \in 1 .. Len(ran') : Fresh(ran'[i])
        BY <1>2, <1>4 DEF Running
    <3> QED
        BY <1>1, <3>2 DEF Fresh
  <2>6. ASSUME \A p \in Generated(data) : p.op \in Adding
        PROVE  OnlyAdded'
    <3>1. OnlyAdded
        BY <1>2, <2>6 DEF Running
    <3>2. before \subseteq db'
        BY <2>3, <3>1 DEF OnlyAdded
    <3>3. ASSUME NEW x \in db'
          PROVE  x \in before \/ \E i \in 1 .. Len(ran') : Covers(ran'[i], x)
      <4>1. x \in before \/ \E i \in 1 .. Len(ran) : Covers(ran[i], x)
          BY <2>2, <3>1 DEF OnlyAdded
      <4>2. ~Covers(o, x)
          BY <1>4, <2>2, <2>6
      <4> QED
          BY <1>4, <4>1, <4>2
    <3>4. \A p, x : Covers(p, x)' <=> Covers(p, x)
        BY DEF Covers
    <3> QED
        BY <1>1, <3>2, <3>3 DEF OnlyAdded, Covers
  <2>7. ASSUME ~Entangled
        PROVE  Untouched'
    <3>1. Untouched
        BY <1>2, <2>7 DEF Running
    <3>2. ASSUME NEW i \in 1 .. Len(ran')
          PROVE  Present(ran[i])'
      <4>1. PICK p : p = ran'[i]
          OBVIOUS
      <4>2. p = ran[i + 1] /\ i + 1 \in 1 .. Len(ran) /\ i + 1 # 1
          BY <1>4, <4>1
      <4>3. Present(p) /\ (p.op \in Adding /\ o.op \in Adding => p.object # o.object)
          BY <1>4, <3>1, <4>2 DEF Untouched
      <4>4. p \in Generated(data) /\ Fit(p)
          BY <1>2, <1>4, <4>1 DEF Running
      <4>5. Present(p)'
        <5>1. CASE o.op \notin Adding
          <6>1. db' = db
              BY <2>1, <5>1
          <6> QED
              BY <4>3, <6>1 DEF Present, HasColumn
        <5>2. CASE o.op \in Adding
            BY <1>4, <1>5, <2>1, <2>7, <4>3, <4>4, <5>2, PresentAfterUndo
        <5> QED
            BY <5>1, <5>2
      <4> QED
          BY <4>1, <4>5 DEF Present, HasColumn
    <3>3. \A i, j \in 1 .. Len(ran') :
            i # j /\ ran'[i].op \in Adding /\ ran'[j].op \in Adding => ran'[i].object # ran'[j].object
      <4>1. SUFFICES ASSUME NEW i \in 1 .. Len(ran'), NEW j \in 1 .. Len(ran'), i # j,
                            ran'[i].op \in Adding, ran'[j].op \in Adding
                     PROVE  ran'[i].object # ran'[j].object
          OBVIOUS
      <4>2. PICK k \in 1 .. Len(ran), l \in 1 .. Len(ran) :
              k # l /\ ran'[i] = ran[k] /\ ran'[j] = ran[l]
          BY <1>4, <4>1
      <4> QED
          BY <3>1, <4>1, <4>2 DEF Untouched
    <3> QED
        BY <3>2, <3>3 DEF Untouched
  <2>8. /\ todo' \subseteq Generated(data')
        /\ \A p \in Generated(data') :
             Fit(p) /\ Meant(p)' /\ (p.op = "add_fk" => p.object \notin before')
    <3>1. \A p : Meant(p)' <=> Meant(p)
        BY <1>1 DEF Meant
    <3> QED
        BY <1>1, <1>2, <3>1 DEF Running
  <2>9. Running'
    <3>1. Entangled' \/ Untouched'
        BY <1>7, <2>7
    <3>2. (\A p \in Generated(data') : p.op \in Adding) => OnlyAdded'
        BY <1>1, <2>6
    <3>3. ran' \in Seq(Generated(data'))
        BY <1>1, <1>4
    <3> QED
        BY <2>4, <2>5, <2>8, <3>1, <3>2, <3>3 DEF Running
  <2> QED
      BY <2>1, <2>9 DEF UndoInv
<1> QED
    BY <1>8, <1>9

LEMMA CompareUndoes ==
  ASSUME SyncInv, UndoInv, Start \/ \E t \in Tables : Compare(t)
  PROVE  UndoInv'
<1>1. CASE Start
    BY <1>1 DEF Start, UndoInv
<1>2. CASE \E t \in Tables : Compare(t)
  <2>1. PICK t \in Tables : Compare(t)
      BY <1>2
  <2>2. /\ stage = "comparing" /\ stage' = "comparing" /\ ran = <<>> /\ ran' = <<>>
        /\ before' = before /\ db = before /\ data' = data \cup Compared(t) /\ SoundDatabase(db)
        /\ SoundModels(models)
      BY <2>1 DEF Compare, UndoInv, SyncInv
  <2>3. ASSUME NEW o \in data'
        PROVE  Meant(o)
    <3>1. CASE o \in data
        BY <2>2, <3>1 DEF UndoInv
    <3>2. CASE o \in Compared(t)
        BY <2>2, <3>2, ComparedMeant
    <3> QED
        BY <2>2, <3>1, <3>2
  <2>4. \A o : Meant(o)' <=> Meant(o)
      BY <2>2 DEF Meant
  <2> QED
      BY <2>2, <2>3, <2>4 DEF UndoInv
<1> QED
    BY <1>1, <1>2

\* A step that leaves the work of the sync as it is.
LEMMA RestUndoes ==
  ASSUME UndoInv, db' = db, data' = data, todo' = todo, ran' = ran, before' = before,
         stage' = stage \/ (stage = "done" /\ stage' = "undoing")
  PROVE  UndoInv'
<1>1. Running' <=> Running
  <2>1. Entangled' <=> Entangled
      BY DEF Entangled
  <2>2. KeysKnown' <=> KeysKnown
      BY DEF KeysKnown
  <2>3. OnlyAdded' <=> OnlyAdded
      BY DEF OnlyAdded, Covers
  <2>4. Untouched' <=> Untouched
      BY DEF Untouched, Present, HasColumn
  <2>5. \A p : Meant(p)' <=> Meant(p)
      BY DEF Meant
  <2>6. (\A i \in 1 .. Len(ran') : Fresh(ran[i])') <=> (\A i \in 1 .. Len(ran) : Fresh(ran[i]))
      BY DEF Fresh
  <2> QED
      BY <2>1, <2>2, <2>3, <2>4, <2>5, <2>6 DEF Running
<1>2. InOrder' <=> InOrder
    BY DEF InOrder
<1>3. Entangled' <=> Entangled
    BY DEF Entangled
<1>4. \A p : Meant(p)' <=> Meant(p)
    BY DEF Meant
<1> QED
    BY <1>1, <1>2, <1>3, <1>4 DEF UndoInv

\* What a sync did can be undone, unless two of its statements are about the same thing
\* (the order of generateOperations(), migration_operation_generator.ts).
THEOREM UndoInvariant == Spec => []UndoInv
<1>1. Init => UndoInv
    BY DEF Init, UndoInv
<1>2. SyncInv /\ UndoInv /\ [Next]_vars => UndoInv'
  <2>1. SUFFICES ASSUME SyncInv, UndoInv, [Next]_vars PROVE UndoInv'
      OBVIOUS
  <2>2. CASE Start \/ \E t \in Tables : Compare(t)
      BY <2>1, <2>2, CompareUndoes
  <2>3. CASE Generate
      BY <2>1, <2>3, GenerateUndoes
  <2>4. CASE \E o \in todo : Execute(o)
      BY <2>1, <2>4, ExecuteUndoes
  <2>5. CASE (\E o \in todo : Refuse(o)) \/ Interrupt
    <3>1. stage' \in {"refused", "cut"}
        BY <2>5 DEF Refuse, Interrupt
    <3> QED
        BY <3>1 DEF UndoInv
  <2>6. CASE RollBack
    <3>1. /\ db' = db /\ data' = data /\ todo' = todo /\ ran' = ran /\ before' = before
          /\ stage = "done" /\ stage' = "undoing"
        BY <2>6 DEF RollBack
    <3> QED
        BY <2>1, <3>1, RestUndoes
  <2>7. CASE Undo
      BY <2>1, <2>7, UndoUndoes
  <2>8. CASE UNCHANGED vars
    <3>1. /\ db' = db /\ data' = data /\ todo' = todo /\ ran' = ran /\ before' = before
          /\ stage' = stage
        BY <2>8 DEF vars
    <3> QED
        BY <2>1, <3>1, RestUndoes
  <2> QED
      BY <2>1, <2>2, <2>3, <2>4, <2>5, <2>6, <2>7, <2>8 DEF Next
<1> QED
    BY <1>1, <1>2, SyncInvariant, PTL DEF Spec

\* A migration that only adds is undone by its down(), unless one of the additions is
\* part of another or refers to it (generateCode(), migration_code_generator.ts).
THEOREM DownIsUndo == Spec => []DownUndoes
<1>1. UndoInv => DownUndoes
  <2>1. SUFFICES ASSUME UndoInv PROVE DownUndoes
      OBVIOUS
  <2>2. stage = "stuck" => Entangled
      BY <2>1 DEF UndoInv
  <2>3. ASSUME stage = "undoing", ran = <<>>, \A o \in Generated(data) : Undoing(o.op) # ""
        PROVE  db = before
    <3>1. \A o \in Generated(data) : o.op \in Adding
      <4>1. SUFFICES ASSUME NEW o \in Generated(data) PROVE o.op \in Adding
          OBVIOUS
      <4>2. o.op \in Statements /\ Undoing(o.op) # ""
          BY <2>3, GeneratedAre
      <4> QED
          BY <4>2 DEF Statements, Dropping, Undoing, Adding
    <3>2. OnlyAdded
        BY <2>1, <2>3, <3>1 DEF UndoInv, Running
    <3>3. Len(ran) = 0
        BY <2>3
    <3> QED
        BY <3>2, <3>3 DEF OnlyAdded
  <2> QED
      BY <2>2, <2>3 DEF DownUndoes, Entangled
<1> QED
    BY <1>1, UndoInvariant, PTL

-----------------------------------------------------------------------------
(* What the comparison with the schema S finds, and that it misses nothing.   *)

\* What a statement makes; a modified column is made anew.
Makes(p) == IF p.op \in Adding \cup {"modify_column"} THEN {p.object} \cup p.with ELSE {}

HasAt(S, t, c) == \E b \in S : b.kind = "column" /\ b.table = t /\ b.on = c
IsKey(b, t) == b.kind = "fk" /\ b.table = t

\* The key of a side, whatever it is called.
IsSideKey(b, m, s) == IsKey(b, m.ref[1]) /\ b.ref[1] = s[2] /\ b.on = s[1]

\* A key between the tables of a relation that is on the wrong column.
Astray(b, m) == IsKey(b, m.ref[1]) /\ \E s \in Sides(m) : b.ref[1] = s[2] /\ b.on # s[1]

Changed(d, x) ==
  /\ d.kind = "column" /\ d.table = x.table /\ d.on = x.on
  /\ ~SameColumn(d, x) \/ DefaultChanged(d, x)

\* The foreign keys the models ask for, those of a side if it has none.
Asked(x, S) ==
  \/ x \in models /\ x.kind = "fk"
  \/ \E m \in Relations(models) : x = RelationKey(m)
  \/ \E m \in Processed : \E s \in Sides(m) :
       x = SideKey(m, s) /\ ~\E b \in S : IsSideKey(b, m, s)

FoundNew(o, S) ==
  LET x == o.object
      t == x.table
  IN  /\ o.op = "create_table" =>
           /\ \A b \in S : b.table = t => b.kind = "table"
           /\ t \in Tables => o.with = Of(models, "column", t) \cup Of(models, "pk", t)
           /\ t \notin Tables => \E m \in Processed :
                m.ref[1] = t /\ o.with = {KeyColumn(t, s[1], s[2]) : s \in Sides(m)}
      /\ o.op = "add_column" =>
           /\ \E b \in S : b.table = t /\ b.kind # "table"
           /\ t \in Tables => x \in models /\ ~HasAt(S, t, x.on)
           /\ t \notin Tables => \E m \in Processed :
                /\ m.ref[1] = t /\ \E s \in Sides(m) : x = KeyColumn(t, s[1], s[2])
                /\ ~\E b \in S :
                     b.kind = "column" /\ b.table = t /\ b.on = x.on /\ SameColumn(b, x)
      /\ o.op \in {"add_pk", "add_unique", "create_index", "add_check"} => x \in models
      /\ o.op = "add_pk" =>
           /\ \E b \in S : b.table = t /\ b.kind # "table"
           /\ ~\E b \in S : b.kind = "pk" /\ b.table = t
      /\ o.op = "add_unique" =>
           ~\E b \in S : b.kind \in {"unique", "pk"} /\ b.table = t /\ b.name = x.name
      /\ o.op = "create_index" =>
           ~\E b \in S : b.kind \in {"index", "unique", "pk"} /\ b.table = t /\ b.name = x.name
      /\ o.op = "add_check" => ~\E b \in S : b.kind = "check" /\ b.table = t /\ b.name = x.name
      /\ o.op = "add_fk" =>
           /\ Asked(x, S)
           /\ ~\E b \in S : IsKey(b, t) /\ (b.name = x.name \/ Alike(b, x))

FoundOld(o, S) ==
  LET x == o.object
      t == x.table
      asked(kind) == \E y \in models : y.kind = kind /\ y.table = t /\ y.name = x.name
  IN  /\ o.op \in Dropping => x \in S
      /\ o.op \in {"drop_unique", "drop_index", "drop_check"} => t \in Tables
      /\ o.op \in {"drop_unique", "drop_index"} => x.name \notin PkNames
      /\ o.op = "drop_unique" => ~asked("unique")
      /\ o.op = "drop_index" =>
           /\ ~asked("index")
           /\ ~\E b \in S : IsKey(b, t) /\ b.name = x.name
      /\ o.op = "drop_check" => ~asked("check")
      /\ o.op = "drop_column" =>
           /\ t \in Tables => ~HasAt(models, t, x.on)
           /\ t \notin Tables => \E m \in Processed :
                /\ m.ref[1] = t /\ \A s \in Sides(m) : s[1] # x.on
                /\ \E b \in S : IsKey(b, t) /\ b.on = x.on /\ \E s \in Sides(m) : b.ref[1] = s[2]
      /\ o.op = "drop_fk" =>
           /\ t \in Tables => ~\E y \in models : IsKey(y, t) /\ (y.name = x.name \/ Alike(y, x))
           /\ t \notin Tables => \E m \in Processed :
                m.ref[1] = t /\ (~OfItself(t) => Astray(x, m))
      /\ o.op = "modify_column" => t \in Tables /\ x \in models /\ \E d \in S : Changed(d, x)

Found(o, S) ==
  /\ o = [op |-> o.op, object |-> o.object, with |-> o.with]
  /\ o.op # "create_table" => o.with = {}
  /\ FoundNew(o, S)
  /\ FoundOld(o, S)

Made(x, G) == \E p \in G : x \in Makes(p)
Drops(op, x, G) == \E p \in G : p.op = op /\ p.object = x

AllNew(G, S) ==
  /\ \A x \in models :
       /\ x.kind = "column" => HasAt(S, x.table, x.on) \/ Made(x, G)
       /\ x.kind = "pk" => (\E b \in S : b.kind = "pk" /\ b.table = x.table) \/ Made(x, G)
       /\ x.kind = "unique" =>
            \/ \E b \in S : b.kind \in {"unique", "pk"} /\ b.table = x.table /\ b.name = x.name
            \/ Made(x, G)
       /\ x.kind = "index" =>
            \/ \E b \in S :
                 b.kind \in {"index", "unique", "pk"} /\ b.table = x.table /\ b.name = x.name
            \/ Made(x, G)
       /\ x.kind = "check" =>
            (\E b \in S : b.kind = "check" /\ b.table = x.table /\ b.name = x.name) \/ Made(x, G)
       /\ x.kind = "fk" =>
            (\E b \in S : IsKey(b, x.table) /\ (b.name = x.name \/ Alike(b, x))) \/ Made(x, G)
       /\ x.kind = "m2m" /\ (\E b \in S : b.table = x.table /\ b.kind # "table") =>
            LET y == RelationKey(x)
            IN  (\E b \in S : IsKey(b, y.table) /\ (b.name = y.name \/ Alike(b, y))) \/ Made(y, G)
  /\ \A m \in Processed : \A s \in Sides(m) :
       /\ \/ \E b \in S : /\ b.kind = "column" /\ b.table = m.ref[1] /\ b.on = s[1]
                          /\ SameColumn(b, KeyColumn(m.ref[1], s[1], s[2]))
          \/ Made(KeyColumn(m.ref[1], s[1], s[2]), G)
       /\ \/ \E b \in S : IsSideKey(b, m, s)
          \/ \E b \in S : IsKey(b, m.ref[1]) /\ b.name = SideKey(m, s).name
          \/ Made(SideKey(m, s), G)

AllOld(G, S) ==
  /\ \A b \in S : b.table \in Tables =>
       LET asked(kind) == \E y \in models : y.kind = kind /\ y.table = b.table /\ y.name = b.name
       IN  /\ b.kind = "unique" =>
                b.name \in PkNames \/ asked("unique") \/ Drops("drop_unique", b, G)
           /\ b.kind = "index" =>
                \/ b.name \in PkNames \/ asked("index") \/ Drops("drop_index", b, G)
                \/ \E fk \in S : IsKey(fk, b.table) /\ fk.name = b.name
           /\ b.kind = "check" => asked("check") \/ Drops("drop_check", b, G)
           /\ b.kind = "column" => HasAt(models, b.table, b.on) \/ Drops("drop_column", b, G)
           /\ b.kind = "fk" =>
                \/ \E y \in models : IsKey(y, b.table) /\ (y.name = b.name \/ Alike(y, b))
                \/ Drops("drop_fk", b, G)
  /\ \A x \in models : x.kind = "column" =>
       \A d \in S : Changed(d, x) => \E p \in G : p.op = "modify_column" /\ p.object = x
  /\ \A m \in Processed : \A b \in S : IsKey(b, m.ref[1]) /\ (\E s \in Sides(m) : b.ref[1] = s[2]) =>
       /\ (\A s \in Sides(m) : b.on # s[1]) =>
            /\ Drops("drop_fk", b, G)
            /\ \A c \in S : c.kind = "column" /\ c.table = b.table /\ c.on = b.on
                             => Drops("drop_column", c, G)
       /\ ~OfItself(m.ref[1]) /\ Astray(b, m) => Drops("drop_fk", b, G)

-----------------------------------------------------------------------------
(* The work that is done.                                                     *)

Done == Generated(data) \ todo

\* The object y, a column whatever it is like.
Held(y) == IF y.kind = "column" THEN HasColumn(y.table, y.on) ELSE y \in db

Takes(p, y) ==
  \/ p.op \in Dropping \ {"drop_column"} /\ p.object = y
  \/ p.op = "drop_column" /\ p.object.table = y.table /\ p.object.on = y.on

Kept ==
  /\ \A b \in before : Held(b) \/ \E p \in Done : Takes(p, b)
  /\ \A p \in Done : \A y \in Makes(p) : Held(y) \/ \E q \in Done : Takes(q, y)

Gone ==
  \A p \in Done :
    /\ p.op \in Dropping \ {"drop_column"} => p.object \notin db
    /\ p.op = "drop_column" => ~HasColumn(p.object.table, p.object.on)

\* d is y, a column as the database holds it.
Is(d, y) == IF y.kind = "column" THEN d.kind = "column" /\ d = Stored(y, Nullable(d)) ELSE d = y

AsBefore(d) ==
  /\ d \in before
  /\ d.kind = "column" =>
       ~\E p \in Done :
          p.op = "modify_column" /\ p.object.table = d.table /\ p.object.on = d.on

Origin == \A d \in db : AsBefore(d) \/ \E p \in Done : \E y \in Makes(p) : Is(d, y)

Books ==
  /\ \A p \in Done : \A o \in todo : Rank(p) <= Rank(o)
  /\ \A p \in Done : Fresh(p)
  /\ Kept
  /\ Gone
  /\ Origin

SettleInv ==
  /\ stage = "comparing" => compared \subseteq Tables /\ data = UNION {Compared(t) : t \in compared}
  /\ stage = "done" => todo = {}
  /\ stage \in {"running", "done"} =>
       /\ \A o \in Generated(data) : Found(o, before)
       /\ AllNew(Generated(data), before)
       /\ AllOld(Generated(data), before)
       /\ Books
-----------------------------------------------------------------------------
(* What is found, and that nothing is missed.                                 *)

\* What lacks a name, and what getTableSchema() has of a table.
LEMMA LackingIs ==
  ASSUME NEW kinds, NEW found, NEW wanted, NEW x
  PROVE  x \in Lacking(kinds, found, wanted) <=>
           x \in wanted /\ ~\E f \in found : f.kind \in kinds /\ f.name = x.name
BY DEF Lacking, Names

LEMMA HereIs ==
  ASSUME NEW t, NEW b
  PROVE  b \in Here(t) <=>
           b \in db /\ b.table = t /\ b.kind \in {"column", "fk", "pk", "check"}
BY DEF Here, ColumnsHere, KeysHere, PrimaryKeyHere, ChecksHere, Of

\* The fields of an operation.
LEMMA OperationFields ==
  ASSUME NEW op, NEW x, NEW o, o = Operation(op, x)
  PROVE  /\ o.op = op /\ o.object = x /\ o.with = {}
         /\ o = [op |-> o.op, object |-> o.object, with |-> o.with]
BY DEF Operation

LEMMA OneOperation ==
  ASSUME NEW op, NEW S, NEW o \in Operations(op, S)
  PROVE  /\ o.op = op /\ o.object \in S /\ o.with = {}
         /\ o = [op |-> o.op, object |-> o.object, with |-> o.with]
BY DEF Operations, Operation

\* The operations of a table that has columns.
LEMMA DifferenceIs ==
  ASSUME NEW t, NEW o \in Differences(t)
  PROVE  /\ o = [op |-> o.op, object |-> o.object, with |-> o.with] /\ o.with = {}
         /\ \/ o.op = "add_column" /\ o.object \in ColumnsNew(t)
            \/ o.op = "drop_column" /\ o.object \in ColumnsLost(t)
            \/ o.op = "modify_column" /\ o.object \in ColumnsChanged(t)
            \/ o.op = "create_index" /\ o.object \in IndexesNew(t)
            \/ o.op = "drop_index" /\ o.object \in IndexesLost(t)
            \/ o.op = "add_unique" /\ o.object \in UniquesNew(t)
            \/ o.op = "drop_unique" /\ o.object \in UniquesLost(t)
            \/ o.op = "add_check" /\ o.object \in ChecksNew(t)
            \/ o.op = "drop_check" /\ o.object \in ChecksLost(t)
            \/ o.op = "add_fk" /\ o.object \in RelationsNew(t)
            \/ o.op = "drop_fk" /\ o.object \in RelationsLost(t)
            \/ o.op = "modify_fk" /\ o.object \in RelationsChanged(t)
            \/ o.op = "add_pk" /\ o.object \in Of(models, "pk", t) /\ PrimaryKeyHere(t) = {}
            \/ o.op \in {"drop_pk", "modify_pk"}
<1>1. CASE o \in PrimaryKeys(t)
  <2>1. \/ PrimaryKeyHere(t) = {} /\ o \in Operations("add_pk", Of(models, "pk", t))
        \/ o \in Operations("drop_pk", PrimaryKeyHere(t))
        \/ o \in Operations("modify_pk", Of(models, "pk", t) \ PrimaryKeyHere(t))
      BY <1>1 DEF PrimaryKeys
  <2> QED
      BY <2>1, OneOperation
<1>2. CASE o \notin PrimaryKeys(t)
  <2>1. \/ o \in Operations("add_column", ColumnsNew(t))
        \/ o \in Operations("drop_column", ColumnsLost(t))
        \/ o \in Operations("modify_column", ColumnsChanged(t))
        \/ o \in Operations("create_index", IndexesNew(t))
        \/ o \in Operations("drop_index", IndexesLost(t))
        \/ o \in Operations("add_unique", UniquesNew(t))
        \/ o \in Operations("drop_unique", UniquesLost(t))
        \/ o \in Operations("add_check", ChecksNew(t))
        \/ o \in Operations("drop_check", ChecksLost(t))
        \/ o \in Operations("add_fk", RelationsNew(t))
        \/ o \in Operations("drop_fk", RelationsLost(t))
        \/ o \in Operations("modify_fk", RelationsChanged(t))
      BY <1>2 DEF Differences
  <2> QED
      BY <2>1, OneOperation
<1> QED
    BY <1>1, <1>2

\* The operations of a table that has none.
LEMMA NewTableIs ==
  ASSUME NEW t, NEW o \in NewTable(t)
  PROVE  /\ o = [op |-> o.op, object |-> o.object, with |-> o.with]
         /\ \/ /\ o.op = "create_table" /\ o.object = TableObject(t)
               /\ o.with = Of(models, "column", t) \cup Of(models, "pk", t)
            \/ o.op = "create_index" /\ o.object \in Of(models, "index", t) /\ o.with = {}
            \/ o.op = "add_unique" /\ o.object \in Of(models, "unique", t) /\ o.with = {}
            \/ o.op = "add_check" /\ o.object \in Of(models, "check", t) /\ o.with = {}
            \/ o.op = "add_fk" /\ o.object \in Of(models, "fk", t) /\ o.with = {}
<1> DEFINE created == [op |-> "create_table", object |-> TableObject(t),
                       with |-> Of(models, "column", t) \cup Of(models, "pk", t)]
<1>1. \/ o = created
      \/ o \in Operations("create_index", Of(models, "index", t))
      \/ o \in Operations("add_unique", Of(models, "unique", t))
      \/ o \in Operations("add_check", Of(models, "check", t))
      \/ o \in Operations("add_fk", Of(models, "fk", t))
    BY DEF NewTable
<1>2. CASE o = created
    BY <1>2
<1>3. CASE o # created
  <2> HIDE DEF created
  <2> QED
      BY <1>1, <1>3, OneOperation
<1> QED
    BY <1>2, <1>3

\* The operations of a through table.
LEMMA ThroughIs ==
  ASSUME NEW o \in Throughs
  PROVE  \E m \in Processed :
           /\ o = [op |-> o.op, object |-> o.object, with |-> o.with]
           /\ \/ /\ ColumnsHere(m.ref[1]) = {}
                 /\ \/ /\ o.op = "create_table" /\ o.object = TableObject(m.ref[1])
                       /\ o.with = {KeyColumn(m.ref[1], s[1], s[2]) : s \in Sides(m)}
                    \/ o.op = "add_fk" /\ o.with = {} /\ \E s \in Sides(m) : o.object = SideKey(m, s)
              \/ /\ ColumnsHere(m.ref[1]) # {} /\ o.with = {}
                 /\ \/ o.op = "drop_fk" /\ o.object \in Misplaced(m) \cup Conflicting(m)
                    \/ /\ o.op = "drop_column" /\ o.object \in ColumnsHere(m.ref[1])
                       /\ \E fk \in Misplaced(m) : fk.on = o.object.on
                       /\ \A s \in Sides(m) : s[1] # o.object.on
                    \/ /\ o.op = "add_column"
                       /\ \E s \in Sides(m) : o.object = KeyColumn(m.ref[1], s[1], s[2])
                       /\ ~\E d \in ColumnsHere(m.ref[1]) :
                             d.on = o.object.on /\ SameColumn(d, o.object)
                    \/ o.op = "add_fk" /\ \E s \in Keyless(m) : o.object = SideKey(m, s)
<1>1. PICK m \in Processed :
        o \in IF ColumnsHere(m.ref[1]) = {} THEN NewThrough(m) ELSE ThroughChanged(m)
    BY DEF Throughs
<1>2. CASE ColumnsHere(m.ref[1]) = {}
  <2> DEFINE created == [op |-> "create_table", object |-> TableObject(m.ref[1]),
                         with |-> {KeyColumn(m.ref[1], s[1], s[2]) : s \in Sides(m)}]
  <2>1. o = created \/ \E s \in Sides(m) : o = Operation("add_fk", SideKey(m, s))
      BY <1>1, <1>2 DEF NewThrough
  <2>2. CASE o = created
      BY <1>2, <2>2
  <2>3. CASE \E s \in Sides(m) : o = Operation("add_fk", SideKey(m, s))
      BY <1>2, <2>3, OperationFields
  <2> QED
      BY <2>1, <2>2, <2>3
<1>3. CASE ColumnsHere(m.ref[1]) # {}
  <2> DEFINE lost == {fk.on : fk \in Misplaced(m)} \ {s[1] : s \in Sides(m)}
             gone == {c \in ColumnsHere(m.ref[1]) : c.on \in lost}
             added == {c \in {KeyColumn(m.ref[1], s[1], s[2]) : s \in Sides(m)} :
                         ~\E d \in ColumnsHere(m.ref[1]) : d.on = c.on /\ SameColumn(d, c)}
             keys == {SideKey(m, s) : s \in Keyless(m)}
  <2>1. \/ o \in Operations("drop_fk", Misplaced(m) \cup Conflicting(m))
        \/ o \in Operations("drop_column", gone)
        \/ o \in Operations("add_column", added)
        \/ o \in Operations("add_fk", keys)
      BY <1>1, <1>3 DEF ThroughChanged
  <2>2. /\ \A x \in gone : /\ x \in ColumnsHere(m.ref[1])
                            /\ \E fk \in Misplaced(m) : fk.on = x.on
                            /\ \A s \in Sides(m) : s[1] # x.on
        /\ \A x \in added : /\ \E s \in Sides(m) : x = KeyColumn(m.ref[1], s[1], s[2])
                             /\ ~\E d \in ColumnsHere(m.ref[1]) : d.on = x.on /\ SameColumn(d, x)
        /\ \A x \in keys : \E s \in Keyless(m) : x = SideKey(m, s)
      OBVIOUS
  <2> HIDE DEF lost, gone, added, keys
  <2>4. o = [op |-> o.op, object |-> o.object, with |-> o.with] /\ o.with = {}
      BY <2>1, OneOperation
  <2>5. \/ o.op = "drop_fk" /\ o.object \in Misplaced(m) \cup Conflicting(m)
        \/ o.op = "drop_column" /\ o.object \in gone
        \/ o.op = "add_column" /\ o.object \in added
        \/ o.op = "add_fk" /\ o.object \in keys
      BY <2>1, OneOperation
  <2> QED
      BY <1>3, <2>2, <2>4, <2>5
<1> QED
    BY <1>2, <1>3

\* A table without columns has nothing else.
LEMMA EmptyTable ==
  ASSUME SoundDatabase(db), NEW t, ColumnsHere(t) = {}, NEW b \in db, b.table = t
  PROVE  b.kind = "table"
<1>1. b.kind # "table" => \E c \in db : c.kind = "column" /\ c.table = b.table /\ c.on = b.on
    BY DatabaseFacts, Zenon
<1> QED
    BY <1>1 DEF ColumnsHere, Of

\* The operations of a table without columns are what the comparison should find.
LEMMA NewTableFound ==
  ASSUME SoundDatabase(db), NEW t \in Tables, ColumnsHere(t) = {}, NEW o \in NewTable(t)
  PROVE  Found(o, db)
<1>1. \A b \in db : b.table = t => b.kind = "table"
    BY EmptyTable
<1>2. /\ o = [op |-> o.op, object |-> o.object, with |-> o.with]
      /\ o.op # "create_table" => o.with = {}
    BY NewTableIs
<1>3. CASE o.op = "create_table"
  <2>1. /\ o.object = TableObject(t)
        /\ o.with = Of(models, "column", t) \cup Of(models, "pk", t)
      BY <1>3, NewTableIs
  <2>2. o.object.table = t
      BY <2>1, TableFields
  <2> QED
      BY <1>1, <1>2, <1>3, <2>1, <2>2 DEF Found, FoundNew, FoundOld, Dropping
<1>4. CASE o.op # "create_table"
  <2>1. /\ o.op \in {"create_index", "add_unique", "add_check", "add_fk"}
        /\ o.object \in models /\ o.object.table = t
        /\ o.op = "add_fk" => o.object.kind = "fk"
      BY <1>4, NewTableIs DEF Of
  <2>2. FoundNew(o, db)
      BY <1>1, <2>1 DEF FoundNew, Asked, IsKey
  <2>3. FoundOld(o, db)
      BY <2>1 DEF FoundOld, Dropping
  <2> QED
      BY <1>2, <2>2, <2>3 DEF Found
<1> QED
    BY <1>3, <1>4

\* So are those of a table with columns, without the churn.
LEMMA DifferenceFound ==
  ASSUME SoundModels(models), SoundDatabase(db), NEW t \in Tables, ColumnsHere(t) # {},
         NEW o \in Differences(t), o.op \in Statements,
         o.op = "add_fk" =>
           ~\E fk \in KeysHere(o.object.table) : fk.name = o.object.name \/ Alike(fk, o.object),
         o.op = "drop_fk" => ~\E fk \in Of(models, "fk", o.object.table) : Alike(fk, o.object)
  PROVE  Found(o, db)
<1>1. PICK x : x = o.object
    OBVIOUS
<1>2. /\ o = [op |-> o.op, object |-> o.object, with |-> o.with]
      /\ o.op # "create_table" => o.with = {}
    BY DifferenceIs
<1>3. \E b \in db : b.table = t /\ b.kind # "table"
    BY DEF ColumnsHere, Of
<1>4. \A b \in db : b.kind = "column" => b.name = <<b.on>>
    BY DatabaseFacts
<1>5. \A b \in models : b.kind = "column" => b.name = <<b.on>>
    BY ModelFacts
<1>6. CASE o.op = "add_column"
  <2>1. x \in ColumnsNew(t)
      BY <1>1, <1>6, DifferenceIs
  <2>2. /\ x \in models /\ x.kind = "column" /\ x.table = t
        /\ ~\E b \in db : b.kind = "column" /\ b.table = t /\ b.name = x.name
      BY <2>1, LackingIs, HereIs DEF ColumnsNew, Of
  <2>3. ~HasAt(db, t, x.on)
      BY <1>4, <1>5, <2>2 DEF HasAt
  <2> QED
      BY <1>1, <1>2, <1>3, <1>6, <2>2, <2>3 DEF Found, FoundNew, FoundOld, Dropping
<1>7. CASE o.op \in {"create_index", "add_unique", "add_check"}
  <2>1. /\ o.op = "create_index" => x \in IndexesNew(t)
        /\ o.op = "add_unique" => x \in UniquesNew(t)
        /\ o.op = "add_check" => x \in ChecksNew(t)
      BY <1>1, <1>7, DifferenceIs
  <2>2. x \in models /\ x.table = t
      BY <1>7, <2>1, LackingIs, NewNames DEF ChecksNew, Of
  <2>3. o.op = "create_index" =>
          ~\E b \in db : b.kind \in {"index", "unique", "pk"} /\ b.table = t /\ b.name = x.name
      BY <2>1, NewNames
  <2>4. o.op = "add_unique" =>
          ~\E b \in db : b.kind \in {"unique", "pk"} /\ b.table = t /\ b.name = x.name
      BY <2>1, NewNames
  <2>5. o.op = "add_check" => ~\E b \in db : b.kind = "check" /\ b.table = t /\ b.name = x.name
      BY <2>1, LackingIs, HereIs DEF ChecksNew
  <2>6. FoundNew(o, db)
      BY <1>1, <1>7, <2>2, <2>3, <2>4, <2>5 DEF FoundNew
  <2>7. FoundOld(o, db)
      BY <1>7 DEF FoundOld, Dropping
  <2> QED
      BY <1>2, <2>6, <2>7 DEF Found
<1>8. CASE o.op = "add_pk"
  <2>1. x \in models /\ x.table = t /\ ~\E b \in db : b.kind = "pk" /\ b.table = t
      BY <1>1, <1>8, DifferenceIs DEF Of, PrimaryKeyHere
  <2> QED
      BY <1>1, <1>2, <1>3, <1>8, <2>1 DEF Found, FoundNew, FoundOld, Dropping
<1>9. CASE o.op = "add_fk"
  <2>1. x \in RelationsNew(t)
      BY <1>1, <1>9, DifferenceIs
  <2>2. (x \in models /\ x.kind = "fk") \/ \E m \in Relations(models) : x = RelationKey(m)
      BY <2>1, LackingIs DEF RelationsNew, Of, Relations
  <2>3. Asked(x, db)
      BY <2>2 DEF Asked
  <2>4. ~\E b \in db : IsKey(b, x.table) /\ (b.name = x.name \/ Alike(b, x))
      BY <1>1, <1>9 DEF KeysHere, Of, IsKey
  <2> QED
      BY <1>1, <1>2, <1>9, <2>3, <2>4 DEF Found, FoundNew, FoundOld, Dropping
<1>10. CASE o.op \in {"drop_unique", "drop_index", "drop_check"}
  <2>1. /\ o.op = "drop_unique" => x \in UniquesLost(t)
        /\ o.op = "drop_index" => x \in IndexesLost(t)
        /\ o.op = "drop_check" => x \in ChecksLost(t)
      BY <1>1, <1>10, DifferenceIs
  <2>2. /\ x \in db /\ x.table = t
        /\ o.op \in {"drop_unique", "drop_index"} => x.name \notin PkNames
      BY <1>10, <2>1, LackingIs DEF UniquesLost, IndexesLost, ChecksLost, ChecksHere, UniquesHere,
                                   PlainIndexesHere, Listed, Of
  <2>3. o.op = "drop_unique" => ~\E y \in models : y.kind = "unique" /\ y.table = t /\ y.name = x.name
      BY <2>1, LackingIs DEF UniquesLost, There
  <2>4. o.op = "drop_index" =>
          /\ ~\E y \in models : y.kind = "index" /\ y.table = t /\ y.name = x.name
          /\ ~\E b \in db : IsKey(b, t) /\ b.name = x.name
      BY <2>1, LackingIs, HereIs DEF IndexesLost, There, IsKey
  <2>5. o.op = "drop_check" => ~\E y \in models : y.kind = "check" /\ y.table = t /\ y.name = x.name
      BY <2>1, LackingIs DEF ChecksLost, There
  <2>6. FoundNew(o, db)
      BY <1>10 DEF FoundNew
  <2>7. FoundOld(o, db)
      BY <1>1, <1>10, <2>2, <2>3, <2>4, <2>5 DEF FoundOld
  <2> QED
      BY <1>2, <2>6, <2>7 DEF Found
<1>11. CASE o.op = "drop_column"
  <2>1. x \in ColumnsLost(t)
      BY <1>1, <1>11, DifferenceIs
  <2>2. /\ x \in db /\ x.kind = "column" /\ x.table = t
        /\ ~\E y \in models : y.kind = "column" /\ y.table = t /\ y.name = x.name
      BY <2>1, LackingIs DEF ColumnsLost, ColumnsHere, There, Of
  <2>3. ~HasAt(models, t, x.on)
      BY <1>4, <1>5, <2>2 DEF HasAt
  <2> QED
      BY <1>1, <1>2, <1>11, <2>2, <2>3 DEF Found, FoundNew, FoundOld
<1>12. CASE o.op = "drop_fk"
  <2>1. x \in RelationsLost(t)
      BY <1>1, <1>12, DifferenceIs
  <2>2. /\ x \in db /\ x.table = t
        /\ ~\E y \in models : y.kind = "fk" /\ y.table = t /\ y.name = x.name
      BY <2>1, LackingIs DEF RelationsLost, KeysHere, There, Of
  <2>3. ~\E y \in models : y.kind = "fk" /\ y.table = t /\ Alike(y, x)
      BY <1>1, <1>12, <2>2 DEF Of
  <2> QED
      BY <1>1, <1>2, <1>12, <2>2, <2>3 DEF Found, FoundNew, FoundOld, IsKey
<1>13. CASE o.op = "modify_column"
  <2>1. x \in ColumnsChanged(t)
      BY <1>1, <1>13, DifferenceIs
  <2>2. x \in models /\ x.kind = "column" /\ x.table = t
      BY <2>1 DEF ColumnsChanged, Of
  <2>3. PICK d \in db : /\ d.kind = "column" /\ d.table = t /\ d.name = x.name
                        /\ ~SameColumn(d, x) \/ DefaultChanged(d, x)
      BY <2>1 DEF ColumnsChanged, ColumnsHere, Of
  <2>4. d.on = x.on
      BY <1>4, <1>5, <2>2, <2>3
  <2>5. Changed(d, x)
      BY <2>2, <2>3, <2>4 DEF Changed
  <2>6. FoundNew(o, db)
      BY <1>13 DEF FoundNew
  <2>7. FoundOld(o, db)
      BY <1>1, <1>13, <2>2, <2>3, <2>5 DEF FoundOld, Dropping
  <2> QED
      BY <1>2, <2>6, <2>7 DEF Found
<1> QED
    BY <1>6, <1>7, <1>8, <1>9, <1>10, <1>11, <1>12, <1>13, DifferenceIs
       DEF Statements, Adding, Dropping

\* A key that goes is one that is astray, but when both sides are one model.
LEMMA GoneIsAstray ==
  ASSUME NEW m \in models, m.kind = "m2m", NEW x \in Misplaced(m) \cup Conflicting(m),
         ~OfItself(m.ref[1])
  PROVE  Astray(x, m)
<1>1. m.ref[2] # m.table
    BY DEF OfItself
<1>2. IsKey(x, m.ref[1])
    BY ThroughKeysGone DEF KeysHere, Of, IsKey
<1>3. CASE \E s \in Sides(m) : x.ref[1] = s[2] /\ x.on # s[1]
    BY <1>2, <1>3 DEF Astray
<1>4. CASE \E s \in Sides(m) : /\ x.ref[1] = s[2]
                               /\ x.on # IF x.ref[1] = m.table THEN Left(m)[1] ELSE Right(m)[1]
  <2>1. PICK s \in Sides(m) : /\ x.ref[1] = s[2]
                              /\ x.on # IF x.ref[1] = m.table THEN Left(m)[1] ELSE Right(m)[1]
      BY <1>4
  <2>2. PICK left, right : left = Left(m) /\ right = Right(m)
      OBVIOUS
  <2>3. s = left \/ s = right
      BY <2>2, SidesAre
  <2>4. left[2] = m.table /\ right[2] = m.ref[2]
      BY <2>2, SideFields
  <2>5. x.on # s[1]
      BY <1>1, <2>1, <2>2, <2>3, <2>4
  <2> QED
      BY <1>2, <2>1, <2>5 DEF Astray
<1> QED
    BY <1>3, <1>4, ThroughKeysGone

\* So are those of a through table.
LEMMA ThroughFound ==
  ASSUME SoundModels(models), SoundDatabase(db), NEW o \in Throughs,
         o.op = "add_fk" =>
           ~\E fk \in KeysHere(o.object.table) : fk.name = o.object.name \/ Alike(fk, o.object)
  PROVE  Found(o, db)
<1>1. PICK x : x = o.object
    OBVIOUS
<1>2. PICK m \in Processed :
        /\ o = [op |-> o.op, object |-> o.object, with |-> o.with]
        /\ \/ /\ ColumnsHere(m.ref[1]) = {}
              /\ \/ /\ o.op = "create_table" /\ o.object = TableObject(m.ref[1])
                    /\ o.with = {KeyColumn(m.ref[1], s[1], s[2]) : s \in Sides(m)}
                 \/ o.op = "add_fk" /\ o.with = {} /\ \E s \in Sides(m) : o.object = SideKey(m, s)
           \/ /\ ColumnsHere(m.ref[1]) # {} /\ o.with = {}
              /\ \/ o.op = "drop_fk" /\ o.object \in Misplaced(m) \cup Conflicting(m)
                 \/ /\ o.op = "drop_column" /\ o.object \in ColumnsHere(m.ref[1])
                    /\ \E fk \in Misplaced(m) : fk.on = o.object.on
                    /\ \A s \in Sides(m) : s[1] # o.object.on
                 \/ /\ o.op = "add_column"
                    /\ \E s \in Sides(m) : o.object = KeyColumn(m.ref[1], s[1], s[2])
                    /\ ~\E d \in ColumnsHere(m.ref[1]) :
                          d.on = o.object.on /\ SameColumn(d, o.object)
                 \/ o.op = "add_fk" /\ \E s \in Keyless(m) : o.object = SideKey(m, s)
    BY ThroughIs
<1>3. PICK t : t = m.ref[1]
    OBVIOUS
<1>4. m \in models /\ m.kind = "m2m" /\ t \notin Tables
    BY <1>3, ProcessedAre
<1>5. o.op \in {"create_table", "add_fk", "drop_fk", "drop_column", "add_column"}
    BY <1>2
<1>6. CASE o.op = "create_table"
  <2>1. /\ ColumnsHere(t) = {} /\ o.object = TableObject(t)
        /\ o.with = {KeyColumn(t, s[1], s[2]) : s \in Sides(m)}
      BY <1>2, <1>3, <1>6
  <2>2. o.object.table = t
      BY <2>1, TableFields
  <2>3. \A b \in db : b.table = t => b.kind = "table"
      BY <2>1, EmptyTable
  <2>4. FoundNew(o, db)
      BY <1>3, <1>4, <1>6, <2>1, <2>2, <2>3 DEF FoundNew
  <2>5. FoundOld(o, db)
      BY <1>6 DEF FoundOld, Dropping
  <2> QED
      BY <1>2, <1>6, <2>4, <2>5 DEF Found
<1>7. CASE o.op = "add_fk"
  <2>1. PICK s \in Sides(m) : x = SideKey(m, s) /\ (ColumnsHere(t) = {} \/ s \in Keyless(m))
      BY <1>1, <1>2, <1>3, <1>7 DEF Keyless
  <2>2. x.table = t
      BY <1>3, <2>1, SideKeyFields
  <2>3. ~\E b \in db : IsSideKey(b, m, s)
    <3>1. CASE ColumnsHere(t) = {}
        BY <1>3, <3>1, EmptyTable DEF IsSideKey, IsKey
    <3>2. CASE s \in Keyless(m)
        BY <1>3, <3>2 DEF Keyless, KeysOf, KeysHere, Of, IsSideKey, IsKey
    <3> QED
        BY <2>1, <3>1, <3>2
  <2>4. Asked(x, db)
      BY <2>1, <2>3 DEF Asked
  <2>5. ~\E b \in db : IsKey(b, x.table) /\ (b.name = x.name \/ Alike(b, x))
      BY <1>1, <1>7 DEF KeysHere, Of, IsKey
  <2>6. FoundNew(o, db)
      BY <1>1, <1>7, <2>4, <2>5 DEF FoundNew
  <2>7. FoundOld(o, db)
      BY <1>7 DEF FoundOld, Dropping
  <2>8. o.with = {}
      BY <1>2, <1>7
  <2> QED
      BY <1>2, <2>6, <2>7, <2>8 DEF Found
<1>8. CASE o.op = "drop_fk"
  <2>1. x \in Misplaced(m) \cup Conflicting(m) /\ o.with = {}
      BY <1>1, <1>2, <1>8
  <2>2. x \in db /\ x.table = t
      BY <1>3, <2>1, ThroughKeysGone DEF KeysHere, Of
  <2>3. ~OfItself(t) => Astray(x, m)
      BY <1>3, <1>4, <2>1, GoneIsAstray
  <2>4. FoundNew(o, db)
      BY <1>8 DEF FoundNew
  <2>5. FoundOld(o, db)
      BY <1>1, <1>3, <1>4, <1>8, <2>2, <2>3 DEF FoundOld
  <2> QED
      BY <1>2, <2>1, <2>4, <2>5 DEF Found
<1>9. CASE o.op = "drop_column"
  <2>1. /\ x \in ColumnsHere(t) /\ o.with = {}
        /\ \E fk \in Misplaced(m) : fk.on = x.on
        /\ \A s \in Sides(m) : s[1] # x.on
      BY <1>1, <1>2, <1>3, <1>9
  <2>2. x \in db /\ x.table = t
      BY <2>1 DEF ColumnsHere, Of
  <2>3. \E b \in db : IsKey(b, t) /\ b.on = x.on /\ \E s \in Sides(m) : b.ref[1] = s[2]
      BY <1>3, <2>1 DEF Misplaced, KeysOf, KeysHere, Of, IsKey
  <2>4. FoundNew(o, db)
      BY <1>9 DEF FoundNew
  <2>5. FoundOld(o, db)
      BY <1>1, <1>3, <1>4, <1>9, <2>1, <2>2, <2>3 DEF FoundOld
  <2> QED
      BY <1>2, <2>1, <2>4, <2>5 DEF Found
<1>10. CASE o.op = "add_column"
  <2>1. /\ ColumnsHere(t) # {} /\ o.with = {}
        /\ \E s \in Sides(m) : x = KeyColumn(t, s[1], s[2])
        /\ ~\E d \in ColumnsHere(t) : d.on = x.on /\ SameColumn(d, x)
      BY <1>1, <1>2, <1>3, <1>10
  <2>2. x.table = t
      BY <2>1, KeyColumnFields
  <2>3. \E b \in db : b.table = t /\ b.kind # "table"
      BY <2>1 DEF ColumnsHere, Of
  <2>4. ~\E b \in db : b.kind = "column" /\ b.table = t /\ b.on = x.on /\ SameColumn(b, x)
      BY <2>1 DEF ColumnsHere, Of
  <2>5. FoundNew(o, db)
      BY <1>1, <1>3, <1>4, <1>10, <2>1, <2>2, <2>3, <2>4 DEF FoundNew
  <2>6. FoundOld(o, db)
      BY <1>10 DEF FoundOld, Dropping
  <2> QED
      BY <1>2, <2>1, <2>5, <2>6 DEF Found
<1> QED
    BY <1>5, <1>6, <1>7, <1>8, <1>9, <1>10

\* Everything the models and the database differ in.
AllOperations == (UNION {Compared(t) : t \in Tables}) \cup Throughs

\* So is every statement that is generated.
LEMMA GeneratedFound ==
  ASSUME SoundModels(models), SoundDatabase(db), NEW o \in Generated(WithoutChurn(AllOperations))
  PROVE  Found(o, db)
<1>1. PICK found : found = WithoutChurn(AllOperations)
    OBVIOUS
<1>2. o \in found /\ o.op \in Statements
    BY <1>1, GeneratedAre
<1>3. /\ o \in AllOperations
      /\ o.op = "add_fk" =>
           ~\E fk \in KeysHere(o.object.table) : fk.name = o.object.name \/ Alike(fk, o.object)
      /\ o.op = "drop_fk" => ~\E fk \in Of(models, "fk", o.object.table) : Alike(fk, o.object)
    BY <1>1, <1>2 DEF WithoutChurn
<1>4. CASE o \in Throughs
    BY <1>3, <1>4, ThroughFound
<1>5. CASE \E t \in Tables : o \in Compared(t)
  <2>1. PICK t \in Tables : o \in Compared(t)
      BY <1>5
  <2>2. CASE ColumnsHere(t) = {}
      BY <2>1, <2>2, NewTableFound DEF Compared
  <2>3. CASE ColumnsHere(t) # {}
      BY <1>2, <1>3, <2>1, <2>3, DifferenceFound DEF Compared
  <2> QED
      BY <2>2, <2>3
<1>6. o \in Throughs \/ \E t \in Tables : o \in Compared(t)
    BY <1>3 DEF AllOperations
<1> QED
    BY <1>4, <1>5, <1>6

\* Every statement has its place.
LEMMA InTheOrder ==
  ASSUME NEW op \in Statements
  PROVE  \E i \in DOMAIN Order : Order[i] = op
<1>1. PICK order : order = Order
    OBVIOUS
<1>2. /\ DOMAIN order = 1..13
      /\ order[1] = "create_table" /\ order[2] = "add_column" /\ order[3] = "drop_unique"
      /\ order[4] = "drop_index" /\ order[5] = "add_pk" /\ order[6] = "add_fk"
      /\ order[7] = "add_unique" /\ order[8] = "create_index" /\ order[9] = "drop_check"
      /\ order[10] = "add_check" /\ order[11] = "drop_fk" /\ order[12] = "drop_column"
      /\ order[13] = "modify_column"
    BY <1>1, OrderIs, Zenon
<1>3. \E i \in 1..13 : order[i] = op
    BY <1>2 DEF Statements, Adding, Dropping
<1> QED
    BY <1>1, <1>2, <1>3

\* The keys that are dropped are there.
LEMMA DroppedKeys ==
  ASSUME NEW o \in AllOperations, o.op = "drop_fk"
  PROVE  o.object \in KeysHere(o.object.table)
<1>1. CASE o \in Throughs
  <2>1. PICK m \in Processed : o.object \in Misplaced(m) \cup Conflicting(m)
      BY <1>1, ThroughIs
  <2>2. PICK x : x = o.object
      OBVIOUS
  <2>3. x \in KeysHere(m.ref[1])
      BY <2>1, <2>2, ThroughKeysGone
  <2> QED
      BY <2>2, <2>3 DEF KeysHere, Of
<1>2. CASE \E t \in Tables : o \in Compared(t)
  <2>1. PICK t \in Tables : o \in Compared(t)
      BY <1>2
  <2>2. o \notin NewTable(t)
      BY NewTableIs
  <2>3. o.object \in RelationsLost(t)
      BY <2>1, <2>2, DifferenceIs DEF Compared
  <2> QED
      BY <2>3, LackingIs DEF RelationsLost, KeysHere, Of
<1>3. o \in Throughs \/ \E t \in Tables : o \in Compared(t)
    BY DEF AllOperations
<1> QED
    BY <1>1, <1>2, <1>3

\* What the removal of churn leaves becomes a statement.
LEMMA Survives ==
  ASSUME NEW o \in AllOperations, o.op \in Statements,
         o.op = "add_fk" =>
           ~\E fk \in KeysHere(o.object.table) : fk.name = o.object.name \/ Alike(fk, o.object),
         o.op = "drop_fk" => ~\E fk \in Of(models, "fk", o.object.table) : Alike(fk, o.object)
  PROVE  o \in Generated(WithoutChurn(AllOperations))
<1>1. PICK found : found = WithoutChurn(AllOperations)
    OBVIOUS
<1>2. o \in found
    BY <1>1 DEF WithoutChurn
<1>3. ASSUME NEW a \in found, NEW d \in found, a.op = "add_fk", d.op = "drop_fk",
             a.object.table = d.object.table, a.object.name = d.object.name
      PROVE  FALSE
  <2>1. ~\E fk \in KeysHere(a.object.table) : fk.name = a.object.name
      BY <1>1, <1>3 DEF WithoutChurn
  <2>2. d \in AllOperations
      BY <1>1 DEF WithoutChurn
  <2>3. d.object \in KeysHere(a.object.table)
      BY <1>3, <2>2, DroppedKeys
  <2> QED
      BY <1>3, <2>1, <2>3
<1>4. \E i \in DOMAIN Order : Order[i] = o.op
    BY InTheOrder
<1> QED
    BY <1>1, <1>2, <1>3, <1>4 DEF Generated

\* What is not about a foreign key is always generated.
LEMMA SurvivesPlainly ==
  ASSUME NEW t \in Tables, NEW op \in Statements \ {"add_fk", "drop_fk"}, NEW x,
         Operation(op, x) \in Compared(t)
  PROVE  Operation(op, x) \in Generated(WithoutChurn(AllOperations))
<1>1. PICK o : o = Operation(op, x)
    OBVIOUS
<1>2. o \in AllOperations /\ o.op = op
    BY <1>1, OperationFields DEF AllOperations
<1> QED
    BY <1>1, <1>2, Survives

\* The operations of a table that has columns.
LEMMA InDifferences ==
  ASSUME NEW t, ColumnsHere(t) # {}, NEW x
  PROVE  /\ x \in ColumnsNew(t) => Operation("add_column", x) \in Compared(t)
         /\ x \in ColumnsLost(t) => Operation("drop_column", x) \in Compared(t)
         /\ x \in ColumnsChanged(t) => Operation("modify_column", x) \in Compared(t)
         /\ x \in IndexesNew(t) => Operation("create_index", x) \in Compared(t)
         /\ x \in IndexesLost(t) => Operation("drop_index", x) \in Compared(t)
         /\ x \in UniquesNew(t) => Operation("add_unique", x) \in Compared(t)
         /\ x \in UniquesLost(t) => Operation("drop_unique", x) \in Compared(t)
         /\ x \in ChecksNew(t) => Operation("add_check", x) \in Compared(t)
         /\ x \in ChecksLost(t) => Operation("drop_check", x) \in Compared(t)
         /\ x \in RelationsNew(t) => Operation("add_fk", x) \in Compared(t)
         /\ x \in RelationsLost(t) => Operation("drop_fk", x) \in Compared(t)
         /\ (x \in Of(models, "pk", t) /\ PrimaryKeyHere(t) = {}) =>
              Operation("add_pk", x) \in Compared(t)
<1>1. \A op, S : x \in S => Operation(op, x) \in Operations(op, S)
    BY DEF Operations
<1>2. PrimaryKeyHere(t) = {} => PrimaryKeys(t) = Operations("add_pk", Of(models, "pk", t))
    BY DEF PrimaryKeys
<1>3. Compared(t) = Differences(t)
    BY DEF Compared
<1> QED
    BY <1>1, <1>2, <1>3 DEF Differences

\* So do the operations of a table without columns.
LEMMA InNewTable ==
  ASSUME NEW t, ColumnsHere(t) = {}, NEW x
  PROVE  /\ x \in Of(models, "index", t) => Operation("create_index", x) \in Compared(t)
         /\ x \in Of(models, "unique", t) => Operation("add_unique", x) \in Compared(t)
         /\ x \in Of(models, "check", t) => Operation("add_check", x) \in Compared(t)
         /\ x \in Of(models, "fk", t) => Operation("add_fk", x) \in Compared(t)
         /\ [op |-> "create_table", object |-> TableObject(t),
             with |-> Of(models, "column", t) \cup Of(models, "pk", t)] \in Compared(t)
<1>1. \A op, S : x \in S => Operation(op, x) \in Operations(op, S)
    BY DEF Operations
<1>2. Compared(t) = NewTable(t)
    BY DEF Compared
<1> QED
    BY <1>1, <1>2 DEF NewTable

\* What a relation asks for.
LEMMA RelationKeyFields ==
  ASSUME NEW m, NEW o, o = RelationKey(m)
  PROVE  /\ o.kind = "fk" /\ o.table = m.ref[1] /\ o.name = m.name /\ o.on = m.on
         /\ o.ref = <<m.table, Pk(m.table)>> /\ o.def = m.def
         /\ o = Object(o.kind, o.table, o.name, o.on, o.ref, o.def)
<1>1. o = Object("fk", m.ref[1], m.name, m.on, <<m.table, Pk(m.table)>>, m.def)
    BY DEF RelationKey, ForeignKey
<1> QED
    BY <1>1, ObjectFields

\* What is added is made.
LEMMA MadeBy ==
  ASSUME NEW G, NEW op \in Adding \cup {"modify_column"}, NEW x, Operation(op, x) \in G
  PROVE  Made(x, G)
<1>1. PICK o : o = Operation(op, x)
    OBVIOUS
<1>2. o.op = op /\ o.object = x
    BY <1>1, OperationFields
<1> QED
    BY <1>1, <1>2 DEF Made, Makes

\* A foreign key that is asked for is added, unless the database has one like it.
LEMMA KeyMade ==
  ASSUME NEW x, x.kind = "fk", Operation("add_fk", x) \in AllOperations,
         ~\E b \in db : IsKey(b, x.table) /\ (b.name = x.name \/ Alike(b, x))
  PROVE  Made(x, Generated(WithoutChurn(AllOperations)))
<1>1. PICK o : o = Operation("add_fk", x)
    OBVIOUS
<1>2. o.op = "add_fk" /\ o.object = x
    BY <1>1, OperationFields
<1>3. ~\E fk \in KeysHere(x.table) : fk.name = x.name \/ Alike(fk, x)
    BY DEF KeysHere, Of, IsKey
<1>4. o \in Generated(WithoutChurn(AllOperations))
    BY <1>1, <1>2, <1>3, Survives DEF Statements, Adding
<1> QED
    BY <1>1, <1>4, MadeBy DEF Adding

\* A table of the models that has no column is created with all it has.
LEMMA MadeWithTable ==
  ASSUME SoundModels(models), SoundDatabase(db), NEW G, G = Generated(WithoutChurn(AllOperations)),
         NEW x \in models, ColumnsHere(x.table) = {}
  PROVE  /\ x.kind \in {"column", "pk", "index", "unique", "check"} => Made(x, G)
         /\ x.kind = "fk" =>
              (\E b \in db : IsKey(b, x.table) /\ (b.name = x.name \/ Alike(b, x))) \/ Made(x, G)
<1>1. PICK t \in Tables : t = x.table
    BY ModelTables
<1>2. CASE x.kind \in {"column", "pk"}
  <2>1. PICK o : o = [op |-> "create_table", object |-> TableObject(t),
                      with |-> Of(models, "column", t) \cup Of(models, "pk", t)]
      OBVIOUS
  <2>2. /\ o.op = "create_table" /\ o.with = Of(models, "column", t) \cup Of(models, "pk", t)
      BY <2>1
  <2>3. o \in Compared(t)
      BY <1>1, <2>1, InNewTable
  <2>4. o \in AllOperations
      BY <2>3 DEF AllOperations
  <2>5. o \in G
      BY <2>2, <2>4, Survives DEF Statements, Adding
  <2>6. x \in Of(models, "column", t) \cup Of(models, "pk", t)
      BY <1>1, <1>2 DEF Of
  <2>7. x \in Makes(o)
      BY <2>2, <2>6 DEF Makes, Adding
  <2> QED
      BY <1>2, <2>5, <2>7 DEF Made
<1>3. CASE x.kind \in {"index", "unique", "check"}
  <2>1. PICK op \in {"create_index", "add_unique", "add_check"} : Operation(op, x) \in Compared(t)
      BY <1>1, <1>3, InNewTable DEF Of
  <2>2. op \in Adding /\ op \in Statements \ {"add_fk", "drop_fk"}
      BY DEF Statements, Adding
  <2>3. Operation(op, x) \in G
      BY <2>1, <2>2, SurvivesPlainly
  <2> QED
      BY <1>3, <2>2, <2>3, MadeBy
<1>4. CASE x.kind = "fk"
  <2>1. Operation("add_fk", x) \in Compared(t)
      BY <1>1, <1>4, InNewTable DEF Of
  <2>2. Operation("add_fk", x) \in AllOperations
      BY <2>1 DEF AllOperations
  <2> QED
      BY <1>4, <2>2, KeyMade
<1> QED
    BY <1>2, <1>3, <1>4

\* What a table lacks that has columns is made.
LEMMA MadeInTable ==
  ASSUME SoundModels(models), SoundDatabase(db), NEW G, G = Generated(WithoutChurn(AllOperations)),
         NEW x \in models, ColumnsHere(x.table) # {}
  PROVE  /\ x.kind = "column" => HasAt(db, x.table, x.on) \/ Made(x, G)
         /\ x.kind = "pk" => (\E b \in db : b.kind = "pk" /\ b.table = x.table) \/ Made(x, G)
         /\ x.kind = "unique" =>
              \/ \E b \in db : b.kind \in {"unique", "pk"} /\ b.table = x.table /\ b.name = x.name
              \/ Made(x, G)
         /\ x.kind = "index" =>
              \/ \E b \in db :
                   b.kind \in {"index", "unique", "pk"} /\ b.table = x.table /\ b.name = x.name
              \/ Made(x, G)
         /\ x.kind = "check" =>
              (\E b \in db : b.kind = "check" /\ b.table = x.table /\ b.name = x.name) \/ Made(x, G)
<1>1. PICK t \in Tables : t = x.table
    BY ModelTables
<1>2. ASSUME NEW op \in Adding \ {"add_fk"}, Operation(op, x) \in Compared(t)
      PROVE  Made(x, G)
  <2>1. op \in Statements \ {"add_fk", "drop_fk"}
      BY <1>2 DEF Statements, Adding
  <2>2. Operation(op, x) \in G
      BY <1>2, <2>1, SurvivesPlainly
  <2> QED
      BY <1>2, <2>2, MadeBy
<1>3. {"add_column", "add_pk", "add_unique", "create_index", "add_check"} \subseteq Adding \ {"add_fk"}
    BY DEF Adding
<1>4. \A kind : x.kind = kind => x \in Of(models, kind, t)
    BY <1>1 DEF Of
<1>5. ASSUME x.kind = "column", ~HasAt(db, t, x.on)
      PROVE  Made(x, G)
  <2>1. /\ x.name = <<x.on>>
        /\ \A b \in db : b.kind = "column" => b.name = <<b.on>>
      BY <1>5, ModelFacts, DatabaseFacts, Zenon
  <2>2. ~\E f \in Here(t) : f.kind \in {"column"} /\ f.name = x.name
      BY <1>5, <2>1, HereIs DEF HasAt
  <2>3. x \in ColumnsNew(t)
      BY <1>4, <1>5, <2>2, LackingIs DEF ColumnsNew
  <2> QED
      BY <1>1, <1>2, <1>3, <2>3, InDifferences
<1>6. ASSUME x.kind = "pk", ~\E b \in db : b.kind = "pk" /\ b.table = t
      PROVE  Made(x, G)
  <2>1. PrimaryKeyHere(t) = {}
      BY <1>6 DEF PrimaryKeyHere, Of
  <2> QED
      BY <1>1, <1>2, <1>3, <1>4, <1>6, <2>1, InDifferences
<1>7. ASSUME x.kind = "unique",
             ~\E b \in db : b.kind \in {"unique", "pk"} /\ b.table = t /\ b.name = x.name
      PROVE  Made(x, G)
  <2>1. x \in UniquesNew(t)
      BY <1>1, <1>7, NewNames
  <2> QED
      BY <1>1, <1>2, <1>3, <2>1, InDifferences
<1>8. ASSUME x.kind = "index",
             ~\E b \in db : b.kind \in {"index", "unique", "pk"} /\ b.table = t /\ b.name = x.name
      PROVE  Made(x, G)
  <2>1. x \in IndexesNew(t)
      BY <1>1, <1>8, NewNames
  <2> QED
      BY <1>1, <1>2, <1>3, <2>1, InDifferences
<1>9. ASSUME x.kind = "check", ~\E b \in db : b.kind = "check" /\ b.table = t /\ b.name = x.name
      PROVE  Made(x, G)
  <2>1. x \in ChecksNew(t)
      BY <1>4, <1>9, LackingIs, HereIs DEF ChecksNew
  <2> QED
      BY <1>1, <1>2, <1>3, <2>1, InDifferences
<1> QED
    BY <1>1, <1>5, <1>6, <1>7, <1>8, <1>9

\* So are its foreign keys, and the left keys of its relations.
LEMMA KeysMadeInTable ==
  ASSUME SoundModels(models), SoundDatabase(db), NEW G, G = Generated(WithoutChurn(AllOperations)),
         NEW x \in models, ColumnsHere(x.table) # {}
  PROVE  /\ x.kind = "fk" =>
              (\E b \in db : IsKey(b, x.table) /\ (b.name = x.name \/ Alike(b, x))) \/ Made(x, G)
         /\ x.kind = "m2m" =>
              LET y == RelationKey(x)
              IN  (\E b \in db : IsKey(b, y.table) /\ (b.name = y.name \/ Alike(b, y))) \/ Made(y, G)
<1>1. PICK t \in Tables : t = x.table
    BY ModelTables
<1>2. ASSUME NEW y, y.kind = "fk", y \in RelationsNew(t),
             ~\E b \in db : IsKey(b, y.table) /\ (b.name = y.name \/ Alike(b, y))
      PROVE  Made(y, G)
  <2>1. Operation("add_fk", y) \in Compared(t)
      BY <1>1, <1>2, InDifferences
  <2>2. Operation("add_fk", y) \in AllOperations
      BY <2>1 DEF AllOperations
  <2> QED
      BY <1>2, <2>2, KeyMade
<1>3. ASSUME x.kind = "fk", ~\E b \in db : IsKey(b, x.table) /\ (b.name = x.name \/ Alike(b, x))
      PROVE  Made(x, G)
  <2>1. ~\E f \in Here(t) : f.kind \in {"fk"} /\ f.name = x.name
      BY <1>1, <1>3, HereIs DEF IsKey
  <2>2. x \in RelationsNew(t)
      BY <1>1, <1>3, <2>1, LackingIs DEF RelationsNew, Of
  <2> QED
      BY <1>2, <1>3, <2>2
<1>4. ASSUME x.kind = "m2m", NEW y, y = RelationKey(x),
             ~\E b \in db : IsKey(b, y.table) /\ (b.name = y.name \/ Alike(b, y))
      PROVE  Made(y, G)
  <2>1. y \in RelationsNew(t)
      BY <1>1, <1>4 DEF RelationsNew, Of
  <2>2. y.kind = "fk"
      BY <1>4, RelationKeyFields
  <2> QED
      BY <1>2, <1>4, <2>1, <2>2
<1> QED
    BY <1>3, <1>4

\* What a statement that is found drops or changes.
LEMMA StatementFound ==
  ASSUME NEW G, NEW op, NEW x, Operation(op, x) \in G
  PROVE  Drops(op, x, G) /\ \E p \in G : p.op = op /\ p.object = x
<1>1. PICK o : o = Operation(op, x)
    OBVIOUS
<1>2. o.op = op /\ o.object = x
    BY <1>1, OperationFields
<1> QED
    BY <1>1, <1>2 DEF Drops

\* The operations of a through table.
LEMMA InThrough ==
  ASSUME NEW m \in Processed
  PROVE  /\ ColumnsHere(m.ref[1]) = {} =>
              /\ [op |-> "create_table", object |-> TableObject(m.ref[1]),
                  with |-> {KeyColumn(m.ref[1], s[1], s[2]) : s \in Sides(m)}] \in AllOperations
              /\ \A s \in Sides(m) : Operation("add_fk", SideKey(m, s)) \in AllOperations
         /\ ColumnsHere(m.ref[1]) # {} =>
              /\ \A x \in Misplaced(m) :
                   /\ Operation("drop_fk", x) \in AllOperations
                   /\ (\A s \in Sides(m) : s[1] # x.on) =>
                        \A c \in ColumnsHere(m.ref[1]) :
                          c.on = x.on => Operation("drop_column", c) \in AllOperations
              /\ \A s \in Sides(m) :
                   (~\E d \in ColumnsHere(m.ref[1]) :
                        /\ d.on = KeyColumn(m.ref[1], s[1], s[2]).on
                        /\ SameColumn(d, KeyColumn(m.ref[1], s[1], s[2]))) =>
                     Operation("add_column", KeyColumn(m.ref[1], s[1], s[2])) \in AllOperations
              /\ \A s \in Keyless(m) : Operation("add_fk", SideKey(m, s)) \in AllOperations
<1>1. ASSUME NEW o,
             o \in IF ColumnsHere(m.ref[1]) = {} THEN NewThrough(m) ELSE ThroughChanged(m)
      PROVE  o \in AllOperations
  <2>1. o \in Throughs
      BY <1>1 DEF Throughs
  <2> QED
      BY <2>1 DEF AllOperations
<1>2. CASE ColumnsHere(m.ref[1]) = {}
    BY <1>1, <1>2 DEF NewThrough
<1>3. CASE ColumnsHere(m.ref[1]) # {}
  <2> DEFINE lost == {fk.on : fk \in Misplaced(m)} \ {s[1] : s \in Sides(m)}
             gone == {c \in ColumnsHere(m.ref[1]) : c.on \in lost}
             added == {c \in {KeyColumn(m.ref[1], s[1], s[2]) : s \in Sides(m)} :
                         ~\E d \in ColumnsHere(m.ref[1]) : d.on = c.on /\ SameColumn(d, c)}
             keys == {SideKey(m, s) : s \in Keyless(m)}
  <2>1. \A op, S, x : x \in S => Operation(op, x) \in Operations(op, S)
      BY DEF Operations
  <2>2. /\ Operations("drop_fk", Misplaced(m) \cup Conflicting(m)) \subseteq AllOperations
        /\ Operations("drop_column", gone) \subseteq AllOperations
        /\ Operations("add_column", added) \subseteq AllOperations
        /\ Operations("add_fk", keys) \subseteq AllOperations
      BY <1>1, <1>3 DEF ThroughChanged
  <2>3. /\ \A x \in Misplaced(m) : (\A s \in Sides(m) : s[1] # x.on) =>
             \A c \in ColumnsHere(m.ref[1]) : c.on = x.on => c \in gone
        /\ \A s \in Sides(m) :
             (~\E d \in ColumnsHere(m.ref[1]) :
                  /\ d.on = KeyColumn(m.ref[1], s[1], s[2]).on
                  /\ SameColumn(d, KeyColumn(m.ref[1], s[1], s[2]))) =>
               KeyColumn(m.ref[1], s[1], s[2]) \in added
        /\ \A s \in Keyless(m) : SideKey(m, s) \in keys
      OBVIOUS
  <2> HIDE DEF lost, gone, added, keys
  <2>4. \A x \in Misplaced(m) : Operation("drop_fk", x) \in AllOperations
      BY <2>1, <2>2
  <2>5. \A x \in gone : Operation("drop_column", x) \in AllOperations
      BY <2>1, <2>2
  <2>6. \A x \in added : Operation("add_column", x) \in AllOperations
      BY <2>1, <2>2
  <2>7. \A x \in keys : Operation("add_fk", x) \in AllOperations
      BY <2>1, <2>2
  <2> QED
      BY <1>3, <2>3, <2>4, <2>5, <2>6, <2>7
<1> QED
    BY <1>2, <1>3

\* A through table without a model gets the columns and the keys of its sides.
LEMMA SidesMade ==
  ASSUME SoundDatabase(db), NEW G, G = Generated(WithoutChurn(AllOperations)),
         NEW m \in Processed, NEW s \in Sides(m)
  PROVE  /\ \/ \E b \in db : /\ b.kind = "column" /\ b.table = m.ref[1] /\ b.on = s[1]
                             /\ SameColumn(b, KeyColumn(m.ref[1], s[1], s[2]))
            \/ Made(KeyColumn(m.ref[1], s[1], s[2]), G)
         /\ \/ \E b \in db : IsSideKey(b, m, s)
            \/ \E b \in db : IsKey(b, m.ref[1]) /\ b.name = SideKey(m, s).name
            \/ Made(SideKey(m, s), G)
<1>1. PICK t, c, k : t = m.ref[1] /\ c = KeyColumn(t, s[1], s[2]) /\ k = SideKey(m, s)
    OBVIOUS
<1>2. c.kind = "column" /\ c.table = t /\ c.on = s[1]
    BY <1>1, KeyColumnFields
<1>3. k.kind = "fk" /\ k.table = t /\ k.on = s[1] /\ k.ref[1] = s[2]
    BY <1>1, SideKeyFields
<1>4. ASSUME ~\E b \in db : b.kind = "column" /\ b.table = t /\ b.on = s[1] /\ SameColumn(b, c)
      PROVE  Made(c, G)
  <2>1. CASE ColumnsHere(t) = {}
    <3>1. PICK o : o = [op |-> "create_table", object |-> TableObject(t),
                        with |-> {KeyColumn(t, n[1], n[2]) : n \in Sides(m)}]
        OBVIOUS
    <3>2. o.op = "create_table" /\ c \in o.with
        BY <1>1, <3>1
    <3>3. o \in AllOperations
        BY <1>1, <2>1, <3>1, InThrough
    <3>4. o \in G
        BY <3>2, <3>3, Survives DEF Statements, Adding
    <3>5. c \in Makes(o)
        BY <3>2 DEF Makes, Adding
    <3> QED
        BY <3>4, <3>5 DEF Made
  <2>2. CASE ColumnsHere(t) # {}
    <3>1. ~\E d \in ColumnsHere(t) : d.on = c.on /\ SameColumn(d, c)
        BY <1>2, <1>4 DEF ColumnsHere, Of
    <3>2. PICK o : o = Operation("add_column", c)
        OBVIOUS
    <3>3. o \in AllOperations
        BY <1>1, <2>2, <3>1, <3>2, InThrough
    <3>4. o.op = "add_column"
        BY <3>2, OperationFields
    <3>5. o \in G
        BY <3>3, <3>4, Survives DEF Statements, Adding
    <3> QED
        BY <3>2, <3>5, MadeBy DEF Adding
  <2> QED
      BY <2>1, <2>2
<1>5. ASSUME ~\E b \in db : IsSideKey(b, m, s), ~\E b \in db : IsKey(b, t) /\ b.name = k.name
      PROVE  Made(k, G)
  <2>1. Operation("add_fk", k) \in AllOperations
    <3>1. CASE ColumnsHere(t) = {}
        BY <1>1, <3>1, InThrough
    <3>2. CASE ColumnsHere(t) # {}
      <4>1. s \in Keyless(m)
          BY <1>1, <1>5 DEF Keyless, KeysOf, KeysHere, Of, IsSideKey, IsKey
      <4> QED
          BY <1>1, <3>2, <4>1, InThrough
    <3> QED
        BY <3>1, <3>2
  <2>2. ~\E b \in db : IsKey(b, k.table) /\ (b.name = k.name \/ Alike(b, k))
      BY <1>1, <1>3, <1>5 DEF IsSideKey, IsKey, Alike
  <2> QED
      BY <1>3, <2>1, <2>2, KeyMade
<1> QED
    BY <1>1, <1>4, <1>5

\* Nothing the models lack is missed.
LEMMA NewMissed ==
  ASSUME SoundModels(models), SoundDatabase(db)
  PROVE  AllNew(Generated(WithoutChurn(AllOperations)), db)
<1>1. PICK G : G = Generated(WithoutChurn(AllOperations))
    OBVIOUS
<1>2. ASSUME NEW x \in models
      PROVE  /\ x.kind = "column" => HasAt(db, x.table, x.on) \/ Made(x, G)
             /\ x.kind = "pk" => (\E b \in db : b.kind = "pk" /\ b.table = x.table) \/ Made(x, G)
             /\ x.kind = "unique" =>
                  \/ \E b \in db : b.kind \in {"unique", "pk"} /\ b.table = x.table /\ b.name = x.name
                  \/ Made(x, G)
             /\ x.kind = "index" =>
                  \/ \E b \in db :
                       b.kind \in {"index", "unique", "pk"} /\ b.table = x.table /\ b.name = x.name
                  \/ Made(x, G)
             /\ x.kind = "check" =>
                  \/ \E b \in db : b.kind = "check" /\ b.table = x.table /\ b.name = x.name
                  \/ Made(x, G)
             /\ x.kind = "fk" =>
                  (\E b \in db : IsKey(b, x.table) /\ (b.name = x.name \/ Alike(b, x))) \/ Made(x, G)
             /\ x.kind = "m2m" /\ (\E b \in db : b.table = x.table /\ b.kind # "table") =>
                  LET y == RelationKey(x)
                  IN  (\E b \in db : IsKey(b, y.table) /\ (b.name = y.name \/ Alike(b, y))) \/ Made(y, G)
  <2>1. CASE ColumnsHere(x.table) = {}
    <3>1. \A b \in db : b.table = x.table => b.kind = "table"
        BY <2>1, EmptyTable
    <3>2. /\ x.kind \in {"column", "pk", "index", "unique", "check"} => Made(x, G)
          /\ x.kind = "fk" =>
               (\E b \in db : IsKey(b, x.table) /\ (b.name = x.name \/ Alike(b, x))) \/ Made(x, G)
        BY <1>1, <2>1, MadeWithTable
    <3> QED
        BY <3>1, <3>2
  <2>2. CASE ColumnsHere(x.table) # {}
    <3>1. /\ x.kind = "column" => HasAt(db, x.table, x.on) \/ Made(x, G)
          /\ x.kind = "pk" => (\E b \in db : b.kind = "pk" /\ b.table = x.table) \/ Made(x, G)
          /\ x.kind = "unique" =>
               \/ \E b \in db : b.kind \in {"unique", "pk"} /\ b.table = x.table /\ b.name = x.name
               \/ Made(x, G)
          /\ x.kind = "index" =>
               \/ \E b \in db :
                    b.kind \in {"index", "unique", "pk"} /\ b.table = x.table /\ b.name = x.name
               \/ Made(x, G)
          /\ x.kind = "check" =>
               \/ \E b \in db : b.kind = "check" /\ b.table = x.table /\ b.name = x.name
               \/ Made(x, G)
        BY <1>1, <2>2, MadeInTable
    <3>2. /\ x.kind = "fk" =>
               (\E b \in db : IsKey(b, x.table) /\ (b.name = x.name \/ Alike(b, x))) \/ Made(x, G)
          /\ x.kind = "m2m" =>
               LET y == RelationKey(x)
               IN  (\E b \in db : IsKey(b, y.table) /\ (b.name = y.name \/ Alike(b, y))) \/ Made(y, G)
        BY <1>1, <2>2, KeysMadeInTable
    <3> QED
        BY <3>1, <3>2
  <2> QED
      BY <2>1, <2>2
<1>3. ASSUME NEW m \in Processed, NEW s \in Sides(m)
      PROVE  /\ \/ \E b \in db : /\ b.kind = "column" /\ b.table = m.ref[1] /\ b.on = s[1]
                                 /\ SameColumn(b, KeyColumn(m.ref[1], s[1], s[2]))
                \/ Made(KeyColumn(m.ref[1], s[1], s[2]), G)
             /\ \/ \E b \in db : IsSideKey(b, m, s)
                \/ \E b \in db : IsKey(b, m.ref[1]) /\ b.name = SideKey(m, s).name
                \/ Made(SideKey(m, s), G)
    BY <1>1, SidesMade
<1>4. AllNew(G, db)
    BY <1>2, <1>3 DEF AllNew
<1> QED
    BY <1>1, <1>4

\* Nothing the models do not have is missed.
LEMMA OldMissed ==
  ASSUME SoundModels(models), SoundDatabase(db)
  PROVE  AllOld(Generated(WithoutChurn(AllOperations)), db)
<1>1. PICK G : G = Generated(WithoutChurn(AllOperations))
    OBVIOUS
<1>2. ASSUME NEW b \in db, b.kind # "table"
      PROVE  ColumnsHere(b.table) # {}
    BY <1>2, EmptyTable
<1>3. ASSUME NEW t \in Tables, NEW op \in Statements \ {"add_fk", "drop_fk"}, NEW x,
             Operation(op, x) \in Compared(t)
      PROVE  Drops(op, x, G) /\ \E p \in G : p.op = op /\ p.object = x
    BY <1>1, <1>3, SurvivesPlainly, StatementFound
<1>4. {"drop_unique", "drop_index", "drop_check", "drop_column", "modify_column"}
        \subseteq Statements \ {"add_fk", "drop_fk"}
    BY DEF Statements, Adding, Dropping
<1>5. /\ \A b \in db : b.kind = "column" => b.name = <<b.on>>
      /\ \A x \in models : x.kind = "column" => x.name = <<x.on>>
    BY ModelFacts, DatabaseFacts, Zenon
<1>6. ASSUME NEW b \in db, b.table \in Tables, b.kind \in {"unique", "index", "check", "column"}
      PROVE  LET asked(kind) == \E y \in models : y.kind = kind /\ y.table = b.table /\ y.name = b.name
             IN  /\ b.kind = "unique" =>
                      b.name \in PkNames \/ asked("unique") \/ Drops("drop_unique", b, G)
                 /\ b.kind = "index" =>
                      \/ b.name \in PkNames \/ asked("index") \/ Drops("drop_index", b, G)
                      \/ \E fk \in db : IsKey(fk, b.table) /\ fk.name = b.name
                 /\ b.kind = "check" => asked("check") \/ Drops("drop_check", b, G)
                 /\ b.kind = "column" => HasAt(models, b.table, b.on) \/ Drops("drop_column", b, G)
  <2>1. PICK t \in Tables : t = b.table /\ ColumnsHere(t) # {}
      BY <1>2, <1>6
  <2>2. ASSUME b.kind = "unique", b.name \notin PkNames,
               ~\E y \in models : y.kind = "unique" /\ y.table = t /\ y.name = b.name
        PROVE  Drops("drop_unique", b, G)
    <3>1. b \in UniquesLost(t)
        BY <2>1, <2>2, LackingIs DEF UniquesLost, UniquesHere, Listed, There, Of
    <3> QED
        BY <1>3, <1>4, <2>1, <3>1, InDifferences
  <2>3. ASSUME b.kind = "index", b.name \notin PkNames,
               ~\E y \in models : y.kind = "index" /\ y.table = t /\ y.name = b.name,
               ~\E fk \in db : IsKey(fk, t) /\ fk.name = b.name
        PROVE  Drops("drop_index", b, G)
    <3>1. b \in IndexesLost(t)
        BY <2>1, <2>3, LackingIs, HereIs DEF IndexesLost, PlainIndexesHere, Listed, There, Of, IsKey
    <3> QED
        BY <1>3, <1>4, <2>1, <3>1, InDifferences
  <2>4. ASSUME b.kind = "check", ~\E y \in models : y.kind = "check" /\ y.table = t /\ y.name = b.name
        PROVE  Drops("drop_check", b, G)
    <3>1. b \in ChecksLost(t)
        BY <2>1, <2>4, LackingIs DEF ChecksLost, ChecksHere, There, Of
    <3> QED
        BY <1>3, <1>4, <2>1, <3>1, InDifferences
  <2>5. ASSUME b.kind = "column", ~HasAt(models, t, b.on)
        PROVE  Drops("drop_column", b, G)
    <3>1. ~\E y \in models : y.kind = "column" /\ y.table = t /\ y.name = b.name
        BY <1>5, <2>5 DEF HasAt
    <3>2. b \in ColumnsLost(t)
        BY <2>1, <2>5, <3>1, LackingIs DEF ColumnsLost, ColumnsHere, There, Of
    <3> QED
        BY <1>3, <1>4, <2>1, <3>2, InDifferences
  <2> QED
      BY <2>1, <2>2, <2>3, <2>4, <2>5
<1>7. ASSUME NEW b \in db, b.table \in Tables, b.kind = "fk",
             ~\E y \in models : IsKey(y, b.table) /\ (y.name = b.name \/ Alike(y, b))
      PROVE  Drops("drop_fk", b, G)
  <2>1. PICK t \in Tables : t = b.table /\ ColumnsHere(t) # {}
      BY <1>2, <1>7
  <2>2. b \in RelationsLost(t)
      BY <1>7, <2>1, LackingIs DEF RelationsLost, KeysHere, There, Of, IsKey
  <2>3. PICK o : o = Operation("drop_fk", b)
      OBVIOUS
  <2>4. o.op = "drop_fk" /\ o.object = b
      BY <2>3, OperationFields
  <2>5. o \in AllOperations
    <3>1. o \in Compared(t)
        BY <2>1, <2>2, <2>3, InDifferences
    <3> QED
        BY <3>1 DEF AllOperations
  <2>6. ~\E fk \in Of(models, "fk", b.table) : Alike(fk, b)
      BY <1>7 DEF Of, IsKey
  <2>7. o \in G
      BY <1>1, <2>4, <2>5, <2>6, Survives DEF Statements, Dropping
  <2> QED
      BY <2>3, <2>7, StatementFound
<1>8. ASSUME NEW x \in models, x.kind = "column", NEW d \in db, Changed(d, x)
      PROVE  \E p \in G : p.op = "modify_column" /\ p.object = x
  <2>1. /\ d.kind = "column" /\ d.table = x.table /\ d.on = x.on
        /\ ~SameColumn(d, x) \/ DefaultChanged(d, x)
      BY <1>8 DEF Changed
  <2>2. PICK t \in Tables : t = x.table
      BY ModelTables
  <2>3. ColumnsHere(t) # {}
      BY <1>2, <2>1, <2>2
  <2>4. d.name = x.name
      BY <1>5, <1>8, <2>1
  <2>5. d \in ColumnsHere(t) /\ x \in Of(models, "column", t)
      BY <1>8, <2>1, <2>2 DEF ColumnsHere, Of
  <2>6. x \in ColumnsChanged(t)
      BY <2>1, <2>4, <2>5 DEF ColumnsChanged
  <2> QED
      BY <1>3, <1>4, <2>3, <2>6, InDifferences
<1>9. ASSUME NEW m \in Processed, NEW b \in db, IsKey(b, m.ref[1]),
             NEW s \in Sides(m), b.ref[1] = s[2]
      PROVE  /\ (\A n \in Sides(m) : b.on # n[1]) =>
                  /\ Drops("drop_fk", b, G)
                  /\ \A c \in db : c.kind = "column" /\ c.table = b.table /\ c.on = b.on
                                     => Drops("drop_column", c, G)
             /\ ~OfItself(m.ref[1]) /\ Astray(b, m) => Drops("drop_fk", b, G)
  <2>1. PICK t : t = m.ref[1]
      OBVIOUS
  <2>2. /\ m \in models /\ m.kind = "m2m" /\ t \notin Tables
        /\ b.kind = "fk" /\ b.table = t
      BY <1>9, <2>1, ProcessedAre DEF IsKey
  <2>3. ColumnsHere(t) # {}
      BY <1>2, <2>2
  <2>4. b \in KeysOf(m, s)
      BY <1>9, <2>1, <2>2 DEF KeysOf, KeysHere, Of
  <2>5. Left(m) \in Sides(m) /\ Right(m) \in Sides(m)
      BY SidesAre
  <2>6. ASSUME b \in Misplaced(m)
        PROVE  Drops("drop_fk", b, G)
    <3>1. PICK o : o = Operation("drop_fk", b)
        OBVIOUS
    <3>2. o.op = "drop_fk" /\ o.object = b
        BY <3>1, OperationFields
    <3>3. o \in AllOperations
        BY <2>1, <2>3, <2>6, <3>1, InThrough
    <3>4. ~\E fk \in Of(models, "fk", b.table) : Alike(fk, b)
        BY <2>2, ModelTables DEF Of
    <3>5. o \in G
        BY <1>1, <3>2, <3>3, <3>4, Survives DEF Statements, Dropping
    <3> QED
        BY <3>1, <3>5, StatementFound
  <2>7. ASSUME \A n \in Sides(m) : b.on # n[1]
        PROVE  /\ Drops("drop_fk", b, G)
               /\ \A c \in db : c.kind = "column" /\ c.table = b.table /\ c.on = b.on
                                  => Drops("drop_column", c, G)
    <3>1. b.on # Left(m)[1] /\ b.on # Right(m)[1]
        BY <2>5, <2>7
    <3>2. b \in Misplaced(m)
        BY <2>4, <3>1 DEF Misplaced
    <3>3. ASSUME NEW c \in db, c.kind = "column", c.table = b.table, c.on = b.on
          PROVE  Drops("drop_column", c, G)
      <4>1. c \in ColumnsHere(t)
          BY <2>2, <3>3 DEF ColumnsHere, Of
      <4>2. PICK o : o = Operation("drop_column", c)
          OBVIOUS
      <4>3. o \in AllOperations
          BY <2>1, <2>3, <2>7, <3>2, <3>3, <4>1, <4>2, InThrough
      <4>4. o.op = "drop_column"
          BY <4>2, OperationFields
      <4>5. o \in G
          BY <1>1, <4>3, <4>4, Survives DEF Statements, Dropping
      <4> QED
          BY <4>2, <4>5, StatementFound
    <3> QED
        BY <2>6, <3>2, <3>3
  <2>8. ASSUME ~OfItself(t), Astray(b, m)
        PROVE  Drops("drop_fk", b, G)
    <3>1. m.ref[2] # m.table
        BY <2>1, <2>2, <2>8 DEF OfItself
    <3>2. PICK n \in Sides(m) : b.ref[1] = n[2] /\ b.on # n[1]
        BY <2>8 DEF Astray
    <3>3. PICK left, right : left = Left(m) /\ right = Right(m)
        OBVIOUS
    <3>4. (n = left \/ n = right) /\ left[2] = m.table /\ right[2] = m.ref[2]
        BY <3>3, SidesAre, SideFields
    <3>5. b.on # IF b.ref[1] = m.table THEN left[1] ELSE right[1]
        BY <3>1, <3>2, <3>4
    <3>6. b \in Misplaced(m)
        BY <2>4, <3>3, <3>5 DEF Misplaced
    <3> QED
        BY <2>6, <3>6
  <2> QED
      BY <2>1, <2>7, <2>8
<1>10. AllOld(G, db)
    BY <1>6, <1>7, <1>8, <1>9 DEF AllOld
<1> QED
    BY <1>1, <1>10

-----------------------------------------------------------------------------
(* What a step leaves alone.                                                  *)

\* As long as the models stay, so does what is computed from them.
LEMMA ModelsStay ==
  ASSUME models' = models
  PROVE  /\ Tables' = Tables /\ Processed' = Processed
         /\ \A t : Pk(t)' = Pk(t)
         /\ \A t, c, of : KeyColumn(t, c, of)' = KeyColumn(t, c, of)
         /\ \A m, s : SideKey(m, s)' = SideKey(m, s)
         /\ \A m : RelationKey(m)' = RelationKey(m)
         /\ \A t : OfItself(t)' <=> OfItself(t)
<1>1. Tables' = Tables
    BY DEF Tables
<1>2. \A t : Pk(t)' = Pk(t)
    BY DEF Pk
<1>3. Processed' = Processed
    BY <1>1 DEF Processed
<1>4. \A t, c, of : KeyColumn(t, c, of)' = KeyColumn(t, c, of)
    BY <1>2 DEF KeyColumn
<1>5. \A m, s : SideKey(m, s)' = SideKey(m, s)
    BY <1>2 DEF SideKey, ForeignKey
<1>6. \A m : RelationKey(m)' = RelationKey(m)
    BY <1>2 DEF RelationKey, ForeignKey
<1>7. \A t : OfItself(t)' <=> OfItself(t)
    BY DEF OfItself
<1> QED
    BY <1>1, <1>2, <1>3, <1>4, <1>5, <1>6, <1>7

\* The comparison of a table is a matter of the database and the models.
LEMMA ComparedStays ==
  ASSUME db' = db, models' = models
  PROVE  \A t : Compared(t)' = Compared(t)
<1>1. \A t : ColumnsHere(t)' = ColumnsHere(t) /\ Here(t)' = Here(t) /\ There(t)' = There(t)
    BY DEF ColumnsHere, Here, There, KeysHere, PrimaryKeyHere, ChecksHere
<1>2. \A t : NewTable(t)' = NewTable(t)
    BY DEF NewTable
<1>3. \A t : /\ ColumnsNew(t)' = ColumnsNew(t) /\ ColumnsLost(t)' = ColumnsLost(t)
             /\ ColumnsChanged(t)' = ColumnsChanged(t)
    BY <1>1 DEF ColumnsNew, ColumnsLost, ColumnsChanged
<1>4. \A t : /\ IndexesNew(t)' = IndexesNew(t) /\ IndexesLost(t)' = IndexesLost(t)
             /\ UniquesNew(t)' = UniquesNew(t) /\ UniquesLost(t)' = UniquesLost(t)
    BY <1>1 DEF IndexesNew, IndexesLost, UniquesNew, UniquesLost, IndexesHere, PlainIndexesHere,
                UniquesHere
<1>5. \A t : ChecksNew(t)' = ChecksNew(t) /\ ChecksLost(t)' = ChecksLost(t)
    BY <1>1 DEF ChecksNew, ChecksLost, ChecksHere
<1>6. \A t : RelationsNew(t)' = RelationsNew(t)
  <2>1. \A m : RelationKey(m)' = RelationKey(m)
      BY ModelsStay
  <2> QED
      BY <1>1, <2>1 DEF RelationsNew
<1>7. \A t : RelationsLost(t)' = RelationsLost(t) /\ RelationsChanged(t)' = RelationsChanged(t)
    BY <1>1 DEF RelationsLost, RelationsChanged, KeysHere
<1>8. \A t : PrimaryKeys(t)' = PrimaryKeys(t)
    BY DEF PrimaryKeys, PrimaryKeyHere
<1>9. \A t : Differences(t)' = Differences(t)
    BY <1>3, <1>4, <1>5, <1>6, <1>7, <1>8 DEF Differences
<1> QED
    BY <1>1, <1>2, <1>9 DEF Compared

\* So do the facts about what was found, and about what was not missed.
LEMMA FoundStays ==
  ASSUME models' = models, NEW S, NEW o, Found(o, S)
  PROVE  Found(o, S)'
<1>1. /\ Tables' = Tables /\ Processed' = Processed
      /\ \A t, c, of : KeyColumn(t, c, of)' = KeyColumn(t, c, of)
      /\ \A m, s : SideKey(m, s)' = SideKey(m, s)
      /\ \A m : RelationKey(m)' = RelationKey(m)
      /\ \A t : OfItself(t)' <=> OfItself(t)
    BY ModelsStay
<1>2. \A x : Asked(x, S)' <=> Asked(x, S)
    BY <1>1 DEF Asked, IsSideKey, IsKey
<1>3. FoundNew(o, S)'
    BY <1>1, <1>2 DEF Found, FoundNew, IsKey, HasAt, Alike, SameColumn
<1>4. FoundOld(o, S)'
    BY <1>1 DEF Found, FoundOld, IsKey, HasAt, Alike, Astray, Changed
<1> QED
    BY <1>3, <1>4 DEF Found

LEMMA MissedStays ==
  ASSUME models' = models, NEW S, NEW G, AllNew(G, S), AllOld(G, S)
  PROVE  AllNew(G, S)' /\ AllOld(G, S)'
<1>1. /\ Tables' = Tables /\ Processed' = Processed
      /\ \A t, c, of : KeyColumn(t, c, of)' = KeyColumn(t, c, of)
      /\ \A m, s : SideKey(m, s)' = SideKey(m, s)
      /\ \A m : RelationKey(m)' = RelationKey(m)
      /\ \A t : OfItself(t)' <=> OfItself(t)
    BY ModelsStay
<1>2. AllNew(G, S)'
    BY <1>1 DEF AllNew
<1>3. AllOld(G, S)'
    BY <1>1 DEF AllOld
<1> QED
    BY <1>2, <1>3

\* What was found when the sync began.
LEMMA FoundBefore ==
  ASSUME models' = models, NEW G, NEW S, G = Generated(data'), S = before',
         \A o \in G : Found(o, S), AllNew(G, S), AllOld(G, S)
  PROVE  /\ \A o \in Generated(data') : Found(o, before)'
         /\ AllNew(Generated(data), before)'
         /\ AllOld(Generated(data), before)'
<1>1. \A o \in G : Found(o, S)'
    BY FoundStays
<1>2. AllNew(G, S)' /\ AllOld(G, S)'
    BY MissedStays
<1> QED
    BY <1>1, <1>2

-----------------------------------------------------------------------------
(* What a statement does to what there is.                                    *)

\* A column is stored with the nullability it comes to have.
LEMMA StoredAgain ==
  ASSUME NEW y, y = Object(y.kind, y.table, y.name, y.on, y.ref, y.def), NEW n, NEW d, d = Stored(y, n)
  PROVE  d = Stored(y, Nullable(d))
<1>1. y = [kind |-> y.kind, table |-> y.table, name |-> y.name, on |-> y.on, ref |-> y.ref, def |-> y.def]
    BY DEF Object
<1>2. d.def = <<Type(y), Size(y), IF Nullable(y) = 0 THEN n ELSE Nullable(y),
                IF Default(y) = Null THEN 0 ELSE Default(y)>>
    BY <1>1 DEF Stored
<1>3. Nullable(d) = IF Nullable(y) = 0 THEN n ELSE Nullable(y)
    BY <1>2 DEF Nullable
<1>4. (IF Nullable(y) = 0 THEN Nullable(d) ELSE Nullable(y)) = (IF Nullable(y) = 0 THEN n ELSE Nullable(y))
    BY <1>3
<1> QED
    BY <1>4 DEF Stored

\* A column that is modified is stored anew, the others stay.
LEMMA ModifiedIs ==
  ASSUME SoundDatabase(db), NEW x, x = Object(x.kind, x.table, x.name, x.on, x.ref, x.def),
         x.kind = "column", x.name = <<x.on>>,
         NEW e, e = Effect("modify_column", x, {}), NEW d \in e
  PROVE  \/ d \in db /\ ~(d.kind = "column" /\ d.table = x.table /\ d.on = x.on)
         \/ /\ d = Stored(x, Nullable(d)) /\ d.kind = "column" /\ d.table = x.table /\ d.on = x.on
            /\ \E c \in db : c.kind = "column" /\ c.table = x.table /\ c.on = x.on
<1>1. e = {IF c.kind = "column" /\ c.table = x.table /\ c.name = x.name
           THEN Stored(x, Nullable(c)) ELSE c : c \in db}
    BY DEF Effect
<1>2. PICK c \in db : d = IF c.kind = "column" /\ c.table = x.table /\ c.name = x.name
                          THEN Stored(x, Nullable(c)) ELSE c
    BY <1>1
<1>3. c.kind = "column" => c.name = <<c.on>>
    BY DatabaseFacts, Zenon
<1>4. CASE c.kind = "column" /\ c.table = x.table /\ c.name = x.name
  <2>1. PICK n : n = Nullable(c)
      OBVIOUS
  <2>2. d = Stored(x, n)
      BY <1>2, <1>4, <2>1
  <2>3. d = Stored(x, Nullable(d)) /\ d.kind = x.kind /\ d.table = x.table /\ d.on = x.on
      BY <2>2, StoredAgain, StoredFields
  <2>4. c.on = x.on
      BY <1>3, <1>4
  <2> QED
      BY <1>4, <2>3, <2>4
<1>5. CASE ~(c.kind = "column" /\ c.table = x.table /\ c.name = x.name)
  <2>1. d = c
      BY <1>2, <1>5
  <2>2. c.on = x.on /\ c.kind = "column" => c.name = x.name
      BY <1>3
  <2> QED
      BY <1>5, <2>1, <2>2
<1> QED
    BY <1>4, <1>5

\* What is there stays, unless it is taken.
LEMMA HeldStays ==
  ASSUME SoundDatabase(db), NEW o, o.op \in Statements, Fit(o), db' = Effect(o.op, o.object, o.with),
         NEW y, Held(y)
  PROVE  Held(y)' \/ Takes(o, y)
<1>1. PICK x, e : x = o.object /\ e = db'
    OBVIOUS
<1>2. PICK d \in db : IF y.kind = "column" THEN d.kind = "column" /\ d.table = y.table /\ d.on = y.on
                                           ELSE d = y
    BY DEF Held, HasColumn, Of
<1>3. ASSUME NEW c \in e, IF y.kind = "column" THEN c.kind = "column" /\ c.table = y.table /\ c.on = y.on
                                               ELSE c = y
      PROVE  Held(y)'
    BY <1>1, <1>3 DEF Held, HasColumn, Of
<1>4. CASE o.op \in Adding
    BY <1>1, <1>2, <1>3, <1>4, EffectIs
<1>5. CASE o.op \in {"drop_unique", "drop_index", "drop_check", "drop_fk"}
  <2>1. e = db \ {x} /\ x.kind # "column"
      BY <1>1, <1>5, EffectIs DEF Fit
  <2>2. CASE d = x
      BY <1>1, <1>2, <1>5, <2>1, <2>2 DEF Takes, Dropping
  <2> QED
      BY <1>2, <1>3, <2>1, <2>2
<1>6. CASE o.op = "drop_column"
  <2>1. e = db \ On(x.table, x.on)
      BY <1>1, <1>6, EffectIs
  <2>2. CASE d \in On(x.table, x.on)
    <3>1. x.table = d.table /\ x.on = d.on
        BY <2>2 DEF On
    <3>2. d.table = y.table /\ d.on = y.on
        BY <1>2
    <3> QED
        BY <1>1, <1>6, <3>1, <3>2 DEF Takes
  <2> QED
      BY <1>2, <1>3, <2>1, <2>2
<1>7. CASE o.op = "modify_column"
  <2>1. /\ \A c \in db : c.kind # "column" => c \in e
        /\ \A b \in db : b.kind = "column" =>
             \E c \in e : c.kind = "column" /\ c.table = b.table /\ c.on = b.on
      BY <1>1, <1>7, ModifyIs
  <2>2. CASE y.kind = "column"
    <3>1. PICK c \in e : c.kind = "column" /\ c.table = d.table /\ c.on = d.on
        BY <1>2, <2>1, <2>2
    <3> QED
        BY <1>2, <1>3, <2>2, <3>1
  <2>3. CASE y.kind # "column"
      BY <1>2, <1>3, <2>1, <2>3
  <2> QED
      BY <2>2, <2>3
<1> QED
    BY <1>4, <1>5, <1>6, <1>7 DEF Statements, Dropping

\* What a statement makes is there after it.
LEMMA MadeHeld ==
  ASSUME SoundDatabase(db), NEW o, o.op \in Statements, Fit(o), o.op # "create_table" => o.with = {},
         Accepts(o.op, o.object), db' = Effect(o.op, o.object, o.with), NEW y \in Makes(o)
  PROVE  Held(y)'
<1>1. PICK x, e : x = o.object /\ e = db'
    OBVIOUS
<1>2. ASSUME NEW c \in e, IF y.kind = "column" THEN c.kind = "column" /\ c.table = y.table /\ c.on = y.on
                                               ELSE c = y
      PROVE  Held(y)'
    BY <1>1, <1>2 DEF Held, HasColumn, Of
<1>3. CASE o.op \in {"add_pk", "add_fk", "add_unique", "create_index", "add_check"}
  <2>1. y = x /\ x.kind # "column" /\ x \in e
      BY <1>1, <1>3 DEF Makes, Fit, Effect
  <2> QED
      BY <1>2, <2>1
<1>4. CASE o.op = "add_column"
  <2>1. y = x /\ x.kind = "column" /\ x = Object(x.kind, x.table, x.name, x.on, x.ref, x.def)
      BY <1>1, <1>4 DEF Makes, Fit
  <2>2. PICK s : s = Stored(x, 1)
      OBVIOUS
  <2>3. s \in e
      BY <1>1, <1>4, <2>2 DEF Effect
  <2>4. s.kind = "column" /\ s.table = x.table /\ s.on = x.on
      BY <2>1, <2>2, StoredFields
  <2> QED
      BY <1>2, <2>1, <2>3, <2>4
<1>5. CASE o.op = "create_table"
  <2>1. e = db \cup {x} \cup {IF w.kind = "column" THEN Stored(w, 1) ELSE w : w \in o.with}
      BY <1>1, <1>5 DEF Effect
  <2>2. y = x \/ y \in o.with
      BY <1>1, <1>5 DEF Makes
  <2>3. CASE y = x
    <3>1. x = TableObject(x.table)
        BY <1>1, <1>5 DEF Fit
    <3>2. PICK t : t = x.table
        OBVIOUS
    <3>3. x.kind # "column"
        BY <3>1, <3>2, TableFields
    <3> QED
        BY <1>2, <2>1, <2>3, <3>3
  <2>4. CASE y \in o.with
    <3>1. y = Object(y.kind, y.table, y.name, y.on, y.ref, y.def)
        BY <1>5, <2>4 DEF Fit
    <3>2. CASE y.kind = "column"
      <4>1. PICK s : s = Stored(y, 1)
          OBVIOUS
      <4>2. s \in e
          BY <2>1, <2>4, <3>2, <4>1
      <4>3. s.kind = "column" /\ s.table = y.table /\ s.on = y.on
          BY <3>1, <3>2, <4>1, StoredFields
      <4> QED
          BY <1>2, <3>2, <4>2, <4>3
    <3>3. CASE y.kind # "column"
      <4>1. y \in e
          BY <2>1, <2>4, <3>3
      <4> QED
          BY <1>2, <3>3, <4>1
    <3> QED
        BY <3>2, <3>3
  <2> QED
      BY <2>2, <2>3, <2>4
<1>6. CASE o.op = "modify_column"
  <2>1. y = x
      BY <1>1, <1>6 DEF Makes
  <2>2. x.kind = "column" /\ HasColumn(x.table, x.on)
      BY <1>1, <1>6 DEF Fit, Accepts
  <2>3. Held(x)
      BY <2>2 DEF Held
  <2>4. ~Takes(o, x)
      BY <1>6 DEF Takes, Dropping
  <2> QED
      BY <2>1, <2>3, <2>4, HeldStays
<1> QED
    BY <1>3, <1>4, <1>5, <1>6 DEF Makes, Adding

\* What is there and was not is made.
LEMMA MadeAre ==
  ASSUME SoundDatabase(db), NEW o, o.op \in Statements, Fit(o), o.op # "create_table" => o.with = {},
         db' = Effect(o.op, o.object, o.with), NEW d \in db'
  PROVE  \/ /\ d \in db
            /\ o.op = "modify_column" =>
                 ~(d.kind = "column" /\ d.table = o.object.table /\ d.on = o.object.on)
         \/ /\ o.op \in Adding \cup {"modify_column"}
            /\ \E y \in Makes(o) : /\ Is(d, y) /\ d.kind = y.kind /\ d.table = y.table
            /\ o.op = "add_column" => d.table = o.object.table /\ d.on = o.object.on
            /\ o.op = "create_table" => d.table = o.object.table
            /\ o.op = "modify_column" =>
                 /\ d.kind = "column" /\ d.table = o.object.table /\ d.on = o.object.on
                 /\ HasColumn(d.table, d.on)
            /\ o.op \in Adding \ {"add_column", "create_table"} => d = o.object
<1>1. PICK x, e : x = o.object /\ e = db'
    OBVIOUS
<1>2. CASE o.op \in Dropping
    BY <1>1, <1>2 DEF Effect, Dropping
<1>3. CASE o.op \in {"add_pk", "add_fk", "add_unique", "create_index", "add_check"}
  <2>1. d \in db \/ d = x
      BY <1>1, <1>3 DEF Effect
  <2>2. x.kind # "column" /\ x \in Makes(o)
      BY <1>1, <1>3 DEF Makes, Fit, Adding
  <2>3. CASE d = x
      BY <1>1, <1>3, <2>2, <2>3 DEF Is, Adding
  <2> QED
      BY <1>3, <2>1, <2>3
<1>4. CASE o.op = "add_column"
  <2>1. PICK s : s = Stored(x, 1)
      OBVIOUS
  <2>2. d \in db \/ d = s
      BY <1>1, <1>4, <2>1 DEF Effect
  <2>3. x.kind = "column" /\ x = Object(x.kind, x.table, x.name, x.on, x.ref, x.def)
      BY <1>1, <1>4 DEF Fit
  <2>4. s.kind = "column" /\ s.table = x.table /\ s.on = x.on /\ s = Stored(x, Nullable(s))
      BY <2>1, <2>3, StoredFields, StoredAgain
  <2>5. x \in Makes(o)
      BY <1>1, <1>4 DEF Makes, Adding
  <2>6. CASE d = s
      BY <1>1, <1>4, <2>3, <2>4, <2>5, <2>6 DEF Is, Adding
  <2> QED
      BY <1>4, <2>2, <2>6
<1>5. CASE o.op = "create_table"
  <2>1. \/ d \in db \/ d = x
        \/ \E w \in o.with : d = IF w.kind = "column" THEN Stored(w, 1) ELSE w
      BY <1>1, <1>5 DEF Effect
  <2>2. CASE d = x
    <3>1. PICK t : t = x.table
        OBVIOUS
    <3>2. x.kind = "table"
      <4>1. x = TableObject(x.table)
          BY <1>1, <1>5 DEF Fit
      <4> QED
          BY <3>1, <4>1, TableFields
    <3>3. x \in Makes(o)
        BY <1>1, <1>5 DEF Makes, Adding
    <3> QED
        BY <1>1, <1>5, <2>2, <3>2, <3>3 DEF Is, Adding
  <2>3. CASE \E w \in o.with : d = IF w.kind = "column" THEN Stored(w, 1) ELSE w
    <3>1. PICK w \in o.with : d = IF w.kind = "column" THEN Stored(w, 1) ELSE w
        BY <2>3
    <3>2. w = Object(w.kind, w.table, w.name, w.on, w.ref, w.def) /\ w.table = x.table
        BY <1>1, <1>5 DEF Fit
    <3>3. w \in Makes(o)
        BY <1>5 DEF Makes, Adding
    <3>4. Is(d, w) /\ d.kind = w.kind /\ d.table = w.table
      <4>1. CASE w.kind = "column"
        <5>1. d = Stored(w, 1)
            BY <3>1, <4>1
        <5>2. d.kind = w.kind /\ d.table = w.table /\ d = Stored(w, Nullable(d))
            BY <3>2, <5>1, StoredFields, StoredAgain
        <5> QED
            BY <4>1, <5>2 DEF Is
      <4>2. CASE w.kind # "column"
          BY <3>1, <4>2 DEF Is
      <4> QED
          BY <4>1, <4>2
    <3> QED
        BY <1>1, <1>5, <3>2, <3>3, <3>4 DEF Adding
  <2> QED
      BY <1>5, <2>1, <2>2, <2>3
<1>6. CASE o.op = "modify_column"
  <2>1. x.kind = "column" /\ x.name = <<x.on>> /\ x = Object(x.kind, x.table, x.name, x.on, x.ref, x.def)
      BY <1>1, <1>6 DEF Fit
  <2>2. e = Effect("modify_column", x, {})
      BY <1>1, <1>6
  <2>3. \/ d \in db /\ ~(d.kind = "column" /\ d.table = x.table /\ d.on = x.on)
        \/ /\ d = Stored(x, Nullable(d)) /\ d.kind = "column" /\ d.table = x.table /\ d.on = x.on
           /\ \E c \in db : c.kind = "column" /\ c.table = x.table /\ c.on = x.on
      BY <1>1, <2>1, <2>2, ModifiedIs
  <2>4. x \in Makes(o)
      BY <1>1, <1>6 DEF Makes
  <2>5. CASE /\ d = Stored(x, Nullable(d)) /\ d.kind = "column" /\ d.table = x.table /\ d.on = x.on
             /\ \E c \in db : c.kind = "column" /\ c.table = x.table /\ c.on = x.on
    <3>1. Is(d, x)
        BY <2>1, <2>5 DEF Is
    <3>2. HasColumn(d.table, d.on)
        BY <2>5 DEF HasColumn, Of
    <3> QED
        BY <1>1, <1>6, <2>1, <2>4, <2>5, <3>1, <3>2 DEF Adding
  <2> QED
      BY <1>1, <1>6, <2>3, <2>5
<1> QED
    BY <1>2, <1>3, <1>4, <1>5, <1>6 DEF Statements, Adding

-----------------------------------------------------------------------------
(* The books are kept.                                                        *)

\* A statement that is executed keeps the books.
LEMMA ExecuteBooks ==
  ASSUME SyncInv, UndoInv, SettleInv, NEW o \in todo, Execute(o)
  PROVE  Books'
<1>1. /\ stage = "running" /\ o \in Due /\ Accepts(o.op, o.object)
      /\ db' = Effect(o.op, o.object, o.with) /\ todo' = todo \ {o}
      /\ data' = data /\ before' = before /\ models' = models
    BY DEF Execute
<1>2. Running /\ InOrder /\ SoundDatabase(db) /\ Books
    BY <1>1 DEF UndoInv, SyncInv, SettleInv
<1>3. PICK G : G = Generated(data)
    OBVIOUS
<1>4. o \in G /\ todo \subseteq G /\ \A p \in G : Fit(p) /\ Meant(p) /\ p.op \in Statements
    BY <1>2, <1>3, GeneratedAre DEF Running
<1>5. o.op # "create_table" => o.with = {}
    BY <1>1, <1>3, <1>4 DEF SettleInv, Found
<1>6. PICK ended, next : ended = Done /\ next = Done'
    OBVIOUS
<1>7. next = ended \cup {o} /\ ended \subseteq G
    BY <1>1, <1>3, <1>4, <1>6 DEF Done
<1>8. Fresh(o)
    BY <1>1, <1>2, MadeFresh
<1>9. ASSUME NEW p \in next, NEW q \in todo'
      PROVE  Rank(p) <= Rank(q)
  <2>1. p \in ended => Rank(p) <= Rank(q)
      BY <1>1, <1>2, <1>6 DEF Books
  <2>2. Rank(o) <= Rank(q)
      BY <1>1 DEF Due
  <2> QED
      BY <1>7, <2>1, <2>2
<1>10. \A p \in next : Fresh(p)'
  <2>1. \A p : Fresh(p)' <=> Fresh(p)
      BY <1>1 DEF Fresh
  <2> QED
      BY <1>2, <1>6, <1>7, <1>8, <2>1 DEF Books
<1>11. \A p, y : Takes(p, y)' <=> Takes(p, y)
    BY DEF Takes
<1>12. \A y : Held(y) => Held(y)' \/ Takes(o, y)
    BY <1>1, <1>2, <1>4, HeldStays
<1>13. ASSUME NEW b \in before
       PROVE  Held(b)' \/ \E p \in next : Takes(p, b)
    BY <1>2, <1>6, <1>7, <1>12 DEF Books, Kept
<1>14. ASSUME NEW p \in next, NEW y \in Makes(p)
       PROVE  Held(y)' \/ \E q \in next : Takes(q, y)
  <2>1. CASE p \in ended
      BY <1>2, <1>6, <1>7, <1>12, <1>14, <2>1 DEF Books, Kept
  <2>2. CASE p = o
      BY <1>1, <1>2, <1>4, <1>5, <1>14, <2>2, MadeHeld
  <2> QED
      BY <1>7, <2>1, <2>2
<1>15. Kept'
    BY <1>1, <1>6, <1>11, <1>13, <1>14 DEF Kept, Makes
<1>16. ASSUME NEW d \in db'
       PROVE  \/ /\ d \in db
                 /\ o.op = "modify_column" =>
                      ~(d.kind = "column" /\ d.table = o.object.table /\ d.on = o.object.on)
              \/ /\ o.op \in Adding \cup {"modify_column"}
                 /\ \E y \in Makes(o) : /\ Is(d, y) /\ d.kind = y.kind /\ d.table = y.table
                 /\ o.op = "add_column" => d.table = o.object.table /\ d.on = o.object.on
                 /\ o.op = "create_table" => d.table = o.object.table
                 /\ o.op = "modify_column" =>
                      /\ d.kind = "column" /\ d.table = o.object.table /\ d.on = o.object.on
                      /\ HasColumn(d.table, d.on)
                 /\ o.op \in Adding \ {"add_column", "create_table"} => d = o.object
    BY <1>1, <1>2, <1>4, <1>5, MadeAre
<1>17. ASSUME NEW p \in next, p.op \in Dropping \ {"drop_column"}
       PROVE  p.object \notin db'
  <2>1. PICK y : y = p.object
      OBVIOUS
  <2>2. CASE p = o
    <3>1. db' = db \ {y}
        BY <1>1, <1>17, <2>1, <2>2 DEF Effect, Dropping
    <3> QED
        BY <2>1, <3>1
  <2>3. CASE p \in ended
    <3>1. y \notin db
        BY <1>2, <1>6, <1>17, <2>1, <2>3 DEF Books, Gone
    <3>2. y \in before /\ y.kind # "column"
      <4>1. p \in G /\ p.op \in {"drop_unique", "drop_index", "drop_check", "drop_fk"}
          BY <1>7, <1>17, <2>3 DEF Dropping
      <4>2. Fit(p) /\ Meant(p)
          BY <1>4, <4>1
      <4>3. y.kind # "column"
          BY <2>1, <4>1, <4>2 DEF Fit
      <4> QED
          BY <2>1, <4>1, <4>2, <4>3 DEF Meant, Dropping
    <3>3. /\ o.op = "create_table" => y.table # o.object.table
          /\ o.op = "add_column" => ~(y.table = o.object.table /\ y.on = o.object.on)
          /\ o.op \in Adding => y # o.object
        BY <1>8, <3>2 DEF Fresh
    <3>4. y \notin db'
        BY <1>16, <3>1, <3>2, <3>3 DEF Adding
    <3> QED
        BY <2>1, <3>4
  <2> QED
      BY <1>7, <2>2, <2>3
<1>18. ASSUME NEW p \in next, p.op = "drop_column"
       PROVE  ~HasColumn(p.object.table, p.object.on)'
  <2>1. PICK y : y = p.object
      OBVIOUS
  <2>2. CASE p = o
    <3>1. db' = db \ On(y.table, y.on)
        BY <1>1, <1>18, <2>1, <2>2 DEF Effect
    <3> QED
        BY <2>1, <3>1 DEF HasColumn, Of, On
  <2>3. CASE p \in ended
    <3>1. ~HasColumn(y.table, y.on)
        BY <1>2, <1>6, <1>18, <2>1, <2>3 DEF Books, Gone
    <3>2. Rank(p) <= Rank(o) /\ Rank(p) = 12 /\ Rank(o) \in 1..13
        BY <1>2, <1>3, <1>4, <1>6, <1>7, <1>18, <2>3, GeneratedRank DEF Books
    <3>3. Rank(o) = 12 \/ Rank(o) = 13
        BY <3>2
    <3>4. o.op \in {"drop_column", "modify_column"}
        BY <1>3, <1>4, <3>3, GeneratedRank
    <3>5. ASSUME NEW d \in db', d.kind = "column", d.table = y.table, d.on = y.on
          PROVE  FALSE
      <4>1. d \in db => HasColumn(d.table, d.on)
          BY <3>5 DEF HasColumn, Of
      <4> QED
          BY <1>16, <3>1, <3>4, <3>5, <4>1 DEF Adding
    <3> QED
        BY <2>1, <3>5 DEF HasColumn, Of
  <2> QED
      BY <1>7, <2>2, <2>3
<1>19. Gone'
    BY <1>6, <1>17, <1>18 DEF Gone
<1>20. ASSUME NEW d \in db'
       PROVE  AsBefore(d)' \/ \E p \in next : \E y \in Makes(p) : Is(d, y)
  <2>1. CASE \E y \in Makes(o) : Is(d, y)
      BY <1>7, <2>1
  <2>2. CASE ~\E y \in Makes(o) : Is(d, y)
    <3>1. /\ d \in db
          /\ o.op = "modify_column" =>
               ~(d.kind = "column" /\ d.table = o.object.table /\ d.on = o.object.on)
        BY <1>16, <2>2
    <3>2. AsBefore(d) \/ \E p \in ended : \E y \in Makes(p) : Is(d, y)
        BY <1>2, <1>6, <3>1 DEF Books, Origin
    <3>3. CASE AsBefore(d)
        BY <1>1, <1>6, <1>7, <3>1, <3>3 DEF AsBefore
    <3> QED
        BY <1>7, <3>2, <3>3
  <2> QED
      BY <2>1, <2>2
<1>21. Origin'
    BY <1>6, <1>20 DEF Origin, Is, Makes
<1> QED
    BY <1>6, <1>9, <1>10, <1>15, <1>19, <1>21 DEF Books

\* Every step keeps the invariant.
LEMMA GenerateSettles ==
  ASSUME SyncInv, SettleInv, Generate
  PROVE  SettleInv'
<1>1. /\ stage = "comparing" /\ stage' \in {"running", "done"} /\ db = before
      /\ db' = db /\ before' = before /\ models' = models
      /\ SoundModels(models) /\ SoundDatabase(db)
      /\ stage' = IF todo' = {} THEN "done" ELSE "running"
    BY DEF Generate, SyncInv
<1>2. data \cup Throughs = AllOperations
    BY <1>1 DEF SettleInv, Generate, AllOperations
<1>3. PICK G : G = Generated(data')
    OBVIOUS
<1>4. G = Generated(WithoutChurn(AllOperations)) /\ todo' = G
    BY <1>2, <1>3 DEF Generate
<1>5. \A o \in G : Found(o, db)
    BY <1>1, <1>4, GeneratedFound
<1>6. AllNew(G, db) /\ AllOld(G, db)
    BY <1>1, <1>4, NewMissed, OldMissed
<1>7. PICK S : S = db
    OBVIOUS
<1>8. (\A o \in G : Found(o, S)) /\ AllNew(G, S) /\ AllOld(G, S)
    BY <1>5, <1>6, <1>7
<1>9. /\ \A o \in Generated(data') : Found(o, before)'
      /\ AllNew(Generated(data), before)'
      /\ AllOld(Generated(data), before)'
    BY <1>1, <1>3, <1>7, <1>8, FoundBefore
<1>10. Done' = {}
    BY <1>3, <1>4 DEF Done
<1>11. Kept'
    BY <1>1, <1>10 DEF Kept, Held, HasColumn, Of
<1>12. Origin'
    BY <1>1, <1>10 DEF Origin, AsBefore
<1>13. Books'
    BY <1>10, <1>11, <1>12 DEF Books, Gone
<1> QED
    BY <1>1, <1>9, <1>13 DEF SettleInv

LEMMA ExecuteSettles ==
  ASSUME SyncInv, UndoInv, SettleInv, NEW o \in todo, Execute(o)
  PROVE  SettleInv'
<1>1. /\ stage = "running" /\ data' = data /\ before' = before /\ models' = models
      /\ stage' = IF todo' = {} THEN "done" ELSE "running"
    BY DEF Execute
<1>2. PICK G, S : G = Generated(data') /\ S = before'
    OBVIOUS
<1>3. (\A p \in G : Found(p, S)) /\ AllNew(G, S) /\ AllOld(G, S)
    BY <1>1, <1>2 DEF SettleInv
<1>4. /\ \A p \in Generated(data') : Found(p, before)'
      /\ AllNew(Generated(data), before)'
      /\ AllOld(Generated(data), before)'
    BY <1>1, <1>2, <1>3, FoundBefore
<1>5. Books'
    BY ExecuteBooks
<1> QED
    BY <1>1, <1>4, <1>5 DEF SettleInv

LEMMA CompareSettles ==
  ASSUME SettleInv, Start \/ \E t \in Tables : Compare(t)
  PROVE  SettleInv'
<1>1. CASE Start
    BY <1>1 DEF Start, SettleInv
<1>2. CASE \E t \in Tables : Compare(t)
  <2>1. PICK t \in Tables : Compare(t)
      BY <1>2
  <2>2. /\ stage = "comparing" /\ stage' = "comparing" /\ compared' = compared \cup {t}
        /\ data' = data \cup Compared(t) /\ db' = db /\ models' = models
      BY <2>1 DEF Compare
  <2>3. compared \subseteq Tables /\ data = UNION {Compared(u) : u \in compared}
      BY <2>2 DEF SettleInv
  <2>4. data' = UNION {Compared(u) : u \in compared'}
      BY <2>2, <2>3
  <2>5. Tables' = Tables /\ \A u : Compared(u)' = Compared(u)
      BY <2>2, ModelsStay, ComparedStays
  <2>6. data' = UNION {Compared(u)' : u \in compared'}
      BY <2>4, <2>5
  <2>7. compared' \subseteq Tables'
      BY <2>2, <2>3, <2>5
  <2> QED
      BY <2>2, <2>6, <2>7 DEF SettleInv
<1> QED
    BY <1>1, <1>2

LEMMA StutterSettles ==
  ASSUME SettleInv, UNCHANGED vars
  PROVE  SettleInv'
<1>1. /\ db' = db /\ models' = models /\ stage' = stage /\ compared' = compared /\ data' = data
      /\ todo' = todo /\ before' = before
    BY DEF vars
<1>2. Tables' = Tables /\ \A u : Compared(u)' = Compared(u)
    BY <1>1, ModelsStay, ComparedStays
<1>3. stage' = "comparing" =>
        compared' \subseteq Tables' /\ data' = UNION {Compared(u)' : u \in compared'}
    BY <1>1, <1>2 DEF SettleInv
<1>4. ASSUME stage' \in {"running", "done"}
      PROVE  /\ \A o \in Generated(data') : Found(o, before)'
             /\ AllNew(Generated(data), before)'
             /\ AllOld(Generated(data), before)'
             /\ Books'
  <2>1. PICK G, S : G = Generated(data') /\ S = before'
      OBVIOUS
  <2>2. (\A o \in G : Found(o, S)) /\ AllNew(G, S) /\ AllOld(G, S) /\ Books
      BY <1>1, <1>4, <2>1 DEF SettleInv
  <2>3. /\ \A o \in Generated(data') : Found(o, before)'
        /\ AllNew(Generated(data), before)'
        /\ AllOld(Generated(data), before)'
      BY <1>1, <2>1, <2>2, FoundBefore
  <2>4. Done' = Done
      BY <1>1 DEF Done
  <2>5. Kept'
      BY <1>1, <2>2, <2>4 DEF Books, Kept, Held, HasColumn, Takes, Makes
  <2>6. Gone'
      BY <1>1, <2>2, <2>4 DEF Books, Gone, HasColumn
  <2>7. Origin'
      BY <1>1, <2>2, <2>4 DEF Books, Origin, AsBefore, Makes, Is
  <2>8. \A p : Fresh(p)' <=> Fresh(p)
      BY <1>1 DEF Fresh
  <2>9. Books'
      BY <1>1, <2>2, <2>4, <2>5, <2>6, <2>7, <2>8 DEF Books
  <2> QED
      BY <2>3, <2>9
<1>5. stage' = "done" => todo' = {}
    BY <1>1 DEF SettleInv
<1> QED
    BY <1>3, <1>4, <1>5 DEF SettleInv

\* What a sync does is what it found, and it keeps the books of what is done.
THEOREM SettleInvariant == Spec => []SettleInv
<1>1. Init => SettleInv
    BY DEF Init, SettleInv
<1>2. SyncInv /\ UndoInv /\ SettleInv /\ [Next]_vars => SettleInv'
  <2>1. SUFFICES ASSUME SyncInv, UndoInv, SettleInv, [Next]_vars PROVE SettleInv'
      OBVIOUS
  <2>2. CASE Start \/ \E t \in Tables : Compare(t)
      BY <2>1, <2>2, CompareSettles
  <2>3. CASE Generate
      BY <2>1, <2>3, GenerateSettles
  <2>4. CASE \E o \in todo : Execute(o)
      BY <2>1, <2>4, ExecuteSettles
  <2>5. CASE (\E o \in todo : Refuse(o)) \/ Interrupt \/ RollBack
    <3>1. stage' \in {"refused", "cut", "undoing"}
        BY <2>5 DEF Refuse, Interrupt, RollBack
    <3> QED
        BY <3>1 DEF SettleInv
  <2>6. CASE Undo
    <3>1. stage' \in {"undoing", "stuck"}
        BY <2>6 DEF Undo
    <3> QED
        BY <3>1 DEF SettleInv
  <2>7. CASE UNCHANGED vars
      BY <2>1, <2>7, StutterSettles
  <2> QED
      BY <2>1, <2>2, <2>3, <2>4, <2>5, <2>6, <2>7 DEF Next
<1> QED
    BY <1>1, <1>2, SyncInvariant, UndoInvariant, PTL DEF Spec

-----------------------------------------------------------------------------
(* The statements are accepted.                                               *)

\* What is known while the statements run, and when they have.
LEMMA Working ==
  ASSUME SyncInv, UndoInv, SettleInv, stage \in {"running", "done"}
  PROVE  /\ SoundModels(models) /\ SoundDatabase(before) /\ SoundDatabase(db)
         /\ \A p \in Generated(data) : p.op \in Statements /\ Fit(p) /\ Meant(p) /\ Found(p, before)
         /\ Done \subseteq Generated(data) /\ todo \subseteq Generated(data)
         /\ \A p \in Done : Fresh(p)
         /\ AllNew(Generated(data), before) /\ AllOld(Generated(data), before)
         /\ Kept /\ Gone /\ Origin
<1>1. SoundModels(models) /\ SoundDatabase(before) /\ SoundDatabase(db)
    BY DEF SyncInv
<1>2. ASSUME NEW p \in Generated(data)
      PROVE  p.op \in Statements /\ Fit(p) /\ Meant(p) /\ Found(p, before)
  <2>1. Fit(p) /\ Meant(p)
      BY DEF UndoInv, Running
  <2>2. Found(p, before)
      BY DEF SettleInv
  <2> QED
      BY <2>1, <2>2, GeneratedAre
<1>3. Done \subseteq Generated(data) /\ todo \subseteq Generated(data)
    BY DEF Done, UndoInv, Running
<1>4. AllNew(Generated(data), before) /\ AllOld(Generated(data), before) /\ Books
    BY DEF SettleInv
<1> QED
    BY <1>1, <1>2, <1>3, <1>4 DEF Books

\* What is done when it is the turn of o.
LEMMA Turn ==
  ASSUME SyncInv, UndoInv, SettleInv, stage = "running", NEW o \in Due
  PROVE  /\ o \in Generated(data) /\ o \notin Done
         /\ \A p \in Done : Rank(p) <= Rank(o)
         /\ \A p \in Generated(data) : Rank(p) < Rank(o) => p \in Done
<1>1. o \in todo /\ \A p \in todo : Rank(o) <= Rank(p)
    BY DEF Due
<1>2. o \in Generated(data)
    BY <1>1, Working
<1>3. \A p \in Done : Rank(p) <= Rank(o)
    BY <1>1 DEF SettleInv, Books
<1>4. ASSUME NEW p \in Generated(data), Rank(p) < Rank(o)
      PROVE  p \in Done
  <2>1. Rank(p) \in 1..13 /\ Rank(o) \in 1..13
      BY <1>2, GeneratedRank
  <2>2. ~(Rank(o) <= Rank(p))
      BY <1>4, <2>1
  <2> QED
      BY <1>1, <2>2 DEF Done
<1> QED
    BY <1>1, <1>2, <1>3, <1>4 DEF Done

\* One statement of a kind is about an object, or creates a table.
LEMMA SameStatement ==
  ASSUME NEW S, NEW o, Found(o, S), NEW p, Found(p, S), o.op = p.op, o.object = p.object
  PROVE  o = p
<1>1. /\ o = [op |-> o.op, object |-> o.object, with |-> o.with]
      /\ p = [op |-> p.op, object |-> p.object, with |-> p.with]
    BY DEF Found
<1>2. o.with = p.with
  <2>1. CASE o.op = "create_table"
    <3>1. PICK t : t = o.object.table
        OBVIOUS
    <3>2. CASE t \in Tables
        BY <2>1, <3>1, <3>2 DEF Found, FoundNew
    <3>3. CASE t \notin Tables
      <4>1. PICK m \in Processed :
              m.ref[1] = t /\ o.with = {KeyColumn(t, s[1], s[2]) : s \in Sides(m)}
          BY <2>1, <3>1, <3>3 DEF Found, FoundNew
      <4>2. PICK n \in Processed :
              n.ref[1] = t /\ p.with = {KeyColumn(t, s[1], s[2]) : s \in Sides(n)}
          BY <2>1, <3>1, <3>3 DEF Found, FoundNew
      <4>3. m = n
          BY <4>1, <4>2, ProcessedOnce
      <4> QED
          BY <4>1, <4>2, <4>3
    <3> QED
        BY <3>2, <3>3
  <2>2. CASE o.op # "create_table"
      BY <2>2 DEF Found
  <2> QED
      BY <2>1, <2>2
<1> QED
    BY <1>1, <1>2

\* What makes an object of each kind.
LEMMA MakesIs ==
  ASSUME NEW S, NEW p, p.op \in Statements, Fit(p), Found(p, S), NEW y \in Makes(p)
  PROVE  /\ y.table = p.object.table
         /\ y = Object(y.kind, y.table, y.name, y.on, y.ref, y.def)
         /\ y.kind = "table" => p.op = "create_table" /\ p.object = y
         /\ y.kind = "fk" => p.op = "add_fk" /\ p.object = y
         /\ y.kind = "pk" => p.op = "create_table" \/ (p.op = "add_pk" /\ p.object = y)
         /\ y.kind = "unique" => p.op = "add_unique" /\ p.object = y
         /\ y.kind = "index" => p.op = "create_index" /\ p.object = y
         /\ y.kind = "check" => p.op = "add_check" /\ p.object = y
         /\ y.kind = "column" =>
              p.op = "create_table" \/ (p.op \in {"add_column", "modify_column"} /\ p.object = y)
<1>1. PICK x : x = p.object
    OBVIOUS
<1>2. /\ p.op \in Adding \cup {"modify_column"}
      /\ y = x \/ (p.op = "create_table" /\ y \in p.with)
    BY <1>1 DEF Makes, Found
<1>3. CASE p.op = "create_table"
  <2>1. CASE y = x
    <3>1. x = TableObject(x.table)
        BY <1>1, <1>3 DEF Fit
    <3>2. PICK t : t = x.table
        OBVIOUS
    <3>3. x.kind = "table"
        BY <3>1, <3>2, TableFields
    <3>4. y = Object(y.kind, y.table, y.name, y.on, y.ref, y.def)
        BY <1>1, <2>1 DEF Fit
    <3> QED
        BY <1>1, <1>3, <2>1, <3>3, <3>4
  <2>2. CASE y \in p.with
    <3>1. /\ y = Object(y.kind, y.table, y.name, y.on, y.ref, y.def)
          /\ y.table = x.table /\ y.kind \in {"column", "pk"}
        BY <1>1, <1>3, <2>2 DEF Fit
    <3> QED
        BY <1>1, <1>3, <3>1
  <2> QED
      BY <1>2, <2>1, <2>2
<1>4. CASE p.op # "create_table"
  <2>1. y = x /\ y = Object(y.kind, y.table, y.name, y.on, y.ref, y.def)
      BY <1>1, <1>2, <1>4 DEF Fit
  <2>2. \/ p.op \in {"add_column", "modify_column"} /\ y.kind = "column"
        \/ p.op = "add_pk" /\ y.kind = "pk"
        \/ p.op = "add_fk" /\ y.kind = "fk"
        \/ p.op = "add_unique" /\ y.kind = "unique"
        \/ p.op = "create_index" /\ y.kind = "index"
        \/ p.op = "add_check" /\ y.kind = "check"
      BY <1>1, <1>2, <1>4, <2>1 DEF Fit, Adding
  <2> QED
      BY <1>1, <2>1, <2>2
<1> QED
    BY <1>3, <1>4

\* Whose wish what is made was.
LEMMA MakesFor ==
  ASSUME NEW S, NEW p, p.op \in Statements, Fit(p), Found(p, S), NEW y \in Makes(p)
  PROVE  /\ y.kind \in {"pk", "unique", "index", "check"} => y \in models
         /\ y.kind = "column" =>
              /\ y.table \in Tables => y \in models
              /\ y.table \notin Tables => \E m \in Processed :
                   m.ref[1] = y.table /\ \E s \in Sides(m) : y = KeyColumn(y.table, s[1], s[2])
         /\ y.kind = "fk" => Asked(y, S)
<1>1. PICK t : t = p.object.table
    OBVIOUS
<1>2. /\ y.table = t
      /\ y.kind = "fk" => p.op = "add_fk" /\ p.object = y
      /\ y.kind = "pk" => p.op = "create_table" \/ (p.op = "add_pk" /\ p.object = y)
      /\ y.kind = "unique" => p.op = "add_unique" /\ p.object = y
      /\ y.kind = "index" => p.op = "create_index" /\ p.object = y
      /\ y.kind = "check" => p.op = "add_check" /\ p.object = y
      /\ y.kind = "column" =>
           p.op = "create_table" \/ (p.op \in {"add_column", "modify_column"} /\ p.object = y)
    BY <1>1, MakesIs
<1>3. CASE p.op = "create_table" /\ y.kind \in {"column", "pk"}
  <2>1. y # p.object
    <3>1. PICK x : x = p.object
        OBVIOUS
    <3>2. x = TableObject(t)
        BY <1>1, <1>3, <3>1 DEF Fit
    <3>3. x.kind = "table"
        BY <3>2, TableFields
    <3> QED
        BY <1>3, <3>1, <3>3
  <2>2. y \in p.with
      BY <2>1 DEF Makes
  <2>3. CASE t \in Tables
    <3>1. p.with = Of(models, "column", t) \cup Of(models, "pk", t)
        BY <1>1, <1>3, <2>3 DEF Found, FoundNew
    <3> QED
        BY <1>2, <1>3, <2>2, <2>3, <3>1 DEF Of
  <2>4. CASE t \notin Tables
    <3>1. PICK m \in Processed :
            m.ref[1] = t /\ p.with = {KeyColumn(t, s[1], s[2]) : s \in Sides(m)}
        BY <1>1, <1>3, <2>4 DEF Found, FoundNew
    <3>2. PICK s \in Sides(m) : y = KeyColumn(t, s[1], s[2])
        BY <2>2, <3>1
    <3>3. y.kind = "column"
        BY <3>2, KeyColumnFields
    <3> QED
        BY <1>2, <2>4, <3>1, <3>2, <3>3
  <2> QED
      BY <2>3, <2>4
<1>4. CASE y.kind = "column" /\ p.op = "add_column"
    BY <1>1, <1>2, <1>4 DEF Found, FoundNew
<1>5. CASE y.kind = "column" /\ p.op = "modify_column"
    BY <1>1, <1>2, <1>5 DEF Found, FoundOld
<1>6. CASE y.kind \in {"pk", "unique", "index", "check"} /\ p.op # "create_table"
    BY <1>2, <1>6 DEF Found, FoundNew
<1>7. CASE y.kind = "fk"
    BY <1>2, <1>7 DEF Found, FoundNew
<1> QED
    BY <1>2, <1>3, <1>4, <1>5, <1>6, <1>7

\* Before its turn to be dropped, a column of before is there, and a primary key that is
\* not taken for a unique constraint.
LEMMA StillHeld ==
  ASSUME SyncInv, UndoInv, SettleInv, stage = "running", NEW o \in Due, Rank(o) < 12,
         NEW b \in before, b.kind \in {"table", "column"} \/ (b.kind = "pk" /\ b.name \in PkNames)
  PROVE  Held(b)
<1>1. SUFFICES ASSUME NEW q \in Done, Takes(q, b) PROVE FALSE
    BY Working DEF Kept
<1>2. q \in Generated(data) /\ Fit(q) /\ Rank(q) <= Rank(o) /\ o \in Generated(data)
    BY Working, Turn
<1>3. Rank(q) \in 1..13 /\ Rank(o) \in 1..13 /\ (q.op = "drop_column" => Rank(q) = 12)
    BY <1>2, GeneratedRank
<1>4. q.op # "drop_column"
    BY <1>2, <1>3
<1>5. q.op \in {"drop_unique", "drop_index", "drop_check", "drop_fk"} /\ q.object = b
    BY <1>1, <1>4 DEF Takes, Dropping
<1>6. \/ q.object.kind \in {"unique", "index", "check", "fk"}
      \/ q.object.kind = "pk" /\ q.object.name \notin PkNames
    BY <1>2, <1>5 DEF Fit
<1> QED
    BY <1>5, <1>6

\* What is made is there, as long as no column is dropped.
LEMMA MadeStays ==
  ASSUME SyncInv, UndoInv, SettleInv, stage = "running", NEW o \in Due, Rank(o) < 12,
         NEW p \in Generated(data), Rank(p) < Rank(o), NEW y \in Makes(p)
  PROVE  Held(y)
<1>1. p \in Done /\ o \in Generated(data)
    BY Turn
<1>2. SUFFICES ASSUME NEW q \in Done, Takes(q, y) PROVE FALSE
    BY <1>1, Working DEF Kept
<1>3. q \in Generated(data) /\ Fit(q) /\ Meant(q) /\ Rank(q) <= Rank(o)
    BY Working, Turn
<1>4. Rank(q) \in 1..13 /\ Rank(o) \in 1..13 /\ (q.op = "drop_column" => Rank(q) = 12)
    BY <1>1, <1>3, GeneratedRank
<1>5. q.op # "drop_column"
    BY <1>3, <1>4
<1>6. y \in before
    BY <1>2, <1>3, <1>5 DEF Takes, Meant
<1>7. p.op \in Statements /\ Fit(p) /\ Found(p, before) /\ Fresh(p)
    BY <1>1, Working
<1>8. y.table = p.object.table /\ (y = p.object \/ p.op = "create_table")
  <2>1. y.table = p.object.table
      BY <1>7, MakesIs
  <2> QED
      BY <1>7, <2>1 DEF Makes, Found
<1>9. p.op \in Adding
  <2>1. Rank(p) \in 1..13 /\ (p.op = "modify_column" => Rank(p) = 13)
      BY GeneratedRank
  <2>2. p.op # "modify_column"
      BY <1>4, <2>1
  <2> QED
      BY <2>2 DEF Makes
<1> QED
    BY <1>6, <1>7, <1>8, <1>9 DEF Fresh

\* The columns of the models are there when keys, constraints and indexes are made.
LEMMA ModelColumn ==
  ASSUME SyncInv, UndoInv, SettleInv, stage = "running", NEW o \in Due,
         Rank(o) \in 3..11, NEW c \in models, c.kind = "column"
  PROVE  HasColumn(c.table, c.on)
<1>1. Rank(o) < 12 /\ 2 < Rank(o)
    OBVIOUS
<1>2. CASE HasAt(before, c.table, c.on)
  <2>1. PICK b \in before : b.kind = "column" /\ b.table = c.table /\ b.on = c.on
      BY <1>2 DEF HasAt
  <2>2. Held(b)
      BY <1>1, <2>1, StillHeld
  <2> QED
      BY <2>1, <2>2 DEF Held
<1>3. CASE ~HasAt(before, c.table, c.on)
  <2>1. Made(c, Generated(data))
      BY <1>3, Working DEF AllNew
  <2>2. PICK p \in Generated(data) : c \in Makes(p)
      BY <2>1 DEF Made
  <2>3. p.op \in Statements /\ Fit(p) /\ Found(p, before)
      BY Working
  <2>4. p.op = "create_table" \/ (p.op \in {"add_column", "modify_column"} /\ p.object = c)
      BY <2>2, <2>3, MakesIs
  <2>5. p.op # "modify_column"
      BY <1>3, <2>3, <2>4 DEF Found, FoundOld, Changed, HasAt
  <2>6. Rank(p) <= 2
      BY <2>4, <2>5, GeneratedRank
  <2>7. Rank(p) \in 1..13 /\ Rank(o) \in 1..13
      BY GeneratedRank, Turn
  <2>8. Rank(p) < Rank(o)
      BY <1>1, <2>6, <2>7
  <2>9. Held(c)
      BY <1>1, <2>2, <2>8, MadeStays
  <2> QED
      BY <2>9 DEF Held
<1> QED
    BY <1>2, <1>3

\* So are the columns of the sides of a through table.
LEMMA SideColumn ==
  ASSUME SyncInv, UndoInv, SettleInv, stage = "running", NEW o \in Due,
         Rank(o) \in 3..11, NEW m \in Processed, NEW s \in Sides(m)
  PROVE  HasColumn(m.ref[1], s[1])
<1>1. Rank(o) < 12 /\ 2 < Rank(o)
    OBVIOUS
<1>2. PICK t, c : t = m.ref[1] /\ c = KeyColumn(t, s[1], s[2])
    OBVIOUS
<1>3. c.kind = "column" /\ c.table = t /\ c.on = s[1]
    BY <1>2, KeyColumnFields
<1>4. CASE HasAt(before, t, s[1])
  <2>1. PICK b \in before : b.kind = "column" /\ b.table = t /\ b.on = s[1]
      BY <1>4 DEF HasAt
  <2>2. Held(b)
      BY <1>1, <2>1, StillHeld
  <2> QED
      BY <1>2, <2>1, <2>2 DEF Held
<1>5. CASE ~HasAt(before, t, s[1])
  <2>1. Made(c, Generated(data))
      BY <1>2, <1>5, Working DEF AllNew, HasAt
  <2>2. PICK p \in Generated(data) : c \in Makes(p)
      BY <2>1 DEF Made
  <2>3. p.op \in Statements /\ Fit(p) /\ Found(p, before)
      BY Working
  <2>4. p.op = "create_table" \/ (p.op \in {"add_column", "modify_column"} /\ p.object = c)
      BY <1>3, <2>2, <2>3, MakesIs
  <2>5. p.op # "modify_column"
      BY <1>3, <1>5, <2>3, <2>4 DEF Found, FoundOld, Changed, HasAt
  <2>6. Rank(p) <= 2
      BY <2>4, <2>5, GeneratedRank
  <2>7. Rank(p) \in 1..13 /\ Rank(o) \in 1..13
      BY GeneratedRank, Turn
  <2>8. Rank(p) < Rank(o)
      BY <1>1, <2>6, <2>7
  <2>9. Held(c)
      BY <1>1, <2>2, <2>8, MadeStays
  <2> QED
      BY <1>2, <1>3, <2>9 DEF Held
<1> QED
    BY <1>4, <1>5

\* What a relation says of its through table and its sides.
LEMMA SidesFacts ==
  ASSUME SoundModels(models), NEW m \in models, m.kind = "m2m"
  PROVE  /\ \A s \in Sides(m) : \E k \in models : k.kind = "pk" /\ k.table = s[2]
         /\ \A s \in Sides(m) : m.name # FkName(m.ref[1], s[1], s[2])
         /\ \A y \in models : y.kind = "fk" /\ y.table = m.ref[1] => y.name # m.name
         /\ m.ref[1] \in Tables =>
              \E c \in models : c.kind = "column" /\ c.table = m.ref[1] /\ c.on = m.on
<1>1. SoundRelation(m, models)
    BY RelationFacts
<1>2. \A s \in Sides(m) : Of(models, "pk", s[2]) # {} /\ m.name # FkName(m.ref[1], s[1], s[2])
    BY <1>1 DEF SoundRelation
<1>3. \A y \in models : y.table = m.ref[1] =>
        /\ y.kind = "fk" => y.name # m.name
        /\ \E c \in Of(models, "column", y.table) : c.on = m.on
    BY <1>1 DEF SoundRelation
<1>4. ASSUME m.ref[1] \in Tables
      PROVE  \E c \in models : c.kind = "column" /\ c.table = m.ref[1] /\ c.on = m.on
  <2>1. PICK y \in models : y.table = m.ref[1]
      BY <1>4 DEF Tables
  <2> QED
      BY <1>3, <2>1 DEF Of
<1> QED
    BY <1>2, <1>3, <1>4 DEF Of

\* The primary key of a model.
LEMMA PkIs ==
  ASSUME SoundModels(models), NEW k \in models, k.kind = "pk"
  PROVE  Pk(k.table) = k.on
<1>1. PICK t : t = k.table
    OBVIOUS
<1>2. k \in Of(models, "pk", t) /\ \A x \in Of(models, "pk", t) : x = k
    BY <1>1, NamesDiffer DEF Of
<1>3. {o.on : o \in Of(models, "pk", t)} = {k.on}
    BY <1>2
<1>4. Pk(t) = CHOOSE c \in {k.on} : TRUE
    BY <1>2, <1>3 DEF Pk
<1> QED
    BY <1>1, <1>4

\* A foreign key that is asked for refers to the primary key of a model.
LEMMA AskedKey ==
  ASSUME SoundModels(models), NEW S, NEW x, Asked(x, S)
  PROVE  \E k \in models : k.kind = "pk" /\ k.table = x.ref[1] /\ k.on = x.ref[2]
<1>1. CASE x \in models /\ x.kind = "fk"
    BY <1>1, NamesDiffer
<1>2. CASE \E m \in Relations(models) : x = RelationKey(m)
  <2>1. PICK m \in models : m.kind = "m2m" /\ x = RelationKey(m)
      BY <1>2 DEF Relations
  <2>2. x.ref = <<m.table, Pk(m.table)>>
      BY <2>1, RelationKeyFields
  <2>3. PICK left : left = Left(m)
      OBVIOUS
  <2>4. left \in Sides(m) /\ left[2] = m.table
      BY <2>3, SidesAre, SideFields
  <2>5. PICK k \in models : k.kind = "pk" /\ k.table = m.table
      BY <2>1, <2>4, SidesFacts
  <2>6. Pk(m.table) = k.on
      BY <2>5, PkIs
  <2> QED
      BY <2>2, <2>5, <2>6
<1>3. CASE \E m \in Processed : \E s \in Sides(m) : x = SideKey(m, s)
  <2>1. PICK m \in Processed : \E s \in Sides(m) : x = SideKey(m, s)
      BY <1>3
  <2>2. PICK s \in Sides(m) : x = SideKey(m, s)
      BY <2>1
  <2>3. m \in models /\ m.kind = "m2m"
      BY ProcessedAre
  <2>4. PICK k \in models : k.kind = "pk" /\ k.table = s[2]
      BY <2>3, SidesFacts
  <2>5. Pk(s[2]) = k.on
      BY <2>4, PkIs
  <2>6. x = Object("fk", m.ref[1], FkName(m.ref[1], s[1], s[2]), s[1], <<s[2], Pk(s[2])>>, m.def)
      BY <2>2 DEF SideKey, ForeignKey
  <2>7. x.ref = <<s[2], Pk(s[2])>>
      BY <2>6, ObjectFields
  <2> QED
      BY <2>4, <2>5, <2>7
<1> QED
    BY <1>1, <1>2, <1>3 DEF Asked

\* The fields of the key of a side.
LEMMA SideKeyIs ==
  ASSUME NEW m, NEW s, NEW x, x = SideKey(m, s)
  PROVE  /\ x.kind = "fk" /\ x.table = m.ref[1] /\ x.on = s[1] /\ x.ref = <<s[2], Pk(s[2])>>
         /\ x.name = FkName(m.ref[1], s[1], s[2]) /\ x.def = m.def
<1>1. x = Object("fk", m.ref[1], FkName(m.ref[1], s[1], s[2]), s[1], <<s[2], Pk(s[2])>>, m.def)
    BY DEF SideKey, ForeignKey
<1> QED
    BY <1>1, ObjectFields

\* Foreign keys that are asked for have different names.
LEMMA AskedOnce ==
  ASSUME SoundModels(models), NEW S, NEW x, Asked(x, S), NEW y, Asked(y, S),
         x.table = y.table, x.name = y.name
  PROVE  x = y
<1> DEFINE own(z) == z \in models /\ z.kind = "fk"
           left(z) == \E m \in models : m.kind = "m2m" /\ z = RelationKey(m)
           side(z) == \E m \in Processed : \E s \in Sides(m) : z = SideKey(m, s)
<1>1. \A z : Asked(z, S) => own(z) \/ left(z) \/ side(z)
    BY DEF Asked, Relations
<1>2. ASSUME NEW z, side(z)
      PROVE  \E m \in models : /\ m.kind = "m2m" /\ m.ref[1] = z.table /\ z.table \notin Tables
                               /\ m \in Processed
                               /\ \E s \in Sides(m) : /\ z.name = FkName(m.ref[1], s[1], s[2])
                                                      /\ z = SideKey(m, s)
    BY <1>2, ProcessedAre, SideKeyIs
<1>3. ASSUME NEW z, left(z)
      PROVE  \E m \in models : /\ m.kind = "m2m" /\ z = RelationKey(m)
                               /\ m.ref[1] = z.table /\ m.name = z.name
    BY <1>3, RelationKeyFields
<1> HIDE DEF left, side
<1>4. ASSUME NEW a, NEW b, a.table = b.table, a.name = b.name, own(a), own(b)
      PROVE  a = b
  <2>1. Clash(a, b)
      BY <1>4 DEF Clash
  <2> QED
      BY <1>4, <2>1, NamesDiffer
<1>5. ASSUME NEW a, NEW b, a.table = b.table, a.name = b.name, own(a), left(b)
      PROVE  FALSE
    BY <1>3, <1>5, SidesFacts
<1>6. ASSUME NEW a, NEW b, a.table = b.table, a.name = b.name, own(a), side(b)
      PROVE  FALSE
    BY <1>2, <1>6, ModelTables
<1>7. ASSUME NEW a, NEW b, a.table = b.table, a.name = b.name, left(a), left(b)
      PROVE  a = b
  <2>1. PICK m \in models : m.kind = "m2m" /\ a = RelationKey(m) /\ m.ref[1] = a.table /\ m.name = a.name
      BY <1>3, <1>7
  <2>2. PICK n \in models : n.kind = "m2m" /\ b = RelationKey(n) /\ n.ref[1] = b.table /\ n.name = b.name
      BY <1>3, <1>7
  <2>3. m = n
      BY <1>7, <2>1, <2>2, RelationFacts
  <2> QED
      BY <2>1, <2>2, <2>3
<1>8. ASSUME NEW a, NEW b, a.table = b.table, a.name = b.name, left(a), side(b)
      PROVE  FALSE
  <2>1. PICK m \in models : m.kind = "m2m" /\ m.ref[1] = a.table /\ m.name = a.name
      BY <1>3, <1>8
  <2>2. PICK n \in models : /\ n.kind = "m2m" /\ n.ref[1] = b.table
                            /\ \E s \in Sides(n) : b.name = FkName(n.ref[1], s[1], s[2])
      BY <1>2, <1>8
  <2>3. PICK s \in Sides(n) : b.name = FkName(n.ref[1], s[1], s[2])
      BY <2>2
  <2>4. s \in Sides(m)
      BY <1>8, <2>1, <2>2, <2>3, RelationFacts
  <2>5. m.name # FkName(m.ref[1], s[1], s[2])
      BY <2>1, <2>4, SidesFacts
  <2> QED
      BY <1>8, <2>1, <2>2, <2>3, <2>5
<1>9. ASSUME NEW a, NEW b, a.table = b.table, a.name = b.name, side(a), side(b)
      PROVE  a = b
  <2>1. PICK m \in Processed : /\ m.ref[1] = a.table
                               /\ \E s \in Sides(m) : /\ a.name = FkName(m.ref[1], s[1], s[2])
                                                      /\ a = SideKey(m, s)
      BY <1>2, <1>9
  <2>2. PICK n \in Processed : /\ n.ref[1] = b.table
                               /\ \E s \in Sides(n) : /\ b.name = FkName(n.ref[1], s[1], s[2])
                                                      /\ b = SideKey(n, s)
      BY <1>2, <1>9
  <2>3. m = n
      BY <1>9, <2>1, <2>2, ProcessedOnce
  <2>4. PICK s \in Sides(m) : a.name = FkName(m.ref[1], s[1], s[2]) /\ a = SideKey(m, s)
      BY <2>1
  <2>5. PICK r \in Sides(m) : b.name = FkName(m.ref[1], r[1], r[2]) /\ b = SideKey(m, r)
      BY <2>2, <2>3
  <2>6. s[1] = r[1] /\ s[2] = r[2]
    <3>1. FkName(m.ref[1], s[1], s[2]) = FkName(m.ref[1], r[1], r[2])
        BY <1>9, <2>4, <2>5
    <3> QED
        BY <3>1 DEF FkName
  <2>7. SideKey(m, s) = SideKey(m, r)
      BY <2>6 DEF SideKey
  <2> QED
      BY <2>4, <2>5, <2>7
<1>10. own(x) \/ left(x) \/ side(x)
    BY <1>1
<1>11. own(y) \/ left(y) \/ side(y)
    BY <1>1
<1> HIDE DEF own
<1> QED
    BY <1>4, <1>5, <1>6, <1>7, <1>8, <1>9, <1>10, <1>11

\* What is in the database was there before, or was made by a statement before o.
LEMMA OriginIs ==
  ASSUME SyncInv, UndoInv, SettleInv, stage = "running", NEW o \in Due, NEW d \in db
  PROVE  \/ d \in before
         \/ \E p \in Done : \E y \in Makes(p) :
              /\ Is(d, y) /\ d.kind = y.kind /\ d.table = y.table /\ d.on = y.on /\ d.name = y.name
              /\ (d.kind # "column" => d = y)
              /\ p \in Generated(data) /\ Rank(p) <= Rank(o) /\ p # o
              /\ p.op \in Statements /\ Fit(p) /\ Found(p, before)
<1>1. AsBefore(d) \/ \E p \in Done : \E y \in Makes(p) : Is(d, y)
    BY Working DEF Origin
<1>2. CASE \E p \in Done : \E y \in Makes(p) : Is(d, y)
  <2>1. PICK p \in Done : \E y \in Makes(p) : Is(d, y)
      BY <1>2
  <2>2. PICK y \in Makes(p) : Is(d, y)
      BY <2>1
  <2>3. /\ p \in Generated(data) /\ Rank(p) <= Rank(o) /\ p # o
        /\ p.op \in Statements /\ Fit(p) /\ Found(p, before)
      BY Working, Turn
  <2>4. y = Object(y.kind, y.table, y.name, y.on, y.ref, y.def)
      BY <2>3, MakesIs
  <2>5. /\ d.kind = y.kind /\ d.table = y.table /\ d.on = y.on /\ d.name = y.name
        /\ (d.kind # "column" => d = y)
    <3>1. CASE y.kind = "column"
      <4>1. PICK n : n = Nullable(d)
          OBVIOUS
      <4>2. d = Stored(y, n) /\ d.kind = "column"
          BY <2>2, <3>1, <4>1 DEF Is
      <4> QED
          BY <2>4, <3>1, <4>2, StoredFields
    <3>2. CASE y.kind # "column"
        BY <2>2, <3>2 DEF Is
    <3> QED
        BY <3>1, <3>2
  <2> QED
      BY <2>2, <2>3, <2>5
<1>3. CASE AsBefore(d)
    BY <1>3 DEF AsBefore
<1> QED
    BY <1>1, <1>2, <1>3

\* A table is created where there is none.
LEMMA CreatesAccepted ==
  ASSUME SyncInv, UndoInv, SettleInv, stage = "running", NEW o \in Due, o.op = "create_table",
         o.object \notin before
  PROVE  Accepts(o.op, o.object)
<1>1. SUFFICES ASSUME o.object \in db PROVE FALSE
    BY DEF Accepts
<1>2. PICK x, t : x = o.object /\ t = x.table
    OBVIOUS
<1>3. o \in Generated(data) /\ Fit(o) /\ Found(o, before)
    BY Turn, Working
<1>4. x.kind = "table"
  <2>1. x = TableObject(t)
      BY <1>2, <1>3 DEF Fit
  <2> QED
      BY <2>1, TableFields
<1>5. PICK p \in Done : \E y \in Makes(p) :
        /\ x = y /\ p # o
        /\ p.op \in Statements /\ Fit(p) /\ Found(p, before)
    BY <1>1, <1>2, <1>4, OriginIs
<1>6. x \in Makes(p)
    BY <1>5
<1>7. p.op = "create_table" /\ p.object = x
    BY <1>4, <1>5, <1>6, MakesIs
<1> QED
    BY <1>2, <1>3, <1>5, <1>7, SameStatement

\* A column is added to a table that lacks it.
LEMMA ColumnsAccepted ==
  ASSUME SyncInv, UndoInv, SettleInv, stage = "running", NEW o \in Due, o.op = "add_column",
         o.object.table \in Tables
  PROVE  Accepts(o.op, o.object)
<1>1. PICK x, t : x = o.object /\ t = x.table
    OBVIOUS
<1>2. o \in Generated(data) /\ Fit(o) /\ Found(o, before) /\ SoundModels(models)
    BY Turn, Working
<1>3. Rank(o) = 2
    BY <1>2, GeneratedRank
<1>4. /\ x \in models /\ ~HasAt(before, t, x.on) /\ x.kind = "column"
      /\ \E b \in before : b.table = t /\ b.kind # "table"
    BY <1>1, <1>2 DEF Found, FoundNew, Fit
<1>5. TableObject(t) \in db
  <2>1. PICK b \in before : b = TableObject(t)
      BY <1>4, Working, DatabaseFacts
  <2>2. b.kind = "table"
      BY <2>1, TableFields
  <2>3. Held(b)
      BY <1>3, <2>2, StillHeld
  <2> QED
      BY <2>1, <2>2, <2>3 DEF Held
<1>6. ASSUME NEW d \in db, d.kind = "column", d.table = t, d.on = x.on
      PROVE  FALSE
  <2>1. d \notin before
      BY <1>4, <1>6 DEF HasAt
  <2>2. PICK p \in Done : \E y \in Makes(p) :
          /\ d.kind = y.kind /\ d.table = y.table /\ d.on = y.on
          /\ p \in Generated(data) /\ Rank(p) <= Rank(o) /\ p # o
          /\ p.op \in Statements /\ Fit(p) /\ Found(p, before)
      BY <2>1, OriginIs
  <2>3. PICK y \in Makes(p) : d.kind = y.kind /\ d.table = y.table /\ d.on = y.on
      BY <2>2
  <2>4. y.table = p.object.table /\
        (p.op = "create_table" \/ (p.op \in {"add_column", "modify_column"} /\ p.object = y))
      BY <1>6, <2>2, <2>3, MakesIs
  <2>5. p.op # "create_table"
      BY <1>4, <1>6, <2>2, <2>3, <2>4 DEF Found, FoundNew
  <2>6. p.op # "modify_column"
    <3>1. p.op = "modify_column" => Rank(p) = 13
        BY <2>2, GeneratedRank
    <3> QED
        BY <1>3, <2>2, <3>1
  <2>7. y \in models
      BY <1>1, <1>6, <2>2, <2>3, MakesFor
  <2>8. y = x
    <3>1. \A a, b \in models : a.kind = "column" /\ b.kind = "column" /\ b.table = a.table /\ b.on = a.on
                               => b = a
        BY <1>2, ModelFacts, Zenon
    <3> QED
        BY <1>1, <1>4, <1>6, <2>3, <2>7, <3>1
  <2> QED
      BY <1>1, <1>2, <2>2, <2>4, <2>5, <2>6, <2>8, SameStatement
<1>7. ~HasColumn(t, x.on)
    BY <1>6 DEF HasColumn, Of
<1> QED
    BY <1>1, <1>5, <1>7 DEF Accepts

\* The primary key comes to a table that has none, on a column it has.
LEMMA PrimaryKeysAccepted ==
  ASSUME SyncInv, UndoInv, SettleInv, stage = "running", NEW o \in Due, o.op = "add_pk"
  PROVE  Accepts(o.op, o.object)
<1>1. PICK x, t : x = o.object /\ t = x.table
    OBVIOUS
<1>2. o \in Generated(data) /\ Fit(o) /\ Found(o, before) /\ SoundModels(models)
    BY Turn, Working
<1>3. Rank(o) = 5
    BY <1>2, GeneratedRank
<1>4. /\ x \in models /\ x.kind = "pk"
      /\ \E b \in before : b.table = t /\ b.kind # "table"
      /\ ~\E b \in before : b.kind = "pk" /\ b.table = t
    BY <1>1, <1>2 DEF Found, FoundNew, Fit
<1>5. ASSUME NEW d \in db, d.kind = "pk", d.table = t
      PROVE  FALSE
  <2>1. PICK p \in Done : \E y \in Makes(p) :
          /\ d = y /\ p # o /\ p.op \in Statements /\ Fit(p) /\ Found(p, before)
      BY <1>4, <1>5, OriginIs
  <2>2. d \in Makes(p)
      BY <2>1
  <2>3. d.table = p.object.table /\ (p.op = "create_table" \/ (p.op = "add_pk" /\ p.object = d))
      BY <1>5, <2>1, <2>2, MakesIs
  <2>4. p.op # "create_table"
      BY <1>4, <1>5, <2>1, <2>3 DEF Found, FoundNew
  <2>5. d \in models
      BY <1>5, <2>1, <2>2, MakesFor
  <2>6. d = x
      BY <1>1, <1>2, <1>4, <1>5, <2>5, NamesDiffer
  <2> QED
      BY <1>1, <1>2, <2>1, <2>3, <2>4, <2>6, SameStatement
<1>6. PICK c \in models : c.kind = "column" /\ c.table = t /\ c.on = x.on
    BY <1>1, <1>2, <1>4, ModelFacts
<1>7. HasColumn(t, x.on)
  <2>1. Rank(o) \in 3..11
      BY <1>3
  <2> QED
      BY <1>6, <2>1, ModelColumn
<1> QED
    BY <1>1, <1>5, <1>7 DEF Accepts, Of

\* The columns of the foreign keys that are asked for are there.
LEMMA AskedColumn ==
  ASSUME SyncInv, UndoInv, SettleInv, stage = "running", NEW o \in Due,
         Rank(o) \in 3..11, NEW S, NEW x, Asked(x, S)
  PROVE  HasColumn(x.table, x.on)
<1>1. SoundModels(models)
    BY Working
<1>2. CASE x \in models /\ x.kind = "fk"
  <2>1. PICK c \in models : c.kind = "column" /\ c.table = x.table /\ c.on = x.on
      BY <1>1, <1>2, ModelFacts
  <2> QED
      BY <2>1, ModelColumn
<1>3. CASE \E m \in Relations(models) : x = RelationKey(m)
  <2>1. PICK m \in models : m.kind = "m2m" /\ x = RelationKey(m)
      BY <1>3 DEF Relations
  <2>2. x.table = m.ref[1] /\ x.on = m.on
      BY <2>1, RelationKeyFields
  <2>3. CASE m.ref[1] \in Tables
    <3>1. PICK c \in models : c.kind = "column" /\ c.table = m.ref[1] /\ c.on = m.on
        BY <1>1, <2>1, <2>3, SidesFacts
    <3> QED
        BY <2>2, <3>1, ModelColumn
  <2>4. CASE m.ref[1] \notin Tables
    <3>1. PICK n \in Processed : n.ref[1] = m.ref[1]
        BY <2>1, <2>4, AllProcessed
    <3>2. n \in models /\ n.kind = "m2m"
        BY ProcessedAre
    <3>3. Sides(m) = Sides(n)
        BY <1>1, <2>1, <3>1, <3>2, RelationFacts
    <3>4. PICK left : left = Left(m)
        OBVIOUS
    <3>5. left \in Sides(n) /\ left[1] = m.on
        BY <3>3, <3>4, SidesAre, SideFields
    <3>6. HasColumn(n.ref[1], left[1])
        BY <3>5, SideColumn
    <3> QED
        BY <2>2, <3>1, <3>5, <3>6
  <2> QED
      BY <2>3, <2>4
<1>4. CASE \E m \in Processed : \E s \in Sides(m) : x = SideKey(m, s)
  <2>1. PICK m \in Processed : \E s \in Sides(m) : x = SideKey(m, s)
      BY <1>4
  <2>2. PICK s \in Sides(m) : x = SideKey(m, s)
      BY <2>1
  <2>3. x.table = m.ref[1] /\ x.on = s[1]
      BY <2>2, SideKeyFields
  <2>4. HasColumn(m.ref[1], s[1])
      BY SideColumn
  <2> QED
      BY <2>3, <2>4
<1> QED
    BY <1>2, <1>3, <1>4 DEF Asked

\* A foreign key has its column, its name, and the key it refers to, unless that moved or
\* is taken for a unique constraint.
LEMMA KeysAccepted ==
  ASSUME SyncInv, UndoInv, SettleInv, stage = "running", NEW o \in Due, o.op = "add_fk",
         ~KeyMoved(o.object.ref[1]), ~\E k \in Of(before, "pk", o.object.ref[1]) : AsUnique(k)
  PROVE  Accepts(o.op, o.object)
<1>1. PICK x, t : x = o.object /\ t = x.table
    OBVIOUS
<1>2. o \in Generated(data) /\ Fit(o) /\ Found(o, before) /\ SoundModels(models)
    BY Turn, Working
<1>3. Rank(o) = 6
    BY <1>2, GeneratedRank
<1>4. /\ Asked(x, before) /\ x.kind = "fk"
      /\ ~\E b \in before : IsKey(b, t) /\ (b.name = x.name \/ Alike(b, x))
    BY <1>1, <1>2 DEF Found, FoundNew, Fit
<1>5. ASSUME NEW d \in db, Clash(d, x)
      PROVE  FALSE
  <2>1. d.kind = "fk" /\ d.table = t /\ d.name = x.name
      BY <1>1, <1>4, <1>5 DEF Clash
  <2>2. d \notin before
      BY <1>4, <2>1 DEF IsKey
  <2>3. PICK p \in Done : \E y \in Makes(p) :
          /\ d = y /\ p # o /\ p.op \in Statements /\ Fit(p) /\ Found(p, before)
      BY <2>1, <2>2, OriginIs
  <2>4. d \in Makes(p)
      BY <2>3
  <2>5. p.op = "add_fk" /\ p.object = d /\ Asked(d, before)
      BY <2>1, <2>3, <2>4, MakesIs, MakesFor
  <2>6. d = x
      BY <1>1, <1>2, <1>4, <2>1, <2>5, AskedOnce
  <2> QED
      BY <1>1, <1>2, <2>3, <2>5, <2>6, SameStatement
<1>6. HasColumn(t, x.on)
  <2>1. Rank(o) \in 3..11
      BY <1>3
  <2> QED
      BY <1>1, <1>4, <2>1, AskedColumn
<1>7. Keyed(x.ref[1], x.ref[2], db)
  <2>1. PICK k \in models : k.kind = "pk" /\ k.table = x.ref[1] /\ k.on = x.ref[2]
      BY <1>2, <1>4, AskedKey
  <2>2. CASE \E b \in before : b.kind = "pk" /\ b.table = k.table
    <3>1. PICK b \in before : b.kind = "pk" /\ b.table = k.table
        BY <2>2
    <3>2. Pk(k.table) = k.on
        BY <1>2, <2>1, PkIs
    <3>3. b.on = k.on
        BY <1>1, <2>1, <3>1, <3>2 DEF KeyMoved, Of
    <3>4. Held(b)
      <4>1. b.name \in PkNames
          BY <1>1, <2>1, <3>1 DEF AsUnique, Of
      <4> QED
          BY <1>3, <3>1, <4>1, StillHeld
    <3> QED
        BY <2>1, <3>1, <3>3, <3>4 DEF Held, Keyed
  <2>3. CASE ~\E b \in before : b.kind = "pk" /\ b.table = k.table
    <3>1. Made(k, Generated(data))
        BY <2>1, <2>3, Working DEF AllNew
    <3>2. PICK p \in Generated(data) : k \in Makes(p)
        BY <3>1 DEF Made
    <3>3. p.op \in Statements /\ Fit(p) /\ Found(p, before)
        BY Working
    <3>4. p.op \in {"create_table", "add_pk"}
        BY <2>1, <3>2, <3>3, MakesIs
    <3>5. Rank(p) < Rank(o)
        BY <1>3, <3>4, GeneratedRank
    <3>6. Held(k)
        BY <1>3, <3>2, <3>5, MadeStays
    <3> QED
        BY <2>1, <3>6 DEF Held, Keyed
  <2> QED
      BY <2>2, <2>3
<1> QED
    BY <1>1, <1>5, <1>6, <1>7 DEF Accepts, Free

\* A constraint or an index has its column, and its name, unless that is taken.
LEMMA ConstraintsAccepted ==
  ASSUME SyncInv, UndoInv, SettleInv, stage = "running", NEW o \in Due,
         o.op \in {"add_unique", "create_index", "add_check"},
         o.op # "add_check" => ~\E b \in before \cap db :
           /\ Clash(b, o.object)
           /\ b.table = o.object.table => b.name \in Names(Of(before, "fk", b.table))
  PROVE  Accepts(o.op, o.object)
<1>1. PICK x, t : x = o.object /\ t = x.table
    OBVIOUS
<1>2. o \in Generated(data) /\ Fit(o) /\ Found(o, before) /\ SoundModels(models)
    BY Turn, Working
<1>3. Rank(o) \in {7, 8, 10}
    BY <1>2, GeneratedRank
<1>4. /\ x \in models
      /\ o.op = "add_unique" => x.kind = "unique"
      /\ o.op = "create_index" => x.kind = "index"
      /\ o.op = "add_check" => x.kind = "check"
    BY <1>1, <1>2 DEF Found, FoundNew, Fit
<1>5. /\ o.op = "add_unique" =>
           ~\E b \in before : b.kind \in {"unique", "pk"} /\ b.table = t /\ b.name = x.name
      /\ o.op = "create_index" =>
           ~\E b \in before : b.kind \in {"index", "unique", "pk"} /\ b.table = t /\ b.name = x.name
      /\ o.op = "add_check" => ~\E b \in before : b.kind = "check" /\ b.table = t /\ b.name = x.name
    BY <1>1, <1>2 DEF Found, FoundNew
<1>6. ASSUME NEW d \in db, d \in before, Clash(d, x)
      PROVE  FALSE
  <2>1. o.op # "add_check"
      BY <1>4, <1>5, <1>6, <1>1 DEF Clash
  <2>2. d.table = t /\ d.name \notin Names(Of(before, "fk", t))
      BY <1>1, <1>6, <2>1
  <2>3. d.kind = "index" /\ d.name = x.name /\ o.op = "add_unique"
      BY <1>4, <1>5, <1>6, <2>1, <2>2 DEF Clash
  <2>4. ~\E y \in models : y.kind = "index" /\ y.table = t /\ y.name = d.name
    <3>1. SUFFICES ASSUME NEW y \in models, y.kind = "index", y.table = t, y.name = d.name PROVE FALSE
        OBVIOUS
    <3>2. Clash(y, x)
        BY <1>4, <2>3, <3>1 DEF Clash
    <3>3. y = x
        BY <1>2, <1>4, <3>1, <3>2, NamesDiffer
    <3> QED
        BY <1>4, <2>3, <3>1, <3>3
  <2>5. ~\E fk \in before : IsKey(fk, t) /\ fk.name = d.name
      BY <2>2 DEF Names, Of, IsKey
  <2>6. t \in Tables
      BY <1>1, <1>2, <1>4, ModelTables
  <2>7. Drops("drop_index", d, Generated(data))
    <3>1. d.name \notin PkNames
        BY <1>2, <1>4, <2>3, PlainNames
    <3> QED
        BY <1>6, <2>2, <2>3, <2>4, <2>5, <2>6, <3>1, Working DEF AllOld
  <2>8. PICK p \in Generated(data) : p.op = "drop_index" /\ p.object = d
      BY <2>7 DEF Drops
  <2>9. Rank(p) = 4 /\ Rank(o) = 7
      BY <1>2, <2>3, <2>8, GeneratedRank
  <2>10. p \in Done
      BY <2>9, Turn
  <2> QED
      BY <1>6, <2>8, <2>10, Working DEF Gone, Dropping
<1>7. ASSUME NEW d \in db, d \notin before, Clash(d, x)
      PROVE  FALSE
  <2>1. d.kind \in {"pk", "unique", "index", "check"} /\ d.kind # "column"
      BY <1>4, <1>7 DEF Clash
  <2>2. PICK p \in Done : \E y \in Makes(p) :
          /\ d = y /\ p # o /\ p.op \in Statements /\ Fit(p) /\ Found(p, before)
      BY <1>7, <2>1, OriginIs
  <2>3. d \in Makes(p)
      BY <2>2
  <2>4. d \in models
      BY <2>1, <2>2, <2>3, MakesFor
  <2>5. d = x
      BY <1>2, <1>4, <1>7, <2>1, <2>4, NamesDiffer
  <2>6. /\ x.kind = "unique" => p.op = "add_unique" /\ p.object = x
        /\ x.kind = "index" => p.op = "create_index" /\ p.object = x
        /\ x.kind = "check" => p.op = "add_check" /\ p.object = x
      BY <2>2, <2>3, <2>5, MakesIs
  <2>7. p.op = o.op /\ p.object = o.object
      BY <1>1, <1>4, <2>6
  <2> QED
      BY <1>2, <2>2, <2>7, SameStatement
<1>8. HasColumn(t, x.on)
  <2>1. PICK c \in models : c.kind = "column" /\ c.table = t /\ c.on = x.on
      BY <1>1, <1>2, <1>4, ModelFacts
  <2>2. Rank(o) \in 3..11
      BY <1>3
  <2> QED
      BY <2>1, <2>2, ModelColumn
<1>9. Free(x)
    BY <1>6, <1>7 DEF Free
<1> QED
    BY <1>1, <1>8, <1>9 DEF Accepts

\* What one statement drops, no other did.
LEMMA DroppedOnce ==
  ASSUME SyncInv, UndoInv, SettleInv, stage = "running", NEW o \in Due, NEW q \in Done,
         Takes(q, o.object), o.op \in Dropping,
         q.op = "drop_column" => o.op = "drop_column"
  PROVE  FALSE
<1>1. PICK x, y : x = o.object /\ y = q.object
    OBVIOUS
<1>2. /\ Fit(o) /\ Found(o, before) /\ Meant(o) /\ q # o
      /\ Fit(q) /\ Found(q, before) /\ Meant(q) /\ SoundDatabase(before)
    BY Turn, Working
<1>3. CASE q.op = "drop_column"
  <2>1. x \in before /\ y \in before
      BY <1>1, <1>2, <1>3 DEF Meant, Dropping
  <2>2. x.kind = "column" /\ y.kind = "column" /\ y.table = x.table /\ y.on = x.on
      BY <1>1, <1>2, <1>3 DEF Fit, Takes, Dropping
  <2>3. x = y
      BY <1>2, <2>1, <2>2, BeforeFacts
  <2> QED
      BY <1>1, <1>2, <1>3, <2>3, SameStatement
<1>4. CASE q.op # "drop_column"
  <2>1. y = x /\ q.op \in {"drop_unique", "drop_index", "drop_check", "drop_fk"}
      BY <1>1, <1>4 DEF Takes, Dropping
  <2>2. \/ q.op = "drop_unique" /\ y.kind \in {"unique", "pk"}
        \/ q.op = "drop_index" /\ y.kind = "index"
        \/ q.op = "drop_check" /\ y.kind = "check"
        \/ q.op = "drop_fk" /\ y.kind = "fk"
      BY <1>1, <1>2, <2>1 DEF Fit
  <2>3. \/ o.op = "drop_unique" /\ x.kind \in {"unique", "pk"}
        \/ o.op = "drop_index" /\ x.kind = "index"
        \/ o.op = "drop_check" /\ x.kind = "check"
        \/ o.op = "drop_fk" /\ x.kind = "fk"
        \/ o.op = "drop_column" /\ x.kind = "column"
      BY <1>1, <1>2 DEF Fit, Dropping
  <2>4. o.op = q.op
      BY <2>1, <2>2, <2>3
  <2> QED
      BY <1>1, <1>2, <2>1, <2>4, SameStatement
<1> QED
    BY <1>3, <1>4

\* What is dropped is there, and only what a key refers to may have to stay.
LEMMA RemovalsAccepted ==
  ASSUME SyncInv, UndoInv, SettleInv, stage = "running", NEW o \in Due,
         o.op \in {"drop_unique", "drop_index", "drop_check", "drop_fk"},
         o.op = "drop_unique" => Referenced(o.object) = {}
  PROVE  Accepts(o.op, o.object)
<1>1. PICK x, t : x = o.object /\ t = x.table
    OBVIOUS
<1>2. o \in Generated(data) /\ Fit(o) /\ Meant(o)
    BY Turn, Working
<1>3. Rank(o) \in {3, 4, 9, 11}
    BY <1>2, GeneratedRank
<1>4. x \in before /\ x.kind # "column"
  <2>1. x \in before
      BY <1>1, <1>2 DEF Meant, Dropping
  <2>2. x.kind # "column"
      BY <1>1, <1>2 DEF Fit
  <2> QED
      BY <2>1, <2>2
<1>5. ASSUME NEW q \in Done
      PROVE  ~Takes(q, x)
  <2>1. q.op # "drop_column"
    <3>1. q \in Generated(data) /\ Rank(q) <= Rank(o)
        BY Working, Turn
    <3>2. q.op = "drop_column" => Rank(q) = 12
        BY <3>1, GeneratedRank
    <3> QED
        BY <1>3, <3>1, <3>2
  <2> QED
      BY <1>1, <2>1, DroppedOnce DEF Dropping
<1>6. x \in db
  <2>1. Held(x)
      BY <1>4, <1>5, Working DEF Kept
  <2> QED
      BY <1>4, <2>1 DEF Held
<1>7. ASSUME o.op = "drop_unique", NEW fk \in db, fk.kind = "fk", fk.ref = <<t, x.on>>
      PROVE  FALSE
  <2>1. fk \notin before
      BY <1>1, <1>7 DEF Referenced
  <2>2. PICK p \in Done : \E y \in Makes(p) :
          /\ fk = y /\ p \in Generated(data) /\ Rank(p) <= Rank(o)
          /\ p.op \in Statements /\ Fit(p) /\ Found(p, before)
      BY <1>7, <2>1, OriginIs
  <2>3. p.op = "add_fk"
      BY <1>7, <2>2, MakesIs
  <2>4. Rank(p) = 6 /\ Rank(o) = 3
      BY <1>2, <1>7, <2>2, <2>3, GeneratedRank
  <2> QED
      BY <2>2, <2>4
<1>8. o.op = "drop_unique" => Unreferenced(t, x.on, {x})
    BY <1>7 DEF Unreferenced
<1> QED
    BY <1>1, <1>6, <1>8 DEF Accepts

\* A column goes when nothing refers to it, but keys the models name again or have no
\* model for.
LEMMA ColumnRemovalsAccepted ==
  ASSUME SyncInv, UndoInv, SettleInv, stage = "running", NEW o \in Due, o.op = "drop_column",
         ~\E fk \in Referenced(o.object) :
            fk.table \notin Tables \/ fk.name \in Names(Of(models, "fk", fk.table))
  PROVE  Accepts(o.op, o.object)
<1>1. PICK x, t : x = o.object /\ t = x.table
    OBVIOUS
<1>2. o \in Generated(data) /\ Fit(o) /\ Meant(o) /\ Found(o, before) /\ SoundModels(models)
    BY Turn, Working
<1>3. Rank(o) = 12
    BY <1>2, GeneratedRank
<1>4. x \in before /\ x.kind = "column"
    BY <1>1, <1>2 DEF Meant, Fit, Dropping
<1>5. HasColumn(t, x.on)
  <2>1. \A q \in Done : ~Takes(q, x)
      BY <1>1, DroppedOnce DEF Dropping
  <2>2. Held(x)
      BY <1>4, <2>1, Working DEF Kept
  <2> QED
      BY <1>1, <1>4, <2>2 DEF Held
<1>6. ASSUME NEW k \in models, k.kind = "pk", k.table = t, k.on = x.on
      PROVE  FALSE
  <2>1. PICK c \in models : c.kind = "column" /\ c.table = t /\ c.on = x.on
      BY <1>2, <1>6, ModelFacts
  <2>2. t \in Tables
      BY <1>2, <1>6, ModelTables
  <2> QED
      BY <1>1, <1>2, <2>1, <2>2 DEF Found, FoundOld, HasAt
<1>7. ASSUME NEW fk \in db, fk.kind = "fk", fk.ref = <<t, x.on>>
      PROVE  FALSE
  <2>1. fk.ref[1] = t /\ fk.ref[2] = x.on
      BY <1>7
  <2>2. CASE fk \in before
    <3>1. fk \in Referenced(x)
        BY <1>1, <1>7, <2>2 DEF Referenced
    <3>2. /\ fk.table \in Tables
          /\ ~\E y \in models : IsKey(y, fk.table) /\ y.name = fk.name
        BY <1>1, <3>1 DEF Names, Of, IsKey
    <3>3. ~\E y \in models : IsKey(y, fk.table) /\ Alike(y, fk)
      <4>1. SUFFICES ASSUME NEW y \in models, y.kind = "fk", Alike(y, fk) PROVE FALSE
          BY DEF IsKey
      <4>2. PICK k \in models : k.kind = "pk" /\ k.table = y.ref[1] /\ k.on = y.ref[2]
          BY <1>2, <4>1, NamesDiffer
      <4>3. y.ref = fk.ref
          BY <4>1 DEF Alike
      <4> QED
          BY <1>6, <2>1, <4>2, <4>3
    <3>4. Drops("drop_fk", fk, Generated(data))
        BY <1>7, <2>2, <3>2, <3>3, Working DEF AllOld
    <3>5. PICK p \in Generated(data) : p.op = "drop_fk" /\ p.object = fk
        BY <3>4 DEF Drops
    <3>6. Rank(p) = 11
        BY <3>5, GeneratedRank
    <3>7. p \in Done
        BY <1>3, <3>6, Turn
    <3> QED
        BY <1>7, <3>5, <3>7, Working DEF Gone, Dropping
  <2>3. CASE fk \notin before
    <3>1. PICK p \in Done : \E y \in Makes(p) :
            /\ fk = y /\ p.op \in Statements /\ Fit(p) /\ Found(p, before)
        BY <1>7, <2>3, OriginIs
    <3>2. Asked(fk, before)
        BY <1>7, <3>1, MakesFor
    <3>3. PICK k \in models : k.kind = "pk" /\ k.table = t /\ k.on = x.on
        BY <1>2, <2>1, <3>2, AskedKey
    <3> QED
        BY <1>6, <3>3
  <2> QED
      BY <2>2, <2>3
<1>8. Unreferenced(t, x.on, On(t, x.on))
    BY <1>7 DEF Unreferenced
<1> QED
    BY <1>1, <1>5, <1>8 DEF Accepts

\* A column that is modified is there.
LEMMA ChangesAccepted ==
  ASSUME SyncInv, UndoInv, SettleInv, stage = "running", NEW o \in Due, o.op = "modify_column"
  PROVE  Accepts(o.op, o.object)
<1>1. PICK x, t : x = o.object /\ t = x.table
    OBVIOUS
<1>2. o \in Generated(data) /\ Fit(o) /\ Found(o, before)
    BY Turn, Working
<1>3. t \in Tables /\ x \in models /\ x.kind = "column" /\ \E d \in before : Changed(d, x)
    BY <1>1, <1>2 DEF Found, FoundOld, Fit
<1>4. PICK d \in before : d.kind = "column" /\ d.table = t /\ d.on = x.on
    BY <1>1, <1>3 DEF Changed
<1>5. SUFFICES ASSUME NEW q \in Done, Takes(q, d) PROVE FALSE
  <2>1. Held(d) => HasColumn(t, x.on)
      BY <1>4 DEF Held
  <2>2. Held(d) \/ \E q \in Done : Takes(q, d)
      BY Working DEF Kept
  <2> QED
      BY <1>1, <1>5, <2>1, <2>2 DEF Accepts
<1>6. Fit(q) /\ Found(q, before)
    BY Working
<1>7. CASE q.op = "drop_column"
  <2>1. q.object.table = t /\ q.object.on = x.on
      BY <1>4, <1>5, <1>7 DEF Takes, Dropping
  <2>2. ~HasAt(models, t, x.on)
      BY <1>3, <1>6, <1>7, <2>1 DEF Found, FoundOld
  <2> QED
      BY <1>1, <1>3, <2>2 DEF HasAt
<1>8. CASE q.op # "drop_column"
  <2>1. q.op \in {"drop_unique", "drop_index", "drop_check", "drop_fk"} /\ q.object = d
      BY <1>5, <1>8 DEF Takes, Dropping
  <2>2. q.object.kind \in {"unique", "pk", "index", "check", "fk"}
      BY <1>6, <2>1 DEF Fit
  <2> QED
      BY <1>4, <2>1, <2>2
<1> QED
    BY <1>7, <1>8

\* Every statement is accepted when its turn comes, but for the exceptions
\* (generateOperations() and its phases, migration_operation_generator.ts).
THEOREM StatementsApplicable == Spec => []Applicable
<1>1. SyncInv /\ UndoInv /\ SettleInv => Applicable
  <2>1. SUFFICES ASSUME SyncInv, UndoInv, SettleInv, stage = "running", NEW o \in Due,
                        ~Accepts(o.op, o.object)
                 PROVE  \/ o.op = "add_fk" /\ KeyMoved(o.object.ref[1])
                        \/ o.op = "add_fk" /\ \E k \in Of(before, "pk", o.object.ref[1]) : AsUnique(k)
                        \/ o.op = "drop_column" /\ \E fk \in Referenced(o.object) :
                             fk.table \notin Tables \/ fk.name \in Names(Of(models, "fk", fk.table))
                        \/ o.op = "drop_unique" /\ Referenced(o.object) # {}
                        \/ o.op = "add_column" /\ o.object.table \notin Tables
                        \/ o.op = "create_table" /\ o.object \in before
                        \/ o.op \in {"add_unique", "create_index"} /\ \E b \in before \cap db :
                             /\ Clash(b, o.object)
                             /\ b.table = o.object.table => b.name \in Names(Of(before, "fk", b.table))
      BY DEF Applicable
  <2>2. o.op \in Statements
      BY <2>1, Turn, Working
  <2>3. o.op \notin {"add_pk", "add_check", "drop_index", "drop_check", "drop_fk", "modify_column"}
      BY <2>1, PrimaryKeysAccepted, ConstraintsAccepted, RemovalsAccepted, ChangesAccepted
  <2>4. CASE o.op = "create_table"
      BY <2>1, <2>4, CreatesAccepted
  <2>5. CASE o.op = "add_column"
      BY <2>1, <2>5, ColumnsAccepted
  <2>6. CASE o.op = "add_fk"
      BY <2>1, <2>6, KeysAccepted
  <2>7. CASE o.op \in {"add_unique", "create_index"}
      BY <2>1, <2>7, ConstraintsAccepted
  <2>8. CASE o.op = "drop_unique"
      BY <2>1, <2>8, RemovalsAccepted
  <2>9. CASE o.op = "drop_column"
      BY <2>1, <2>9, ColumnRemovalsAccepted
  <2> QED
      BY <2>2, <2>3, <2>4, <2>5, <2>6, <2>7, <2>8, <2>9 DEF Statements, Adding, Dropping
<1> QED
    BY <1>1, SyncInvariant, UndoInvariant, SettleInvariant, PTL

-----------------------------------------------------------------------------
(* A sync that ran to its end.                                                *)

Finished == SyncInv /\ UndoInv /\ SettleInv /\ stage = "done"

\* All that was to be done is done.
LEMMA Over ==
  ASSUME Finished
  PROVE  /\ SoundModels(models) /\ SoundDatabase(before) /\ SoundDatabase(db)
         /\ \A p \in Generated(data) :
              /\ p.op \in Statements /\ Fit(p) /\ Meant(p) /\ Found(p, before) /\ Fresh(p)
         /\ AllNew(Generated(data), before) /\ AllOld(Generated(data), before)
         /\ Done = Generated(data) /\ Kept /\ Gone /\ Origin
<1>1. Done = Generated(data)
    BY DEF Finished, SettleInv, Done
<1> QED
    BY <1>1, Working DEF Finished

\* The column of a key that is asked for is one of its table, or of the relation.
LEMMA AskedOn ==
  ASSUME SoundModels(models), NEW S, NEW x, Asked(x, S)
  PROVE  /\ x.kind = "fk"
         /\ x.table \in Tables => HasAt(models, x.table, x.on)
         /\ \A m \in Processed : m.ref[1] = x.table => \E s \in Sides(m) : s[1] = x.on /\ s[2] = x.ref[1]
<1>1. CASE x \in models /\ x.kind = "fk"
  <2>1. PICK c \in models : c.kind = "column" /\ c.table = x.table /\ c.on = x.on
      BY <1>1, ModelFacts
  <2>2. x.table \in Tables
      BY <1>1, ModelTables
  <2> QED
      BY <1>1, <2>1, <2>2, ProcessedAre DEF HasAt
<1>2. CASE \E m \in Relations(models) : x = RelationKey(m)
  <2>1. PICK n \in models : n.kind = "m2m" /\ x = RelationKey(n)
      BY <1>2 DEF Relations
  <2>2. x.kind = "fk" /\ x.table = n.ref[1] /\ x.on = n.on /\ x.ref = <<n.table, Pk(n.table)>>
      BY <2>1, RelationKeyFields
  <2>3. x.table \in Tables => HasAt(models, x.table, x.on)
      BY <2>1, <2>2, SidesFacts DEF HasAt
  <2>4. ASSUME NEW m \in Processed, m.ref[1] = x.table
        PROVE  \E s \in Sides(m) : s[1] = x.on /\ s[2] = x.ref[1]
    <3>1. m \in models /\ m.kind = "m2m"
        BY ProcessedAre
    <3>2. Sides(n) = Sides(m)
        BY <2>1, <2>2, <2>4, <3>1, RelationFacts
    <3>3. PICK left : left = Left(n)
        OBVIOUS
    <3>4. left \in Sides(m) /\ left[1] = n.on /\ left[2] = n.table
        BY <3>2, <3>3, SidesAre, SideFields
    <3> QED
        BY <2>2, <3>4
  <2> QED
      BY <2>2, <2>3, <2>4
<1>3. CASE \E m \in Processed : \E s \in Sides(m) : x = SideKey(m, s)
  <2>1. PICK n \in Processed : \E s \in Sides(n) : x = SideKey(n, s)
      BY <1>3
  <2>2. PICK s \in Sides(n) : x = SideKey(n, s)
      BY <2>1
  <2>3. x.kind = "fk" /\ x.table = n.ref[1] /\ x.on = s[1] /\ x.ref[1] = s[2]
      BY <2>2, SideKeyFields
  <2>4. x.table \notin Tables
      BY <2>3, ProcessedAre
  <2> QED
      BY <2>3, <2>4, ProcessedOnce
<1> QED
    BY <1>1, <1>2, <1>3 DEF Asked

\* The column of what a statement makes is one the models want.
LEMMA MadeOn ==
  ASSUME SoundModels(models), NEW S, NEW p, p.op \in Statements, Fit(p), Found(p, S),
         NEW y \in Makes(p), y.kind # "table"
  PROVE  /\ y.table \in Tables => HasAt(models, y.table, y.on)
         /\ \A m \in Processed : m.ref[1] = y.table => \E s \in Sides(m) : s[1] = y.on
<1>1. CASE y.kind \in {"pk", "unique", "index", "check"}
  <2>1. y \in models
      BY <1>1, MakesFor
  <2>2. PICK c \in models : c.kind = "column" /\ c.table = y.table /\ c.on = y.on
      BY <1>1, <2>1, ModelFacts
  <2>3. y.table \in Tables
      BY <2>1, ModelTables
  <2> QED
      BY <2>2, <2>3, ProcessedAre DEF HasAt
<1>2. CASE y.kind = "column"
  <2>1. y.table \in Tables => HasAt(models, y.table, y.on)
      BY <1>2, MakesFor DEF HasAt
  <2>2. ASSUME NEW m \in Processed, m.ref[1] = y.table
        PROVE  \E s \in Sides(m) : s[1] = y.on
    <3>1. y.table \notin Tables
        BY <2>2, ProcessedAre
    <3>2. PICK n \in Processed :
            n.ref[1] = y.table /\ \E s \in Sides(n) : y = KeyColumn(y.table, s[1], s[2])
        BY <1>2, <3>1, MakesFor
    <3>3. PICK t : t = y.table
        OBVIOUS
    <3>4. PICK s \in Sides(n) : y = KeyColumn(t, s[1], s[2])
        BY <3>2, <3>3
    <3>5. y.on = s[1]
        BY <3>4, KeyColumnFields
    <3>6. m = n
        BY <2>2, <3>2, ProcessedOnce
    <3> QED
        BY <3>5, <3>6
  <2> QED
      BY <2>1, <2>2
<1>3. CASE y.kind = "fk"
  <2>1. Asked(y, S)
      BY <1>3, MakesFor
  <2> QED
      BY <2>1, AskedOn
<1>4. y.kind \in {"column", "pk", "unique", "index", "check", "fk"}
  <2>1. PICK x : x = p.object
      OBVIOUS
  <2>2. /\ p.op \in Adding \cup {"modify_column"}
        /\ y = x \/ (p.op = "create_table" /\ y \in p.with)
      BY <2>1 DEF Makes, Found
  <2>3. CASE p.op = "create_table"
    <3>1. PICK t : t = x.table
        OBVIOUS
    <3>2. x = TableObject(t)
        BY <2>1, <2>3, <3>1 DEF Fit
    <3>3. x.kind = "table"
        BY <3>2, TableFields
    <3>4. y \in p.with
        BY <2>2, <3>3
    <3> QED
        BY <2>3, <3>4 DEF Fit
  <2>4. CASE p.op # "create_table"
    <3>1. /\ p.object = y
          /\ p.op \in {"add_column", "modify_column", "add_pk", "add_fk", "add_unique",
                      "create_index", "add_check"}
        BY <2>1, <2>2, <2>4 DEF Adding
    <3> QED
        BY <3>1 DEF Fit
  <2> QED
      BY <2>3, <2>4
<1> QED
    BY <1>1, <1>2, <1>3, <1>4

\* What was made is there.
LEMMA MadeRemains ==
  ASSUME Finished, NEW p \in Generated(data), NEW y \in Makes(p)
  PROVE  Held(y)
<1>1. SUFFICES ASSUME NEW q \in Generated(data), Takes(q, y) PROVE FALSE
    BY Over DEF Kept
<1>2. /\ SoundModels(models)
      /\ p.op \in Statements /\ Fit(p) /\ Found(p, before) /\ Fresh(p)
      /\ q.op \in Statements /\ Fit(q) /\ Meant(q) /\ Found(q, before)
    BY Over
<1>3. CASE q.op # "drop_column"
  <2>1. q.op \in {"drop_unique", "drop_index", "drop_check", "drop_fk"} /\ q.object = y
      BY <1>1, <1>3 DEF Takes, Dropping
  <2>2. y.kind \in {"unique", "pk", "index", "check", "fk"} /\ y \in before
      BY <1>2, <2>1 DEF Fit, Meant, Dropping
  <2>3. \/ p.op \in Adding /\ p.object = y
        \/ p.op = "create_table" /\ p.object.table = y.table
      BY <1>2, <2>2, MakesIs DEF Adding
  <2> QED
      BY <1>2, <2>2, <2>3 DEF Fresh
<1>4. CASE q.op = "drop_column"
  <2>1. PICK x, t : x = q.object /\ t = y.table
      OBVIOUS
  <2>2. x.table = t /\ x.on = y.on /\ x.on # ""
      BY <1>1, <1>2, <1>4, <2>1 DEF Takes, Fit, Dropping
  <2>3. y.kind # "table"
    <3>1. y.kind = "table" => p.op = "create_table" /\ p.object = y
        BY <1>2, MakesIs
    <3>2. y.kind = "table" => y = TableObject(t)
        BY <1>2, <2>1, <3>1 DEF Fit
    <3> QED
        BY <2>2, <3>2, TableFields
  <2>4. /\ t \in Tables => ~HasAt(models, t, y.on)
        /\ t \notin Tables => \E m \in Processed : m.ref[1] = t /\ \A s \in Sides(m) : s[1] # y.on
      BY <1>2, <1>4, <2>1, <2>2 DEF Found, FoundOld
  <2> QED
      BY <1>2, <2>1, <2>3, <2>4, MadeOn
<1> QED
    BY <1>3, <1>4

\* Why something of before is gone.
LEMMA GoneFor ==
  ASSUME Finished, NEW b \in before, ~Held(b)
  PROVE  LET t == b.table
             asked(kind) == \E y \in models : y.kind = kind /\ y.table = t /\ y.name = b.name
         IN  \/ /\ b.on # ""
                /\ t \in Tables => ~HasAt(models, t, b.on)
                /\ t \notin Tables => \E m \in Processed : m.ref[1] = t /\ \A s \in Sides(m) : s[1] # b.on
             \/ b.kind = "pk" /\ b.name \notin PkNames
             \/ b.kind = "unique" /\ ~asked("unique")
             \/ b.kind = "index" /\ ~asked("index")
             \/ b.kind = "check" /\ ~asked("check")
             \/ /\ b.kind = "fk"
                /\ t \in Tables => ~\E y \in models : IsKey(y, t) /\ (y.name = b.name \/ Alike(y, b))
                /\ t \notin Tables => \E m \in Processed : m.ref[1] = t /\ (~OfItself(t) => Astray(b, m))
<1>1. PICK q \in Generated(data) : Takes(q, b)
    BY Over DEF Kept
<1>2. q.op \in Statements /\ Fit(q) /\ FoundOld(q, before)
    BY Over DEF Found
<1>3. CASE q.op # "drop_column"
  <2>1. q.op \in {"drop_unique", "drop_index", "drop_check", "drop_fk"} /\ q.object = b
      BY <1>1, <1>3 DEF Takes, Dropping
  <2>2. CASE q.op = "drop_unique"
      BY <1>2, <2>1, <2>2 DEF Fit, FoundOld
  <2>3. CASE q.op = "drop_index"
      BY <1>2, <2>1, <2>3 DEF Fit, FoundOld
  <2>4. CASE q.op = "drop_check"
      BY <1>2, <2>1, <2>4 DEF Fit, FoundOld
  <2>5. CASE q.op = "drop_fk"
      BY <1>2, <2>1, <2>5 DEF Fit, FoundOld
  <2> QED
      BY <2>1, <2>2, <2>3, <2>4, <2>5
<1>4. CASE q.op = "drop_column"
  <2>1. PICK x, t : x = q.object /\ t = b.table
      OBVIOUS
  <2>2. x.table = t /\ x.on = b.on /\ x.on # ""
      BY <1>1, <1>2, <1>4, <2>1 DEF Takes, Fit, Dropping
  <2> QED
      BY <1>2, <1>4, <2>1, <2>2 DEF FoundOld
<1> QED
    BY <1>3, <1>4

\* What is in the database was there before, or was made.
LEMMA OriginLast ==
  ASSUME Finished, NEW d \in db
  PROVE  \/ AsBefore(d)
         \/ \E p \in Generated(data) : \E y \in Makes(p) :
              /\ Is(d, y) /\ d.kind = y.kind /\ d.table = y.table /\ d.on = y.on /\ d.name = y.name
              /\ (d.kind # "column" => d = y)
              /\ p.op \in Statements /\ Fit(p) /\ Found(p, before)
<1>1. AsBefore(d) \/ \E p \in Generated(data) : \E y \in Makes(p) : Is(d, y)
    BY Over DEF Origin
<1>2. ASSUME NEW p \in Generated(data), NEW y \in Makes(p), Is(d, y)
      PROVE  /\ d.kind = y.kind /\ d.table = y.table /\ d.on = y.on /\ d.name = y.name
             /\ (d.kind # "column" => d = y)
             /\ p.op \in Statements /\ Fit(p) /\ Found(p, before)
  <2>1. p.op \in Statements /\ Fit(p) /\ Found(p, before)
      BY Over
  <2>2. y = Object(y.kind, y.table, y.name, y.on, y.ref, y.def)
      BY <2>1, MakesIs
  <2>3. CASE y.kind = "column"
    <3>1. PICK n : n = Nullable(d)
        OBVIOUS
    <3>2. d = Stored(y, n) /\ d.kind = "column"
        BY <1>2, <2>3, <3>1 DEF Is
    <3> QED
        BY <2>1, <2>2, <2>3, <3>2, StoredFields
  <2>4. CASE y.kind # "column"
      BY <1>2, <2>1, <2>4 DEF Is
  <2> QED
      BY <2>3, <2>4
<1> QED
    BY <1>1, <1>2

\* The columns of the models, and those of the sides of a through table, are there.
LEMMA ColumnsLast ==
  ASSUME Finished
  PROVE  /\ \A c \in models : c.kind = "column" => HasAt(db, c.table, c.on)
         /\ \A m \in Processed : \A s \in Sides(m) : HasAt(db, m.ref[1], s[1])
<1>1. ASSUME NEW t, NEW on,
             \/ \E b \in before : b.kind = "column" /\ b.table = t /\ b.on = on
             \/ \E c : c.kind = "column" /\ c.table = t /\ c.on = on /\ Made(c, Generated(data)),
             \/ HasAt(models, t, on) /\ t \in Tables
             \/ \E m \in Processed : m.ref[1] = t /\ \E s \in Sides(m) : s[1] = on
      PROVE  HasAt(db, t, on)
  <2>1. CASE \E b \in before : b.kind = "column" /\ b.table = t /\ b.on = on
    <3>1. PICK b \in before : b.kind = "column" /\ b.table = t /\ b.on = on
        BY <2>1
    <3>2. Held(b)
      <4>1. SUFFICES ASSUME ~Held(b) PROVE FALSE
          OBVIOUS
      <4>2. /\ t \in Tables => ~HasAt(models, t, on)
            /\ t \notin Tables => \E m \in Processed : m.ref[1] = t /\ \A s \in Sides(m) : s[1] # on
          BY <3>1, <4>1, GoneFor
      <4> QED
          BY <1>1, <4>2, ProcessedAre, ProcessedOnce
    <3> QED
        BY <3>1, <3>2 DEF Held, HasColumn, HasAt, Of
  <2>2. CASE \E c : c.kind = "column" /\ c.table = t /\ c.on = on /\ Made(c, Generated(data))
    <3>1. PICK c : c.kind = "column" /\ c.table = t /\ c.on = on /\ Made(c, Generated(data))
        BY <2>2
    <3>2. Held(c)
        BY <3>1, MadeRemains DEF Made
    <3> QED
        BY <3>1, <3>2 DEF Held, HasColumn, HasAt, Of
  <2> QED
      BY <1>1, <2>1, <2>2
<1>2. ASSUME NEW c \in models, c.kind = "column"
      PROVE  HasAt(db, c.table, c.on)
  <2>1. HasAt(before, c.table, c.on) \/ Made(c, Generated(data))
      BY <1>2, Over DEF AllNew
  <2>2. c.table \in Tables /\ HasAt(models, c.table, c.on)
      BY <1>2, Over, ModelTables DEF HasAt
  <2> QED
      BY <1>1, <1>2, <2>1, <2>2 DEF HasAt
<1>3. ASSUME NEW m \in Processed, NEW s \in Sides(m)
      PROVE  HasAt(db, m.ref[1], s[1])
  <2>1. PICK k, t : t = m.ref[1] /\ k = KeyColumn(t, s[1], s[2])
      OBVIOUS
  <2>2. k.kind = "column" /\ k.table = t /\ k.on = s[1]
      BY <2>1, KeyColumnFields
  <2>3. (\E b \in before : b.kind = "column" /\ b.table = t /\ b.on = s[1]) \/ Made(k, Generated(data))
      BY <2>1, Over DEF AllNew
  <2> QED
      BY <1>1, <2>1, <2>2, <2>3
<1> QED
    BY <1>2, <1>3

\* No table is created by the next sync, which only adds a column of models it has.
LEMMA TablesRemain ==
  ASSUME Finished, NEW o, Found(o, db), Fit(o)
  PROVE  /\ o.op # "create_table"
         /\ o.op = "add_column" => o.object.table \notin Tables
<1>1. PICK x, t : x = o.object /\ t = x.table
    OBVIOUS
<1>2. ASSUME o.op = "create_table"
      PROVE  FALSE
  <2>1. \A b \in db : b.table = t => b.kind = "table"
      BY <1>1, <1>2 DEF Found, FoundNew
  <2>2. CASE t \in Tables
    <3>1. PICK m \in models : m.table = t
        BY <2>2 DEF Tables
    <3>2. PICK c \in models : c.kind = "column" /\ c.table = t
        BY <3>1, Over, NamesDiffer
    <3>3. HasAt(db, t, c.on)
        BY <3>2, ColumnsLast
    <3> QED
        BY <2>1, <3>3 DEF HasAt
  <2>3. CASE t \notin Tables
    <3>1. PICK m \in Processed : m.ref[1] = t
        BY <1>1, <1>2, <2>3 DEF Found, FoundNew
    <3>2. PICK s : s = Left(m)
        OBVIOUS
    <3>3. HasAt(db, t, s[1])
        BY <3>1, <3>2, SidesAre, ColumnsLast
    <3> QED
        BY <2>1, <3>3 DEF HasAt
  <2> QED
      BY <2>2, <2>3
<1>3. ASSUME o.op = "add_column", t \in Tables
      PROVE  FALSE
  <2>1. x \in models /\ ~HasAt(db, t, x.on)
      BY <1>1, <1>3 DEF Found, FoundNew
  <2>2. x.kind = "column"
      BY <1>1, <1>3 DEF Fit
  <2> QED
      BY <1>1, <2>1, <2>2, ColumnsLast
<1> QED
    BY <1>1, <1>2, <1>3

\* What the next sync would do.
LEMMA RemainingIs ==
  ASSUME Finished, NEW o \in Remaining
  PROVE  o.op \in Statements /\ Fit(o) /\ Found(o, db)
<1>1. SoundModels(models) /\ SoundDatabase(db)
    BY Over
<1>2. o \in Generated(WithoutChurn(AllOperations))
    BY DEF Remaining, AllOperations
<1>3. o \in AllOperations /\ o.op \in Statements
    BY <1>2, GeneratedAre DEF WithoutChurn
<1>4. Fit(o)
  <2>1. CASE o \in Throughs
      BY <1>1, <2>1, ThroughFits
  <2>2. CASE o \notin Throughs
    <3>1. PICK t \in Tables : o \in Compared(t)
        BY <1>3, <2>2 DEF AllOperations
    <3> QED
        BY <1>1, <3>1, ComparedFits
  <2> QED
      BY <2>1, <2>2
<1> QED
    BY <1>1, <1>2, <1>3, <1>4, GeneratedFound

\* A column of a through table that the sync made, or found as it should be.
LEMMA SideColumnsLast ==
  ASSUME Finished, NEW m \in Processed, NEW s \in Sides(m)
  PROVE  \E d \in db : /\ d.kind = "column" /\ d.table = m.ref[1] /\ d.on = s[1]
                       /\ SameColumn(d, KeyColumn(m.ref[1], s[1], s[2]))
<1>1. PICK k, t : t = m.ref[1] /\ k = KeyColumn(t, s[1], s[2])
    OBVIOUS
<1>2. /\ k.kind = "column" /\ k.table = t /\ k.on = s[1]
      /\ k.def[3] = 2 /\ k.def = <<k.def[1], k.def[2], 2, 0>>
    BY <1>1 DEF KeyColumn, Object
<1>3. PICK d \in db : d.kind = "column" /\ d.table = t /\ d.on = s[1]
    BY <1>1, ColumnsLast DEF HasAt
<1>4. m \in models /\ m.kind = "m2m" /\ t \notin Tables
    BY <1>1, ProcessedAre
<1>5. CASE \E p \in Generated(data) : \E y \in Makes(p) :
             /\ Is(d, y) /\ d.kind = y.kind /\ d.table = y.table /\ d.on = y.on
             /\ p.op \in Statements /\ Fit(p) /\ Found(p, before)
  <2>1. PICK p \in Generated(data) : \E y \in Makes(p) :
             /\ Is(d, y) /\ d.kind = y.kind /\ d.table = y.table /\ d.on = y.on
             /\ p.op \in Statements /\ Fit(p) /\ Found(p, before)
      BY <1>5
  <2>2. PICK y \in Makes(p) : Is(d, y) /\ d.kind = y.kind /\ d.table = y.table /\ d.on = y.on
      BY <2>1
  <2>3. PICK n \in Processed :
          n.ref[1] = t /\ \E r \in Sides(n) : y = KeyColumn(y.table, r[1], r[2])
      BY <1>3, <1>4, <2>1, <2>2, MakesFor
  <2>4. n = m
      BY <1>1, <2>3, ProcessedOnce
  <2>5. PICK r \in Sides(m) : y = KeyColumn(t, r[1], r[2])
      BY <1>3, <2>2, <2>3, <2>4
  <2>6. y.on = r[1]
      BY <2>5, KeyColumnFields
  <2>7. r = s
    <3>1. Left(m)[1] # Right(m)[1]
        BY <1>4, Over, RelationFacts
    <3>2. PICK a, b : a = Left(m) /\ b = Right(m)
        OBVIOUS
    <3>3. r \in {a, b} /\ s \in {a, b}
        BY <3>2, SidesAre
    <3>4. a[1] # b[1]
        BY <3>1, <3>2
    <3>5. r[1] = s[1]
        BY <1>3, <2>2, <2>6
    <3> QED
        BY <3>3, <3>4, <3>5
  <2>8. y = k
      BY <1>1, <2>5, <2>7
  <2>9. d = Stored(k, Nullable(d))
      BY <1>3, <2>2, <2>8 DEF Is
  <2>10. d.def = <<k.def[1], k.def[2], 2, 0>>
    <3>1. PICK n2 : n2 = Nullable(d)
        OBVIOUS
    <3>2. k = Object(k.kind, k.table, k.name, k.on, k.ref, k.def)
        BY <1>1, KeyColumnFields
    <3>3. d = Stored(k, n2)
        BY <2>9, <3>1
    <3>4. d.def = <<Type(k), Size(k), IF Nullable(k) = 0 THEN n2 ELSE Nullable(k),
                    IF Default(k) = Null THEN 0 ELSE Default(k)>>
        BY <3>2, <3>3 DEF Stored, Object
    <3>5. Nullable(k) = 2 /\ Default(k) = 0 /\ Type(k) = k.def[1] /\ Size(k) = k.def[2]
        BY <1>2 DEF Nullable, Default, Type, Size
    <3> QED
        BY <3>4, <3>5 DEF Null
  <2>11. Type(d) = Type(k) /\ Size(d) = Size(k) /\ Nullable(d) = 2 /\ Nullable(k) = 2
      BY <1>2, <2>10 DEF Type, Size, Nullable
  <2>12. SameColumn(d, k)
      BY <2>11 DEF SameColumn, SizesDiffer
  <2> QED
      BY <1>1, <1>3, <2>12
<1>6. CASE d \in before
  <2>1. ~Made(k, Generated(data))
    <3>1. SUFFICES ASSUME NEW p \in Generated(data), k \in Makes(p) PROVE FALSE
        BY DEF Made
    <3>2. p.op \in Statements /\ Fit(p) /\ Found(p, before) /\ Fresh(p)
        BY Over
    <3>3. /\ k.table = p.object.table
          /\ p.op = "create_table" \/ (p.op \in {"add_column", "modify_column"} /\ p.object = k)
        BY <1>2, <3>1, <3>2, MakesIs
    <3>4. p.op # "modify_column"
        BY <1>2, <1>4, <3>2, <3>3 DEF Found, FoundOld
    <3> QED
        BY <1>2, <1>3, <1>6, <3>2, <3>3, <3>4 DEF Fresh
  <2>2. PICK b \in before : b.kind = "column" /\ b.table = t /\ b.on = s[1] /\ SameColumn(b, k)
      BY <1>1, <2>1, Over DEF AllNew
  <2>3. b = d
      BY <1>3, <1>6, <2>2, Over, BeforeFacts
  <2> QED
      BY <1>1, <1>3, <2>2, <2>3
<1> QED
    BY <1>5, <1>6, OriginLast DEF AsBefore

\* So is a constraint, as it was made.
LEMMA MadeThere ==
  ASSUME Finished, NEW x, x.kind # "column", Made(x, Generated(data))
  PROVE  x \in db
BY MadeRemains DEF Made, Held

\* What the models ask for takes the place of what had its name and is gone.
LEMMA GaveWayTo ==
  ASSUME Finished, NEW x \in models, x.kind \in {"pk", "unique", "index", "check", "fk"},
         NEW b \in before \ db, b.kind # "column", b.table = x.table,
         b.name = x.name \/ {b.kind, x.kind} = {"pk"}, ~(x.kind = "pk" /\ AsUnique(b))
  PROVE  GaveWay(x)
<1>1. CASE b.kind # x.kind
    BY <1>1 DEF GaveWay
<1>2. CASE b.on # x.on
    BY <1>2 DEF GaveWay
<1>3. CASE b.kind = x.kind /\ b.on = x.on
  <2>1. PICK t : t = x.table
      OBVIOUS
  <2>2. PICK c \in models : c.kind = "column" /\ c.table = t /\ c.on = x.on
      BY <2>1, Over, ModelFacts
  <2>3. t \in Tables
      BY <2>1, Over, ModelTables
  <2>4. HasAt(models, t, b.on)
      BY <1>3, <2>2 DEF HasAt
  <2>5. ~Held(b)
      BY DEF Held
  <2>6. \/ b.kind = "pk" /\ b.name \notin PkNames
        \/ b.kind = "unique" /\ ~\E y \in models : y.kind = "unique" /\ y.table = t /\ y.name = b.name
        \/ b.kind = "index" /\ ~\E y \in models : y.kind = "index" /\ y.table = t /\ y.name = b.name
        \/ b.kind = "check" /\ ~\E y \in models : y.kind = "check" /\ y.table = t /\ y.name = b.name
        \/ /\ b.kind = "fk"
           /\ ~\E y \in models : IsKey(y, t) /\ (y.name = b.name \/ Alike(y, b))
      BY <2>1, <2>3, <2>4, <2>5, GoneFor
  <2>7. b.kind # "pk" /\ b.name = x.name
      BY <1>3, <2>6 DEF AsUnique
  <2> QED
      BY <1>3, <2>1, <2>6, <2>7 DEF IsKey
<1> QED
    BY <1>1, <1>2, <1>3

\* A constraint or an index the next sync adds finds its name free only now, or is a
\* primary key that was taken for a unique constraint.
LEMMA ConstraintsLast ==
  ASSUME Finished, NEW o, Found(o, db), Fit(o),
         o.op \in {"add_pk", "add_unique", "create_index", "add_check"}
  PROVE  \/ GaveWay(o.object)
         \/ o.op = "add_pk" /\ \E k \in Of(before, "pk", o.object.table) : AsUnique(k) /\ k \notin db
<1>1. PICK x, t : x = o.object /\ t = x.table
    OBVIOUS
<1>2. x \in models /\ FoundNew(o, db)
    BY <1>1 DEF Found, FoundNew
<1>3. AllNew(Generated(data), before)
    BY Over
<1>4. CASE o.op = "add_pk"
  <2>1. x.kind = "pk" /\ ~\E b \in db : b.kind = "pk" /\ b.table = t
      BY <1>1, <1>2, <1>4 DEF FoundNew, Fit
  <2>2. x \notin db
      BY <1>1, <2>1
  <2>3. PICK b \in before : b.kind = "pk" /\ b.table = t
      BY <1>1, <1>2, <1>3, <2>1, <2>2, MadeThere DEF AllNew
  <2>4. CASE AsUnique(b)
      BY <1>1, <1>4, <2>1, <2>3, <2>4 DEF Of
  <2>5. CASE ~AsUnique(b)
      BY <1>1, <1>2, <2>1, <2>3, <2>5, GaveWayTo
  <2> QED
      BY <2>4, <2>5
<1>5. CASE o.op = "add_unique"
  <2>1. /\ x.kind = "unique"
        /\ ~\E b \in db : b.kind \in {"unique", "pk"} /\ b.table = t /\ b.name = x.name
      BY <1>1, <1>2, <1>5 DEF FoundNew, Fit
  <2>2. x \notin db
      BY <1>1, <2>1
  <2>3. PICK b \in before : b.kind \in {"unique", "pk"} /\ b.table = t /\ b.name = x.name
      BY <1>1, <1>2, <1>3, <2>1, <2>2, MadeThere DEF AllNew
  <2> QED
      BY <1>1, <1>2, <2>1, <2>3, GaveWayTo
<1>6. CASE o.op = "create_index"
  <2>1. /\ x.kind = "index"
        /\ ~\E b \in db : b.kind \in {"index", "unique", "pk"} /\ b.table = t /\ b.name = x.name
      BY <1>1, <1>2, <1>6 DEF FoundNew, Fit
  <2>2. x \notin db
      BY <1>1, <2>1
  <2>3. PICK b \in before : b.kind \in {"index", "unique", "pk"} /\ b.table = t /\ b.name = x.name
      BY <1>1, <1>2, <1>3, <2>1, <2>2, MadeThere DEF AllNew
  <2> QED
      BY <1>1, <1>2, <2>1, <2>3, GaveWayTo
<1>7. CASE o.op = "add_check"
  <2>1. x.kind = "check" /\ ~\E b \in db : b.kind = "check" /\ b.table = t /\ b.name = x.name
      BY <1>1, <1>2, <1>7 DEF FoundNew, Fit
  <2>2. x \notin db
      BY <1>1, <2>1
  <2>3. PICK b \in before : b.kind = "check" /\ b.table = t /\ b.name = x.name
      BY <1>1, <1>2, <1>3, <2>1, <2>2, MadeThere DEF AllNew
  <2> QED
      BY <1>1, <1>2, <2>1, <2>3, GaveWayTo
<1> QED
    BY <1>4, <1>5, <1>6, <1>7

\* No column of a through table is added again.
LEMMA NoColumnLast ==
  ASSUME Finished, NEW o, Found(o, db), Fit(o)
  PROVE  o.op # "add_column"
<1>1. SUFFICES ASSUME o.op = "add_column" PROVE FALSE
    OBVIOUS
<1>2. PICK x, t : x = o.object /\ t = x.table
    OBVIOUS
<1>3. t \notin Tables
    BY <1>1, <1>2, TablesRemain
<1>4. PICK m \in Processed :
        /\ m.ref[1] = t /\ \E s \in Sides(m) : x = KeyColumn(t, s[1], s[2])
        /\ ~\E b \in db : b.kind = "column" /\ b.table = t /\ b.on = x.on /\ SameColumn(b, x)
    BY <1>1, <1>2, <1>3 DEF Found, FoundNew
<1>5. PICK s \in Sides(m) : x = KeyColumn(t, s[1], s[2])
    BY <1>4
<1>6. x.on = s[1]
    BY <1>5, KeyColumnFields
<1> QED
    BY <1>4, <1>5, <1>6, SideColumnsLast

\* What was dropped is gone.
LEMMA DroppedGone ==
  ASSUME Finished, NEW op \in Dropping, NEW x, Drops(op, x, Generated(data))
  PROVE  /\ op # "drop_column" => x \notin db
         /\ op = "drop_column" => ~HasAt(db, x.table, x.on)
<1>1. PICK p \in Generated(data) : p.op = op /\ p.object = x
    BY DEF Drops
<1>2. /\ op # "drop_column" => x \notin db
      /\ op = "drop_column" => ~HasColumn(x.table, x.on)
    BY <1>1, Over DEF Gone
<1> QED
    BY <1>2 DEF HasColumn, HasAt, Of

\* A constraint is not left to be dropped, but a primary key that is taken for a unique
\* one, and an index only if a key had its name.
LEMMA RemovalsLast ==
  ASSUME Finished, NEW o, Found(o, db), Fit(o), o.op \in {"drop_unique", "drop_index", "drop_check"},
         ~(o.op = "drop_unique" /\ AsUnique(o.object))
  PROVE  o.op = "drop_index" /\ GaveWay(o.object)
<1>1. PICK x, t : x = o.object /\ t = x.table
    OBVIOUS
<1>2. /\ x \in db /\ t \in Tables /\ x.kind \in {"unique", "index", "check"}
      /\ o.op = "drop_unique" <=> x.kind = "unique"
      /\ o.op = "drop_index" <=> x.kind = "index"
      /\ o.op = "drop_check" <=> x.kind = "check"
      /\ ~\E y \in models : y.kind = x.kind /\ y.table = t /\ y.name = x.name
      /\ o.op = "drop_index" => ~\E b \in db : IsKey(b, t) /\ b.name = x.name
  <2>1. FoundOld(o, db)
      BY DEF Found
  <2>2. CASE o.op = "drop_unique"
      BY <1>1, <2>1, <2>2 DEF FoundOld, Fit, Dropping, AsUnique
  <2>3. CASE o.op = "drop_index"
      BY <1>1, <2>1, <2>3 DEF FoundOld, Fit, Dropping
  <2>4. CASE o.op = "drop_check"
      BY <1>1, <2>1, <2>4 DEF FoundOld, Fit, Dropping
  <2> QED
      BY <2>2, <2>3, <2>4
<1>3. x \in before
  <2>1. SUFFICES ASSUME x \notin before PROVE FALSE
      OBVIOUS
  <2>2. PICK p \in Generated(data) : \E y \in Makes(p) :
          x = y /\ p.op \in Statements /\ Fit(p) /\ Found(p, before)
      BY <1>2, <2>1, OriginLast DEF AsBefore
  <2>3. x \in models
      BY <1>2, <2>2, MakesFor
  <2> QED
      BY <1>1, <1>2, <2>3
<1>4. \/ Drops("drop_unique", x, Generated(data)) \/ Drops("drop_check", x, Generated(data))
      \/ Drops("drop_index", x, Generated(data))
      \/ x.kind = "index" /\ \E fk \in before : IsKey(fk, t) /\ fk.name = x.name
  <2>1. x.kind \in {"unique", "index"} => x.name \notin PkNames
      BY <1>1, <1>2 DEF Found, FoundOld
  <2> QED
      BY <1>1, <1>2, <1>3, <2>1, Over DEF AllOld
<1>5. x.kind = "index" /\ \E fk \in before : IsKey(fk, t) /\ fk.name = x.name
    BY <1>2, <1>4, DroppedGone DEF Dropping
<1>6. PICK fk \in before : IsKey(fk, t) /\ fk.name = x.name
    BY <1>5
<1>7. fk \notin db
    BY <1>2, <1>5, <1>6
<1> QED
    BY <1>1, <1>2, <1>5, <1>6, <1>7 DEF GaveWay, IsKey

\* A key that is there is one of before, or was asked for.
LEMMA KeyOrigin ==
  ASSUME Finished, NEW b \in db, b.kind = "fk"
  PROVE  b \in before \/ Asked(b, before)
<1>1. SUFFICES ASSUME b \notin before PROVE Asked(b, before)
    OBVIOUS
<1>2. PICK p \in Generated(data) : \E y \in Makes(p) :
        b = y /\ p.op \in Statements /\ Fit(p) /\ Found(p, before)
    BY <1>1, OriginLast DEF AsBefore
<1> QED
    BY <1>2, MakesFor

\* No column is left to be dropped.
LEMMA ColumnRemovalsLast ==
  ASSUME Finished, NEW o, Found(o, db), Fit(o)
  PROVE  o.op # "drop_column"
<1>1. SUFFICES ASSUME o.op = "drop_column" PROVE FALSE
    OBVIOUS
<1>2. PICK x, t : x = o.object /\ t = x.table
    OBVIOUS
<1>3. x \in db /\ x.kind = "column" /\ FoundOld(o, db)
    BY <1>1, <1>2 DEF Found, FoundOld, Fit, Dropping
<1>4. CASE t \in Tables
  <2>1. ~HasAt(models, t, x.on)
      BY <1>1, <1>2, <1>3, <1>4 DEF FoundOld
  <2>2. x \in before
    <3>1. SUFFICES ASSUME x \notin before PROVE FALSE
        OBVIOUS
    <3>2. PICK p \in Generated(data) : \E y \in Makes(p) :
            /\ x.kind = y.kind /\ x.table = y.table /\ x.on = y.on
            /\ p.op \in Statements /\ Fit(p) /\ Found(p, before)
        BY <1>3, <3>1, OriginLast DEF AsBefore
    <3>3. PICK y \in Makes(p) : x.kind = y.kind /\ x.table = y.table /\ x.on = y.on
        BY <3>2
    <3>4. HasAt(models, y.table, y.on)
        BY <1>2, <1>3, <1>4, <3>2, <3>3, MadeOn, Over
    <3> QED
        BY <1>2, <2>1, <3>3, <3>4
  <2>3. Drops("drop_column", x, Generated(data))
      BY <1>2, <1>3, <1>4, <2>1, <2>2, Over DEF AllOld
  <2>4. ~HasAt(db, t, x.on)
      BY <1>2, <2>3, DroppedGone DEF Dropping
  <2> QED
      BY <1>2, <1>3, <2>4 DEF HasAt
<1>5. CASE t \notin Tables
  <2>1. PICK m \in Processed :
          /\ m.ref[1] = t /\ \A s \in Sides(m) : s[1] # x.on
          /\ \E b \in db : IsKey(b, t) /\ b.on = x.on /\ \E s \in Sides(m) : b.ref[1] = s[2]
      BY <1>1, <1>2, <1>3, <1>5 DEF FoundOld
  <2>2. PICK b \in db : IsKey(b, t) /\ b.on = x.on /\ \E s \in Sides(m) : b.ref[1] = s[2]
      BY <2>1
  <2>3. CASE b \in before
    <3>1. Drops("drop_fk", b, Generated(data))
        BY <2>1, <2>2, <2>3, Over DEF AllOld
    <3> QED
        BY <2>2, <3>1, DroppedGone DEF Dropping
  <2>4. CASE Asked(b, before)
      BY <2>1, <2>2, <2>4, AskedOn, Over DEF IsKey
  <2> QED
      BY <2>2, <2>3, <2>4, KeyOrigin DEF IsKey
<1> QED
    BY <1>4, <1>5

\* A column is modified again only for a default of NULL.
LEMMA ChangesLast ==
  ASSUME Finished, NEW o, Found(o, db), Fit(o), o.op = "modify_column"
  PROVE  Default(o.object) = Null
<1>1. PICK x, t : x = o.object /\ t = x.table
    OBVIOUS
<1>2. t \in Tables /\ x \in models /\ x.kind = "column" /\ \E d \in db : Changed(d, x)
    BY <1>1 DEF Found, FoundOld, Fit
<1>3. PICK d \in db : Changed(d, x)
    BY <1>2
<1>4. d.kind = "column" /\ d.table = t /\ d.on = x.on
    BY <1>1, <1>3 DEF Changed
<1>5. ~AsBefore(d)
  <2>1. SUFFICES ASSUME AsBefore(d) PROVE FALSE
      OBVIOUS
  <2>2. PICK p \in Generated(data) : p.op = "modify_column" /\ p.object = x
      BY <1>2, <1>3, <2>1, Over DEF AllOld, AsBefore
  <2> QED
      BY <1>1, <1>4, <2>1, <2>2, Over DEF AsBefore
<1>6. PICK p \in Generated(data) : \E y \in Makes(p) :
        /\ Is(d, y) /\ d.kind = y.kind /\ d.table = y.table /\ d.on = y.on
        /\ p.op \in Statements /\ Fit(p) /\ Found(p, before)
    BY <1>5, OriginLast
<1>7. PICK y \in Makes(p) : Is(d, y) /\ d.kind = y.kind /\ d.table = y.table /\ d.on = y.on
    BY <1>6
<1>8. y \in models
    BY <1>2, <1>4, <1>6, <1>7, MakesFor
<1>9. y = x
  <2>1. \A a, b \in models : a.kind = "column" /\ b.kind = "column" /\ b.table = a.table /\ b.on = a.on
                               => b = a
      BY Over, ModelFacts, Zenon
  <2> QED
      BY <1>1, <1>2, <1>4, <1>7, <1>8, <2>1
<1>10. PICK n : n = Nullable(d) /\ d = Stored(x, n)
    BY <1>4, <1>7, <1>9 DEF Is
<1>11. d.def = <<Type(x), Size(x), IF Nullable(x) = 0 THEN n ELSE Nullable(x),
                 IF Default(x) = Null THEN 0 ELSE Default(x)>>
  <2>1. x = Object(x.kind, x.table, x.name, x.on, x.ref, x.def)
      BY <1>1 DEF Fit
  <2> QED
      BY <1>10, <2>1 DEF Stored, Object
<1>12. /\ Type(d) = Type(x) /\ Size(d) = Size(x)
       /\ Nullable(x) \in {0, Nullable(d)}
       /\ Default(x) = Null \/ Default(d) = Default(x)
  <2>1. /\ d.def[1] = Type(x) /\ d.def[2] = Size(x)
        /\ d.def[3] = IF Nullable(x) = 0 THEN n ELSE Nullable(x)
        /\ d.def[4] = IF Default(x) = Null THEN 0 ELSE Default(x)
      BY <1>11
  <2>2. Type(d) = d.def[1] /\ Size(d) = d.def[2] /\ Nullable(d) = d.def[3] /\ Default(d) = d.def[4]
      BY DEF Type, Size, Nullable, Default
  <2> QED
      BY <2>1, <2>2
<1>13. SameColumn(d, x)
    BY <1>12 DEF SameColumn, SizesDiffer
<1>14. DefaultChanged(d, x)
    BY <1>3, <1>13 DEF Changed
<1> QED
    BY <1>1, <1>12, <1>14 DEF DefaultChanged

\* Two sides of one table are those of a relation of a model with itself.
LEMMA OneTable ==
  ASSUME NEW m \in models, m.kind = "m2m", NEW r \in Sides(m), NEW s \in Sides(m),
         r[2] = s[2], r[1] # s[1]
  PROVE  OfItself(m.ref[1])
<1>1. PICK a, b : a = Left(m) /\ b = Right(m)
    OBVIOUS
<1>2. r \in {a, b} /\ s \in {a, b}
    BY <1>1, SidesAre
<1>3. a[2] = b[2]
    BY <1>2
<1>4. a[2] = m.table /\ b[2] = m.ref[2]
    BY <1>1, SideFields
<1> QED
    BY <1>3, <1>4 DEF OfItself

\* Of the keys of its through table, a relation of two tables drops none it asked for.
LEMMA AskedNotAstray ==
  ASSUME SoundModels(models), NEW S, NEW x, Asked(x, S), NEW m \in Processed, m.ref[1] = x.table,
         NEW b, Alike(b, x), Astray(b, m)
  PROVE  OfItself(x.table)
<1>1. PICK s \in Sides(m) : b.ref[1] = s[2] /\ b.on # s[1]
    BY DEF Astray
<1>2. PICK r \in Sides(m) : r[1] = x.on /\ r[2] = x.ref[1]
    BY AskedOn
<1>3. b.on = r[1] /\ b.ref[1] = r[2]
    BY <1>2 DEF Alike
<1>4. m \in models /\ m.kind = "m2m"
    BY ProcessedAre
<1> QED
    BY <1>1, <1>3, <1>4, OneTable

\* A key is left to be dropped only of a relation with itself or with a model between.
LEMMA KeyRemovalsLast ==
  ASSUME Finished, NEW o, Found(o, db), Fit(o), o.op = "drop_fk"
  PROVE  \/ OfItself(o.object.table)
         \/ o.object.table \in Tables /\ \E m \in Relations(models) : o.object = RelationKey(m)
<1>1. PICK x, t : x = o.object /\ t = x.table
    OBVIOUS
<1>2. x \in db /\ x.kind = "fk" /\ FoundOld(o, db)
    BY <1>1 DEF Found, FoundOld, Fit, Dropping
<1>3. CASE t \in Tables
  <2>1. ~\E y \in models : IsKey(y, t) /\ (y.name = x.name \/ Alike(y, x))
      BY <1>1, <1>2, <1>3 DEF FoundOld
  <2>2. CASE x \in before
    <3>1. Drops("drop_fk", x, Generated(data))
        BY <1>1, <1>2, <1>3, <2>1, <2>2, Over DEF AllOld
    <3> QED
        BY <1>2, <3>1, DroppedGone DEF Dropping
  <2>3. CASE Asked(x, before)
    <3>1. x \notin models
        BY <1>1, <1>2, <2>1 DEF IsKey
    <3>2. ~\E m \in Processed : \E s \in Sides(m) : x = SideKey(m, s)
        BY <1>1, <1>3, ProcessedAre, SideKeyFields
    <3> QED
        BY <1>1, <1>3, <2>3, <3>1, <3>2 DEF Asked
  <2> QED
      BY <1>2, <2>2, <2>3, KeyOrigin
<1>4. CASE t \notin Tables
  <2>1. SUFFICES ASSUME ~OfItself(t) PROVE FALSE
      BY <1>1
  <2>2. PICK m \in Processed : m.ref[1] = t /\ Astray(x, m)
      BY <1>1, <1>2, <1>4, <2>1 DEF FoundOld
  <2>3. CASE x \in before
    <3>1. IsKey(x, t) /\ \E s \in Sides(m) : x.ref[1] = s[2]
        BY <2>2 DEF Astray
    <3>2. Drops("drop_fk", x, Generated(data))
        BY <2>1, <2>2, <2>3, <3>1, Over DEF AllOld
    <3> QED
        BY <1>2, <3>2, DroppedGone DEF Dropping
  <2>4. CASE Asked(x, before)
    <3>1. Alike(x, x)
        BY DEF Alike
    <3> QED
        BY <1>1, <2>1, <2>2, <2>4, <3>1, AskedNotAstray, Over
  <2> QED
      BY <1>2, <2>3, <2>4, KeyOrigin
<1> QED
    BY <1>3, <1>4

\* A key of a through table that is gone was on another column or one of a relation
\* with itself.
LEMMA KeyGone ==
  ASSUME Finished, NEW S, NEW x, Asked(x, S), x.table \notin Tables, ~OfItself(x.table),
         NEW b \in before \ db, IsKey(b, x.table)
  PROVE  ~Alike(b, x)
<1>1. SUFFICES ASSUME Alike(b, x) PROVE FALSE
    OBVIOUS
<1>2. ~Held(b) /\ b.table = x.table /\ b.kind = "fk"
    BY DEF Held, IsKey
<1>3. PICK t : t = x.table
    OBVIOUS
<1>4. \/ \E m \in Processed : m.ref[1] = t /\ \A s \in Sides(m) : s[1] # b.on
      \/ \E m \in Processed : m.ref[1] = t /\ (~OfItself(t) => Astray(b, m))
    BY <1>2, <1>3, GoneFor
<1>5. CASE \E m \in Processed : m.ref[1] = t /\ \A s \in Sides(m) : s[1] # b.on
  <2>1. PICK m \in Processed : m.ref[1] = t /\ \A s \in Sides(m) : s[1] # b.on
      BY <1>5
  <2>2. b.on = x.on
      BY <1>1 DEF Alike
  <2> QED
      BY <1>3, <2>1, <2>2, AskedOn, Over
<1>6. CASE \E m \in Processed : m.ref[1] = t /\ (~OfItself(t) => Astray(b, m))
  <2>1. PICK m \in Processed : m.ref[1] = t /\ Astray(b, m)
      BY <1>3, <1>6
  <2> QED
      BY <1>1, <1>3, <2>1, AskedNotAstray, Over
<1> QED
    BY <1>4, <1>5, <1>6

\* The key of a side, if it is not there, found its name taken.
LEMMA SideKeysLast ==
  ASSUME Finished, NEW m \in Processed, NEW s \in Sides(m), NEW k, k = SideKey(m, s),
         ~OfItself(m.ref[1]), k \notin db, ~\E b \in before \cap db : IsSideKey(b, m, s)
  PROVE  \E b \in before : IsKey(b, m.ref[1]) /\ b.name = k.name /\ ~Alike(b, k)
<1>1. PICK t : t = m.ref[1]
    OBVIOUS
<1>2. k.kind = "fk" /\ k.table = t /\ k.on = s[1] /\ k.ref[1] = s[2] /\ t \notin Tables
    BY <1>1, SideKeyFields, ProcessedAre
<1>3. ASSUME NEW b \in before, IsSideKey(b, m, s)
      PROVE  FALSE
  <2>1. b \notin db /\ ~Held(b) /\ b.kind = "fk" /\ b.table = t /\ b.ref[1] = s[2] /\ b.on = s[1]
      BY <1>1, <1>3 DEF IsSideKey, IsKey, Held
  <2>2. \/ \E n \in Processed : n.ref[1] = t /\ \A r \in Sides(n) : r[1] # b.on
        \/ \E n \in Processed : n.ref[1] = t /\ Astray(b, n)
      BY <1>1, <1>2, <2>1, GoneFor
  <2>3. Astray(b, m)
      BY <1>1, <2>1, <2>2, ProcessedOnce
  <2>4. PICK r \in Sides(m) : b.ref[1] = r[2] /\ b.on # r[1]
      BY <2>3 DEF Astray
  <2>5. m \in models /\ m.kind = "m2m"
      BY ProcessedAre
  <2> QED
      BY <1>1, <2>1, <2>4, <2>5, OneTable
<1>4. ~Made(k, Generated(data))
    BY <1>2, MadeThere
<1>5. PICK b \in before : IsKey(b, t) /\ b.name = k.name
    BY <1>1, <1>3, <1>4, Over DEF AllNew
<1>6. ~Alike(b, k)
    BY <1>1, <1>2, <1>3, <1>5 DEF Alike, IsSideKey
<1> QED
    BY <1>1, <1>5, <1>6

\* A key that the models declare finds its name free only now.
LEMMA DeclaredKeysLast ==
  ASSUME Finished, NEW x \in models, x.kind = "fk",
         ~\E b \in db : IsKey(b, x.table) /\ (b.name = x.name \/ Alike(b, x))
  PROVE  GaveWay(x)
<1>1. PICK t : t = x.table
    OBVIOUS
<1>2. t \in Tables /\ x \notin db
    BY <1>1, Over, ModelTables DEF IsKey
<1>3. PICK b \in before : IsKey(b, t) /\ (b.name = x.name \/ Alike(b, x))
    BY <1>1, <1>2, MadeThere, Over DEF AllNew
<1>4. b \notin db /\ b.kind = "fk" /\ b.table = t /\ ~Held(b)
    BY <1>1, <1>3 DEF IsKey, Held
<1>5. CASE b.name = x.name
    BY <1>1, <1>4, <1>5, GaveWayTo
<1>6. CASE Alike(b, x)
  <2>1. PICK c \in models : c.kind = "column" /\ c.table = t /\ c.on = x.on
      BY <1>1, Over, ModelFacts
  <2>2. HasAt(models, t, b.on)
      BY <1>6, <2>1 DEF HasAt, Alike
  <2>3. ~\E y \in models : IsKey(y, t) /\ (y.name = b.name \/ Alike(y, b))
      BY <1>2, <1>4, <2>2, GoneFor
  <2> QED
      BY <1>1, <1>6, <2>3 DEF Alike, IsKey
<1> QED
    BY <1>3, <1>5, <1>6

\* So does the key of a side, unless its name was taken.
LEMMA SideKeysGiveWay ==
  ASSUME Finished, NEW m \in Processed, NEW s \in Sides(m), NEW x, x = SideKey(m, s),
         ~\E b \in db : IsSideKey(b, m, s)
  PROVE  OfItself(x.table) \/ NameTaken(x)
<1>1. /\ x.kind = "fk" /\ x.table = m.ref[1] /\ x.on = s[1] /\ x.ref = <<s[2], Pk(s[2])>>
      /\ x.name = FkName(m.ref[1], s[1], s[2])
    BY SideKeyIs
<1>2. SUFFICES ASSUME ~OfItself(x.table) PROVE NameTaken(x)
    OBVIOUS
<1>3. x.ref[1] = s[2]
    BY <1>1
<1>4. x \notin db
    BY <1>1, <1>3 DEF IsSideKey, IsKey
<1>5. PICK b \in before : IsKey(b, m.ref[1]) /\ b.name = x.name /\ ~Alike(b, x)
    BY <1>1, <1>2, <1>4, SideKeysLast
<1>6. b.table = x.table /\ b.name = FkName(x.table, x.on, x.ref[1])
    BY <1>1, <1>3, <1>5 DEF IsKey
<1> QED
    BY <1>5, <1>6 DEF NameTaken

\* And the left key of a relation of two tables, whose through table has no model.
LEMMA RelationKeysLast ==
  ASSUME Finished, NEW m \in models, m.kind = "m2m", NEW x, x = RelationKey(m),
         x.table \notin Tables, ~OfItself(x.table),
         ~\E b \in db : IsKey(b, x.table) /\ (b.name = x.name \/ Alike(b, x))
  PROVE  GaveWay(x) \/ NameTaken(x)
<1>1. PICK t : t = x.table
    OBVIOUS
<1>2. /\ x.kind = "fk" /\ t = m.ref[1] /\ x.name = m.name /\ x.on = m.on
      /\ x.ref = <<m.table, Pk(m.table)>>
    BY <1>1, RelationKeyFields
<1>3. Asked(x, before) /\ SoundModels(models) /\ SoundDatabase(before)
    BY Over DEF Asked, Relations
<1>4. CASE \E b \in before : b.table = m.table /\ b.kind # "table"
  <2>1. x \notin db
      BY <1>1, <1>2 DEF IsKey
  <2>2. (\E b \in before : IsKey(b, t) /\ (b.name = x.name \/ Alike(b, x))) \/ Made(x, Generated(data))
      BY <1>1, <1>4, Over DEF AllNew
  <2>3. PICK b \in before : IsKey(b, t) /\ (b.name = x.name \/ Alike(b, x))
      BY <1>2, <2>1, <2>2, MadeThere
  <2>4. b \notin db
      BY <1>1, <2>3
  <2>5. ~Alike(b, x)
      BY <1>1, <1>3, <2>3, <2>4, KeyGone
  <2>6. b.on # x.on \/ b.ref # x.ref
      BY <1>1, <2>3, <2>5 DEF Alike, IsKey
  <2> QED
      BY <1>1, <2>3, <2>4, <2>5, <2>6 DEF GaveWay, IsKey
<1>5. CASE ~\E b \in before : b.table = m.table /\ b.kind # "table"
  <2>1. PICK n \in Processed : n.ref[1] = t
      BY <1>1, <1>2, AllProcessed
  <2>2. n \in models /\ n.kind = "m2m"
      BY ProcessedAre
  <2>3. Sides(m) = Sides(n)
      BY <1>2, <1>3, <2>1, <2>2, RelationFacts
  <2>4. PICK s : s = Left(m)
      OBVIOUS
  <2>5. s \in Sides(n) /\ s[1] = m.on /\ s[2] = m.table
      BY <2>3, <2>4, SidesAre, SideFields
  <2>6. ASSUME NEW b \in before, b.kind = "fk", b.ref[1] = m.table
        PROVE  FALSE
    <3>1. Keyed(b.ref[1], b.ref[2], before)
        BY <1>3, <2>6, DatabaseFacts
    <3> QED
        BY <1>5, <2>6, <3>1 DEF Keyed
  <2>7. PICK k : k = SideKey(n, s)
      OBVIOUS
  <2>8. /\ k.kind = "fk" /\ k.table = t /\ k.on = m.on /\ k.ref = <<m.table, Pk(m.table)>>
        /\ k.name = FkName(t, m.on, m.table)
      BY <2>1, <2>5, <2>7, SideKeyIs
  <2>9. k \notin db
      BY <1>1, <1>2, <2>8 DEF IsKey, Alike
  <2>10. ~\E b \in before \cap db : IsSideKey(b, n, s)
      BY <2>5, <2>6 DEF IsSideKey, IsKey
  <2>11. PICK b \in before : IsKey(b, t) /\ b.name = k.name
      BY <1>1, <2>1, <2>5, <2>7, <2>9, <2>10, SideKeysLast
  <2>12. b.name = FkName(x.table, x.on, x.ref[1])
      BY <1>1, <1>2, <2>8, <2>11
  <2>13. ~Alike(b, x)
      BY <1>2, <2>6, <2>11 DEF Alike, IsKey
  <2> QED
      BY <1>1, <2>11, <2>12, <2>13 DEF NameTaken, IsKey
<1> QED
    BY <1>4, <1>5

\* What is left of the keys to be added.
LEMMA KeysLast ==
  ASSUME Finished, NEW o, Found(o, db), Fit(o), o.op = "add_fk"
  PROVE  \/ GaveWay(o.object) \/ NameTaken(o.object) \/ OfItself(o.object.table)
         \/ o.object.table \in Tables /\ \E m \in Relations(models) : o.object = RelationKey(m)
<1>1. PICK x : x = o.object
    OBVIOUS
<1>2. Asked(x, db) /\ ~\E b \in db : IsKey(b, x.table) /\ (b.name = x.name \/ Alike(b, x))
    BY <1>1 DEF Found, FoundNew
<1>3. CASE x \in models /\ x.kind = "fk"
    BY <1>1, <1>2, <1>3, DeclaredKeysLast
<1>4. CASE \E m \in Relations(models) : x = RelationKey(m)
  <2>1. PICK m \in models : m.kind = "m2m" /\ x = RelationKey(m)
      BY <1>4 DEF Relations
  <2> QED
      BY <1>1, <1>2, <1>4, <2>1, RelationKeysLast
<1>5. CASE \E m \in Processed : \E s \in Sides(m) : x = SideKey(m, s) /\ ~\E b \in db : IsSideKey(b, m, s)
  <2>1. PICK m \in Processed :
          \E s \in Sides(m) : x = SideKey(m, s) /\ ~\E b \in db : IsSideKey(b, m, s)
      BY <1>5
  <2>2. PICK s \in Sides(m) : x = SideKey(m, s) /\ ~\E b \in db : IsSideKey(b, m, s)
      BY <2>1
  <2> QED
      BY <1>1, <2>2, SideKeysGiveWay
<1> QED
    BY <1>2, <1>3, <1>4, <1>5 DEF Asked

\* A sync that ran to its end leaves nothing to the next one, but for the exceptions
\* (makeDiff(), schema_diff.ts; generateOperations(), migration_operation_generator.ts).
THEOREM SyncsSettle == Spec => []SettlesAtOnce
<1>1. SyncInv /\ UndoInv /\ SettleInv => SettlesAtOnce
  <2>1. SUFFICES ASSUME Finished, NEW o \in Remaining
                 PROVE  \/ GaveWay(o.object)
                        \/ o.op = "drop_unique" /\ AsUnique(o.object)
                        \/ /\ o.op = "add_pk"
                           /\ \E k \in Of(before, "pk", o.object.table) : AsUnique(k) /\ k \notin db
                        \/ o.op = "modify_column" /\ Default(o.object) = Null
                        \/ o.op \in {"add_fk", "drop_fk"} /\ OfItself(o.object.table)
                        \/ /\ o.op \in {"add_fk", "drop_fk"} /\ o.object.table \in Tables
                           /\ \E m \in Relations(models) : o.object = RelationKey(m)
                        \/ o.op = "add_fk" /\ NameTaken(o.object)
      BY DEF Finished, SettlesAtOnce
  <2>2. o.op \in Statements /\ Fit(o) /\ Found(o, db)
      BY <2>1, RemainingIs
  <2>3. /\ o.op \notin {"create_table", "add_column", "drop_column", "drop_check"}
        /\ o.op = "drop_unique" => AsUnique(o.object)
      BY <2>1, <2>2, TablesRemain, NoColumnLast, ColumnRemovalsLast, RemovalsLast
  <2>4. CASE o.op \in {"add_pk", "add_unique", "create_index", "add_check"}
      BY <2>1, <2>2, <2>4, ConstraintsLast
  <2>5. CASE o.op = "drop_index"
      BY <2>1, <2>2, <2>5, RemovalsLast
  <2>6. CASE o.op = "add_fk"
      BY <2>1, <2>2, <2>6, KeysLast
  <2>7. CASE o.op = "drop_fk"
      BY <2>1, <2>2, <2>7, KeyRemovalsLast
  <2>8. CASE o.op = "modify_column"
      BY <2>1, <2>2, <2>8, ChangesLast
  <2> QED
      BY <2>2, <2>3, <2>4, <2>5, <2>6, <2>7, <2>8 DEF Statements, Adding, Dropping
<1> QED
    BY <1>1, SyncInvariant, UndoInvariant, SettleInvariant, PTL
=============================================================================
