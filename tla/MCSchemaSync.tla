----------------------------- MODULE MCSchemaSync -----------------------------
(* SchemaSync instantiated for TLC: a parent P, a child C that may refer to it,  *)
(* and a through table J.                                                        *)
EXTENDS SchemaSync

Column(t, c, d) == Object("column", t, <<c>>, c, <<>>, d)
Key(t, c) == Object("pk", t, <<t, "pk">>, c, <<>>, <<>>)
MCPkNames == {<<t, "pk">> : t \in {"P", "C", "J"}}

\* A primary key by another name, of the models' choice or postgres'.
Renamed(objects) ==
  {IF o.kind = "pk" THEN [o EXCEPT !.name = <<o.table, "key">>] ELSE o : o \in objects}
Id == <<1, 0, 2, 0>>
Table(t, columns, key) ==
  {TableObject(t), Key(t, key)}
    \cup {Column(t, x[1], x[2]) : x \in columns}
Foreign(t, c, ref, actions) == Object("fk", t, FkName(t, c, ref[1]), c, ref, <<actions>>)
On1(kind, c) == Object(kind, "P", <<"on_a">>, c, <<>>, <<>>)

\* P: with or without a second column, its index or constraint, and a moved key.
Plain == Table("P", {<<"id", Id>>}, "id")
With(d) == Table("P", {<<"id", Id>>, <<"a", d>>}, "id")
Moved == Table("P", {<<"id", Id>>, <<"a", Id>>}, "a")
Retyped == Table("P", {<<"id", <<2, 0, 2, 0>>>>, <<"b", Id>>}, "id") \cup {On1("index", "b")}
Parents ==
  {Plain}
    \cup {With(<<1, 0, 1, 0>>) \cup x : x \in {{}, {On1("index", "a")}, {On1("unique", "a")}, {On1("check", "a")}}}
    \cup {With(<<2, 1, 0, 1>>), With(<<2, 2, 2, 2>>), With(<<1, 1, 0, Null>>)}
    \cup {Moved, Retyped}

\* Those whose primary key differs.
Keys == {Plain, Moved, Retyped}

KeyOf(objects) == CHOOSE c \in {"id", "a"} : \E o \in Of(objects, "pk", "P") : o.on = c
Child == Table("C", {<<"id", Id>>}, "id")
Referring == Table("C", {<<"id", Id>>, <<"p", Id>>}, "id")

Children(p) ==
  {{}, Child} \cup {Referring \cup {Foreign("C", "p", <<"P", KeyOf(p)>>, d)} : d \in {1, 2}}

Through(l, t) == Object("m2m", "P", <<"J", "through">>, l, <<"J", t, "r">>, <<1>>)
Back == Object("m2m", "C", <<"J", "back">>, "r", <<"J", "P", "l">>, <<1>>)
Related ==
  {{}, {Through("l", "P")}, {Through("l", "C")}, {Through("k", "C")}, {Through("l", "C"), Back},
   {Through("l", "C")} \cup Table("J", {<<"id", Id>>, <<"l", Id>>, <<"r", Id>>}, "id")}

MCModelSets ==
  UNION {{p \cup c : c \in Children(p)} : p \in Parents}
    \cup {p \cup Child \cup m : p \in Keys, m \in Related}
    \cup {Renamed(Plain) \cup c : c \in Children(Plain)}

\* What the models ask for, as a database holds it.
Built(s) ==
  LET end(t) == IF t = "P" THEN <<"P", KeyOf(s)>> ELSE <<t, "id">>
      through(m) ==
        {TableObject("J"), Column("J", m.on, Id), Column("J", m.ref[3], Id),
         Foreign("J", m.on, end(m.table), 1), Foreign("J", m.ref[3], end(m.ref[2]), 1)}
  IN {IF o.kind = "column" THEN Stored(o, 1) ELSE o : o \in {x \in s : x.kind # "m2m"}}
       \cup UNION {through(m) : m \in {o \in s : o.kind = "m2m"}}

\* Databases no sync made: a key to a unique column, a key with a name of its own, a
\* through table without keys, whose columns may have another type, or with a key under
\* the name of another, a table without columns, and names that are taken.  The keys
\* postgres names are those of Renamed.
Legacy ==
  LET p == With(<<1, 0, 1, 0>>) \cup {On1("unique", "a")}
      j(d) == {TableObject("J"),
               Column("J", "l", <<d, 0, 2, 0>>), Column("J", "r", <<d, 0, 2, 0>>)}
      named(kind, t, ref) == Object(kind, t, <<"on_a">>, "id", ref, <<>>)
  IN {p \cup Referring \cup {Foreign("C", "p", <<"P", "a">>, 1)},
      p \cup Referring \cup {Object("fk", "C", <<"own">>, "p", <<"P", "id">>, <<1>>)},
      p \cup Referring \cup j(1), p \cup Referring \cup j(2),
      Child \cup j(1)
        \cup {Object("fk", "J", FkName("J", "l", "P"), "r", <<"C", "id">>, <<1>>)},
      {TableObject("P")}, Plain \cup Child \cup {named("index", "C", <<>>)},
      Plain \cup {named("index", "P", <<>>), named("fk", "P", <<"P", "id">>)}}

MCDatabases == {{}} \cup {Built(s) : s \in MCModelSets} \cup Legacy
=============================================================================
