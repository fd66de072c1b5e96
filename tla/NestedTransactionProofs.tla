------------------------ MODULE NestedTransactionProofs ------------------------
(***************************************************************************)
(* Transactions nested by savepoints are atomic scopes, for any number of  *)
(* them and of writes, on every database: the steps of NestedTransaction,  *)
(* with awaited calls, are steps of NestedScopes.                          *)
(***************************************************************************)
EXTENDS NestedTransaction, SequenceTheorems, TLAPS

\* Calls are awaited, and a rejected statement is thrown on where postgres refuses
\* everything after it.
Awaited == ~Overlap /\ "postgres" \notin Swallow

Opened == {x \in Trans : Active(x)}
OpenedScopes == Opened \ {Root}

\* Where the savepoint of a transaction is: before all of them for the top-level one.
Pos(x) == IF x = Root THEN 0 ELSE Mark(x)

NestedTypeOK ==
  /\ dialect \in Dialects
  /\ status \in [Trans -> {"new", "rejected", "active", "committed", "undone"}]
  /\ parent \in [Scope -> Trans \cup {NoScope}]
  /\ failed \in [Trans -> BOOLEAN]
  /\ marks \in Seq([scope : Scope, at : Nat])
  /\ log \in Seq(Write)
  /\ aborted \in BOOLEAN

\* A transaction has at most one savepoint, and later ones are later in the log.
MarksOrdered ==
  \A i \in 1..Len(marks) :
    /\ status[marks[i].scope] # "new"
    /\ marks[i].at <= Len(log)
    /\ \A j \in 1..Len(marks) :
         /\ i <= j => marks[i].at <= marks[j].at
         /\ marks[i].scope = marks[j].scope => i = j

\* The open transactions are a chain, in the order of their savepoints; what is left
\* of others on the session lies between them.
Chain ==
  /\ \A x \in OpenedScopes :
       /\ InTransaction /\ HasMark(x)
       /\ parent[x] \in Opened /\ Pos(parent[x]) < Pos(x)
       /\ \A y \in OpenedScopes : parent[x] = parent[y] => x = y
  /\ \A x, y \in Opened : Pos(x) < Pos(y) =>
       \E z \in OpenedScopes : parent[z] = x /\ Pos(z) <= Pos(y)

\* Where postgres refuses everything, the innermost transaction has failed.
AbortedStops ==
  aborted => dialect = "postgres" /\ \A x \in Opened : Innermost(x) => failed[x]

NestedInv == NestedTypeOK /\ MarksOrdered /\ Chain /\ AbortedStops

-----------------------------------------------------------------------------
(* What the invariant says of savepoints and of the innermost transaction. *)

\* Savepoints are found where they are.
Found ==
  /\ \A x \in Scope : HasMark(x) => Mark(x) \in 1..Len(marks) /\ marks[Mark(x)].scope = x
  /\ \A i \in 1..Len(marks) : HasMark(marks[i].scope) /\ Mark(marks[i].scope) = i

LEMMA MarksFound == NestedTypeOK /\ MarksOrdered => Found
<1> SUFFICES ASSUME NestedTypeOK, MarksOrdered PROVE Found
    OBVIOUS
<1>1. DOMAIN marks = 1..Len(marks)
    BY DEF NestedTypeOK
<1>2. ASSUME NEW x, HasMark(x) PROVE Mark(x) \in 1..Len(marks) /\ marks[Mark(x)].scope = x
    BY <1>1, <1>2, Zenon DEF HasMark, Mark
<1>3. ASSUME NEW i \in 1..Len(marks) PROVE HasMark(marks[i].scope) /\ Mark(marks[i].scope) = i
  <2>1. HasMark(marks[i].scope)
      BY <1>1 DEF HasMark
  <2>2. marks[Mark(marks[i].scope)].scope = marks[i].scope /\ Mark(marks[i].scope) \in 1..Len(marks)
      BY <1>2, <2>1
  <2> QED
      BY <2>1, <2>2 DEF MarksOrdered
<1> QED
    BY <1>2, <1>3 DEF Found

\* The innermost transaction has the last savepoint, and everybody else has a child.
LastOpen ==
  \A x \in Opened : Innermost(x) =>
    \A y \in Opened \ {x} : Pos(y) < Pos(x) /\ \E z \in OpenedScopes : parent[z] = y

Positions ==
  \A x \in Opened : Pos(x) \in Nat /\ \A y \in Opened : Pos(x) = Pos(y) => x = y

LEMMA PositionsDiffer == NestedTypeOK /\ MarksOrdered /\ Chain => Positions
<1> SUFFICES ASSUME NestedTypeOK, MarksOrdered, Chain PROVE Positions
    OBVIOUS
<1>1. Found
    BY MarksFound
<1>2. ASSUME NEW x \in OpenedScopes PROVE Pos(x) \in 1..Len(marks) /\ marks[Pos(x)].scope = x
    BY <1>1, <1>2 DEF Found, Chain, Pos, OpenedScopes, Opened, Trans
<1>3. Len(marks) \in Nat
    BY DEF NestedTypeOK
<1>4. ASSUME NEW x \in Opened PROVE Pos(x) \in Nat /\ (Pos(x) = 0 <=> x = Root)
    BY <1>2, <1>3 DEF Pos, OpenedScopes
<1>5. ASSUME NEW x \in Opened, NEW y \in Opened, Pos(x) = Pos(y) PROVE x = y
  <2>1. CASE x = Root \/ y = Root
      BY <1>4, <1>5, <2>1
  <2>2. CASE x # Root /\ y # Root
      BY <1>2, <1>5, <2>2 DEF OpenedScopes
  <2> QED
      BY <2>1, <2>2
<1> QED
    BY <1>4, <1>5 DEF Positions

LEMMA InnermostLast == NestedTypeOK /\ MarksOrdered /\ Chain => LastOpen
<1> SUFFICES ASSUME NestedTypeOK, MarksOrdered, Chain,
                    NEW x \in Opened, Innermost(x), NEW y \in Opened \ {x}
             PROVE  Pos(y) < Pos(x) /\ \E z \in OpenedScopes : parent[z] = y
    BY DEF LastOpen
<1>1. \A z \in OpenedScopes : parent[z] # x
    BY DEF Innermost, OpenedScopes, Opened, Trans
<1>2. ~(Pos(x) < Pos(y))
    BY <1>1 DEF Chain
<1>3. Pos(y) < Pos(x)
    BY <1>2, PositionsDiffer DEF Positions
<1> QED
    BY <1>3 DEF Chain

\* The writes of a transaction that are not in the one open inside it.
Spans ==
  /\ \A y \in Opened : /\ From(y) \in Nat /\ UpTo(y) \in Nat
                       /\ From(y) <= UpTo(y) /\ UpTo(y) <= Len(log)
                       /\ Innermost(y) => UpTo(y) = Len(log)
  /\ \A z \in OpenedScopes : UpTo(parent[z]) = From(z)

LEMMA ChainSpans == NestedTypeOK /\ MarksOrdered /\ Chain => Spans
<1> SUFFICES ASSUME NestedTypeOK, MarksOrdered, Chain PROVE Spans
    OBVIOUS
<1>1. Found
    BY MarksFound
<1>2. Len(log) \in Nat /\ Len(marks) \in Nat
    BY DEF NestedTypeOK
<1>3. ASSUME NEW x \in OpenedScopes
      PROVE  Mark(x) \in 1..Len(marks) /\ From(x) = marks[Mark(x)].at /\ From(x) \in 0..Len(log)
  <2>1. Mark(x) \in 1..Len(marks)
      BY <1>1, <1>3 DEF Found, Chain, OpenedScopes, Opened, Trans
  <2>2. marks[Mark(x)].at \in Nat /\ marks[Mark(x)].at <= Len(log)
    <3>1. marks[Mark(x)] \in [scope : Scope, at : Nat]
        BY <2>1, ElementOfSeq DEF NestedTypeOK
    <3>2. marks[Mark(x)].at <= Len(log)
        BY <2>1 DEF MarksOrdered
    <3> QED
        BY <3>1, <3>2
  <2>3. From(x) = marks[Mark(x)].at
      BY <1>3 DEF From, OpenedScopes
  <2> QED
      BY <1>2, <2>1, <2>2, <2>3
<1>4. ASSUME NEW z \in OpenedScopes PROVE UpTo(parent[z]) = From(z)
  <2> DEFINE child == CHOOSE y \in Scope : Active(y) /\ parent[y] = parent[z]
  <2>1. \E y \in Scope : Active(y) /\ parent[y] = parent[z]
      BY <1>4 DEF OpenedScopes, Opened, Trans
  <2>2. child \in Scope /\ Active(child) /\ parent[child] = parent[z]
      BY <2>1, Zenon
  <2>3. child \in OpenedScopes
      BY <2>2, ScopeAssumption DEF OpenedScopes, Opened, Trans
  <2>4. child = z
      BY <1>4, <2>2, <2>3 DEF Chain
  <2>5. UpTo(parent[z]) = marks[Mark(child)].at
      BY <2>1, Zenon DEF UpTo
  <2> QED
      BY <1>3, <2>4, <2>5
<1>5. ASSUME NEW y \in Opened, Innermost(y) PROVE UpTo(y) = Len(log)
    BY <1>5 DEF UpTo, Innermost
<1>6. ASSUME NEW y \in Opened PROVE From(y) \in 0..Len(log)
    BY <1>2, <1>3 DEF From, OpenedScopes
<1>7. ASSUME NEW y \in Opened
      PROVE  UpTo(y) \in Nat /\ From(y) <= UpTo(y) /\ UpTo(y) <= Len(log)
  <2>1. CASE Innermost(y)
      BY <1>2, <1>5, <1>6, <2>1
  <2>2. CASE ~Innermost(y)
    <3>1. PICK z \in OpenedScopes : parent[z] = y
        BY <2>2, ScopeAssumption DEF Innermost, OpenedScopes, Opened, Trans
    <3>2. UpTo(y) = From(z) /\ From(z) \in 0..Len(log)
        BY <1>3, <1>4, <3>1
    <3>3. From(y) <= From(z)
      <4>1. CASE y = Root
          BY <1>3, <4>1, ScopeAssumption DEF From
      <4>2. CASE y # Root
        <5>1. y \in OpenedScopes /\ Mark(y) < Mark(z)
            BY <3>1, <4>2 DEF Chain, Pos, OpenedScopes
        <5>2. marks[Mark(y)].at <= marks[Mark(z)].at
            BY <1>2, <1>3, <5>1 DEF MarksOrdered
        <5> QED
            BY <1>3, <5>1, <5>2
      <4> QED
          BY <4>1, <4>2
    <3> QED
        BY <1>2, <3>2, <3>3
  <2> QED
      BY <2>1, <2>2
<1> QED
    BY <1>2, <1>4, <1>5, <1>6, <1>7 DEF Spans

-----------------------------------------------------------------------------
(* What the steps do to the chain.                                         *)

\* A savepoint that stays where it is is found there again.
LEMMA FoundAgain ==
  ASSUME Found, Found', NEW y \in Scope, HasMark(y), Mark(y) \in 1..Len(marks'),
         marks'[Mark(y)] = marks[Mark(y)]
  PROVE  HasMark(y)' /\ Mark(y)' = Mark(y)
BY DEF Found

\* Statements leave the chain alone.
LEMMA ChainUnmoved ==
  ASSUME Chain, UNCHANGED <<status, parent, marks>>
  PROVE  Chain'
<1>1. Opened' = Opened /\ OpenedScopes' = OpenedScopes /\ InTransaction' = InTransaction
    BY DEF Opened, OpenedScopes, Active, InTransaction
<1>2. ASSUME NEW y PROVE Pos(y)' = Pos(y) /\ HasMark(y)' = HasMark(y)
    BY DEF Pos, Mark, HasMark
<1>3. ASSUME NEW x \in OpenedScopes
      PROVE  /\ InTransaction' /\ HasMark(x)'
             /\ parent'[x] \in Opened' /\ Pos(parent[x])' < Pos(x)'
             /\ \A y \in OpenedScopes' : parent'[x] = parent'[y] => x = y
  <2>1. PICK q \in Opened : q = parent[x] /\ Pos(q) < Pos(x) /\ HasMark(x) /\ InTransaction
      BY DEF Chain
  <2>2. Pos(q)' = Pos(q) /\ Pos(x)' = Pos(x) /\ HasMark(x)'
      BY <1>2, <2>1
  <2>3. \A y \in OpenedScopes : parent[x] = parent[y] => x = y
      BY DEF Chain
  <2> QED
      BY <1>1, <2>1, <2>2, <2>3
<1>4. ASSUME NEW x \in Opened, NEW y \in Opened, Pos(x)' < Pos(y)'
      PROVE  \E z \in OpenedScopes' : parent'[z] = x /\ Pos(z)' <= Pos(y)'
  <2>1. Pos(x) < Pos(y)
      BY <1>2, <1>4
  <2>2. PICK z \in OpenedScopes : parent[z] = x /\ Pos(z) <= Pos(y)
      BY <2>1 DEF Chain
  <2>3. Pos(z)' = Pos(z) /\ Pos(y)' = Pos(y)
      BY <1>2
  <2> QED
      BY <1>1, <2>2, <2>3
<1> QED
    BY <1>1, <1>3, <1>4 DEF Chain

\* A savepoint is set inside the innermost transaction.
LEMMA Pushed ==
  ASSUME NestedInv, NEW x \in Scope, NEW p \in Opened, status[x] = "new", Innermost(p),
         InTransaction, SetMark(x), status' = [status EXCEPT ![x] = "active"],
         parent' = [parent EXCEPT ![x] = p], failed' \in [Trans -> BOOLEAN], UNCHANGED dialect
  PROVE  /\ NestedTypeOK' /\ MarksOrdered' /\ Chain'
         /\ From(x)' = Len(log) /\ \A y \in Opened : From(y)' = From(y)
         /\ Opened' = Opened \cup {x} /\ OpenedScopes' = OpenedScopes \cup {x}
<1> USE DEF NestedInv
<1> DEFINE n == Len(marks)
<1> DEFINE m == [scope |-> x, at |-> Len(log)]
<1>1. n \in Nat /\ Len(log) \in Nat /\ m \in [scope : Scope, at : Nat]
    BY DEF NestedTypeOK
<1>2. marks' = Append(marks, m) /\ UNCHANGED <<log, aborted>>
    BY DEF SetMark
<1>3. /\ marks' \in Seq([scope : Scope, at : Nat]) /\ Len(marks') = n + 1
      /\ \A i \in 1..n : marks'[i] = marks[i]
      /\ marks'[n + 1] = m
    BY <1>1, <1>2, AppendProperties DEF NestedTypeOK
<1>4. x \in Trans /\ x # Root /\ x \notin Opened /\ p \in Trans
    BY ScopeAssumption DEF Trans, Opened, Active
<1>5. status'[x] = "active" /\ \A y \in Trans \ {x} : status'[y] = status[y]
    BY <1>4 DEF NestedTypeOK
<1>6. NestedTypeOK'
  <2>1. status' \in [Trans -> {"new", "rejected", "active", "committed", "undone"}]
      BY <1>4 DEF NestedTypeOK
  <2>2. parent' \in [Scope -> Trans \cup {NoScope}]
      BY <1>4 DEF NestedTypeOK
  <2> QED
      BY <1>2, <1>3, <2>1, <2>2 DEF NestedTypeOK
<1>7. Opened' = Opened \cup {x} /\ OpenedScopes' = OpenedScopes \cup {x}
    BY <1>4, <1>5 DEF Opened, OpenedScopes, Active
<1>8. ASSUME NEW i \in 1..n PROVE marks[i].scope \in Scope /\ marks[i].scope # x
  <2>1. marks[i] \in [scope : Scope, at : Nat]
      BY ElementOfSeq DEF NestedTypeOK
  <2>2. status[marks[i].scope] # "new"
      BY DEF MarksOrdered
  <2> QED
      BY <2>1, <2>2
<1>9. MarksOrdered'
  <2> SUFFICES ASSUME NEW i \in 1..(n + 1)
               PROVE  /\ status'[marks'[i].scope] # "new"
                      /\ marks'[i].at <= Len(log)
                      /\ \A j \in 1..(n + 1) :
                           /\ i <= j => marks'[i].at <= marks'[j].at
                           /\ marks'[i].scope = marks'[j].scope => i = j
      BY <1>2, <1>3 DEF MarksOrdered
  <2>1. CASE i \in 1..n
    <3>1. marks'[i] = marks[i]
        BY <1>3, <2>1
    <3>2. status'[marks[i].scope] # "new"
        BY <1>5, <1>8, <2>1 DEF MarksOrdered, Trans
    <3>3. marks[i].at <= Len(log)
        BY <2>1 DEF MarksOrdered
    <3>4. ASSUME NEW j \in 1..(n + 1)
          PROVE  /\ i <= j => marks'[i].at <= marks'[j].at
                 /\ marks'[i].scope = marks'[j].scope => i = j
      <4>1. CASE j \in 1..n
          BY <1>3, <2>1, <4>1 DEF MarksOrdered
      <4>2. CASE j = n + 1
          BY <1>3, <1>8, <2>1, <3>1, <3>3, <4>2
      <4> QED
          BY <1>1, <4>1, <4>2
    <3> QED
        BY <3>1, <3>2, <3>3, <3>4
  <2>2. CASE i = n + 1
    <3>1. marks'[i] = m
        BY <1>3, <2>2
    <3>2. ASSUME NEW j \in 1..(n + 1)
          PROVE  /\ i <= j => marks'[i].at <= marks'[j].at
                 /\ marks'[i].scope = marks'[j].scope => i = j
      <4>1. CASE j \in 1..n
          BY <1>1, <1>3, <1>8, <2>2, <3>1, <4>1
      <4>2. CASE j = n + 1
          BY <1>1, <2>2, <3>1, <4>2
      <4> QED
          BY <1>1, <4>1, <4>2
    <3> QED
        BY <1>1, <1>5, <3>1, <3>2
  <2> QED
      BY <1>1, <2>1, <2>2
<1>10. Found /\ Found' /\ LastOpen /\ Positions
  <2>1. NestedTypeOK' /\ MarksOrdered' => Found'
      BY MarksFound, PTL
  <2> QED
      BY <1>6, <1>9, <2>1, MarksFound, InnermostLast, PositionsDiffer
<1>11. ASSUME NEW y \in Opened
       PROVE  /\ Pos(y)' = Pos(y) /\ Pos(y) < n + 1
              /\ From(y)' = From(y)
              /\ y # Root => HasMark(y)'
  <2>1. CASE y = Root
      BY <1>1, <2>1 DEF Pos, From
  <2>2. CASE y # Root
    <3>1. y \in Scope /\ HasMark(y)
        BY <2>2 DEF Chain, OpenedScopes, Opened, Trans
    <3>2. Mark(y) \in 1..n
        BY <1>10, <3>1 DEF Found
    <3>3. HasMark(y)' /\ Mark(y)' = Mark(y)
        BY <1>1, <1>3, <1>10, <3>1, <3>2, FoundAgain
    <3> QED
        BY <1>1, <1>3, <2>2, <3>2, <3>3 DEF Pos, From
  <2> QED
      BY <2>1, <2>2
<1>12. HasMark(x)' /\ Pos(x)' = n + 1 /\ From(x)' = Len(log)
  <2>1. PICK k \in Nat : k = n + 1
      BY <1>1
  <2>2. k \in 1..Len(marks') /\ marks'[k].scope = x
      BY <1>1, <1>3, <2>1
  <2>3. HasMark(marks[k].scope)' /\ Mark(marks[k].scope)' = k
      BY <1>10, <2>2 DEF Found
  <2> QED
      BY <1>3, <1>4, <2>1, <2>2, <2>3 DEF Pos, From
<1>13. parent'[x] = p /\ \A y \in OpenedScopes : parent'[y] = parent[y] /\ parent[y] # p /\ y # x
    BY <1>4 DEF NestedTypeOK, Innermost, OpenedScopes, Opened, Trans
<1>14. InTransaction'
    BY <1>4, <1>5 DEF InTransaction, Trans
<1>15. ASSUME NEW y \in OpenedScopes'
       PROVE  /\ InTransaction' /\ HasMark(y)'
              /\ parent'[y] \in Opened' /\ Pos(parent[y])' < Pos(y)'
              /\ \A z \in OpenedScopes' : parent'[y] = parent'[z] => y = z
  <2>1. CASE y = x
    <3>1. parent'[y] = p /\ Pos(p)' < n + 1
        BY <1>11, <1>13, <2>1
    <3> QED
        BY <1>7, <1>12, <1>13, <1>14, <2>1, <3>1
  <2>2. CASE y \in OpenedScopes
    <3>1. PICK q \in Opened : q = parent[y] /\ y \in Opened /\ y # Root /\ Pos(q) < Pos(y)
        BY <2>2 DEF Chain, OpenedScopes
    <3>2. HasMark(y)' /\ Pos(q)' = Pos(q) /\ Pos(y)' = Pos(y) /\ parent'[y] = q
        BY <1>11, <1>13, <2>2, <3>1
    <3>3. \A z \in OpenedScopes : parent[y] = parent[z] => y = z
        BY <2>2 DEF Chain
    <3> QED
        BY <1>7, <1>13, <1>14, <2>2, <3>1, <3>2, <3>3
  <2> QED
      BY <1>7, <2>1, <2>2
<1>16. ASSUME NEW y \in Opened', NEW z \in Opened', Pos(y)' < Pos(z)'
       PROVE  \E c \in OpenedScopes' : parent'[c] = y /\ Pos(c)' <= Pos(z)'
  <2>1. CASE z = x
    <3>1. y \in Opened
        BY <1>1, <1>7, <1>12, <1>16, <2>1
    <3>2. CASE y = p
        BY <1>1, <1>7, <1>12, <1>13, <2>1, <3>2
    <3>3. CASE y # p
      <4>1. PICK c \in OpenedScopes : parent[c] = y
          BY <1>10, <3>1, <3>3 DEF LastOpen
      <4>2. c \in Opened /\ Pos(c)' < n + 1 /\ Pos(c) \in Nat
          BY <1>10, <1>11, <4>1 DEF OpenedScopes, Positions
      <4>3. Pos(c)' \in Nat
          BY <1>11, <4>2
      <4> QED
          BY <1>1, <1>7, <1>12, <1>13, <2>1, <4>1, <4>2, <4>3
    <3> QED
        BY <3>2, <3>3
  <2>2. CASE z \in Opened
    <3>1. Pos(z)' = Pos(z) /\ Pos(z) < n + 1 /\ Pos(z) \in Nat
        BY <1>10, <1>11, <2>2 DEF Positions
    <3>2. y \in Opened
        BY <1>1, <1>7, <1>12, <1>16, <3>1
    <3>3. Pos(y) < Pos(z)
        BY <1>11, <1>16, <3>1, <3>2
    <3>4. PICK c \in OpenedScopes : parent[c] = y /\ Pos(c) <= Pos(z)
        BY <2>2, <3>2, <3>3 DEF Chain
    <3>5. c \in Opened
        BY <3>4 DEF OpenedScopes
    <3>6. Pos(c)' = Pos(c)
        BY <1>11, <3>5
    <3> QED
        BY <1>7, <1>13, <3>1, <3>4, <3>6
  <2> QED
      BY <1>7, <2>1, <2>2
<1>17. Chain'
    BY <1>15, <1>16 DEF Chain
<1> QED
    BY <1>6, <1>7, <1>9, <1>11, <1>12, <1>17

\* The innermost transaction ends: savepoints after its own may go, its own too, and
\* the log may be cut off behind the savepoints that are left.
LEMMA Popped ==
  ASSUME NestedInv, NEW x \in OpenedScopes, Innermost(x), NEW how \in {"committed", "undone"},
         status' = [status EXCEPT ![x] = how], failed' \in [Trans -> BOOLEAN],
         UNCHANGED <<dialect, parent>>, aborted' \in BOOLEAN,
         marks' \in Seq([scope : Scope, at : Nat]), log' \in Seq(Write),
         Mark(x) - 1 <= Len(marks'), Len(marks') <= Len(marks),
         \A i \in 1..Len(marks') : marks'[i] = marks[i] /\ marks[i].at <= Len(log')
  PROVE  /\ NestedTypeOK' /\ MarksOrdered' /\ Chain'
         /\ \A y \in Opened \ {x} : From(y)' = From(y)
         /\ Opened' = Opened \ {x} /\ OpenedScopes' = OpenedScopes \ {x}
<1> USE DEF NestedInv
<1> DEFINE n == Len(marks)
<1>1. n \in Nat /\ Len(marks') \in Nat /\ x \in Scope /\ x \in Trans /\ x # Root
    BY ScopeAssumption DEF NestedTypeOK, OpenedScopes, Opened, Trans
<1>2. status'[x] = how /\ \A y \in Trans \ {x} : status'[y] = status[y]
    BY <1>1 DEF NestedTypeOK
<1>3. NestedTypeOK'
  <2>1. status' \in [Trans -> {"new", "rejected", "active", "committed", "undone"}]
      BY <1>1 DEF NestedTypeOK
  <2> QED
      BY <2>1 DEF NestedTypeOK
<1>4. Opened' = Opened \ {x} /\ OpenedScopes' = OpenedScopes \ {x}
    BY <1>1, <1>2 DEF Opened, OpenedScopes, Active
<1>5. MarksOrdered'
  <2>1. ASSUME NEW i \in 1..Len(marks') PROVE status'[marks'[i].scope] # "new" /\ marks'[i].at <= Len(log')
    <3>1. i \in 1..n /\ marks'[i] = marks[i]
        BY <1>1
    <3>2. marks[i] \in [scope : Scope, at : Nat]
        BY <3>1, ElementOfSeq DEF NestedTypeOK
    <3>3. status[marks[i].scope] # "new" /\ marks[i].scope \in Trans
        BY <3>1, <3>2 DEF MarksOrdered, Trans
    <3> QED
        BY <1>2, <3>1, <3>3
  <2>2. ASSUME NEW i \in 1..Len(marks'), NEW j \in 1..Len(marks')
        PROVE  /\ i <= j => marks'[i].at <= marks'[j].at
               /\ marks'[i].scope = marks'[j].scope => i = j
    <3>1. i \in 1..n /\ j \in 1..n /\ marks'[i] = marks[i] /\ marks'[j] = marks[j]
        BY <1>1
    <3> QED
        BY <3>1 DEF MarksOrdered
  <2> QED
      BY <2>1, <2>2 DEF MarksOrdered
<1>6. Found /\ Found' /\ LastOpen /\ Positions
  <2>1. NestedTypeOK' /\ MarksOrdered' => Found'
      BY MarksFound, PTL
  <2> QED
      BY <1>3, <1>5, <2>1, MarksFound, InnermostLast, PositionsDiffer
<1>7. Mark(x) \in 1..n /\ Pos(x) = Mark(x)
    BY <1>1, <1>6 DEF Found, Chain, Pos
<1>8. ASSUME NEW y \in Opened \ {x}
      PROVE  Pos(y)' = Pos(y) /\ From(y)' = From(y) /\ (y # Root => HasMark(y)')
  <2>1. CASE y = Root
      BY <2>1 DEF Pos, From
  <2>2. CASE y # Root
    <3>1. y \in Scope /\ HasMark(y) /\ Pos(y) < Pos(x) /\ Pos(y) = Mark(y)
      <4>1. y \in OpenedScopes /\ y \in Scope
          BY <1>8, <2>2 DEF OpenedScopes, Opened, Trans
      <4>2. Pos(y) < Pos(x)
        <5>1. x \in Opened
            BY DEF OpenedScopes
        <5> QED
            BY <1>6, <1>8, <5>1 DEF LastOpen
      <4> QED
          BY <2>2, <4>1, <4>2 DEF Chain, Pos
    <3>2. Mark(y) \in 1..n
        BY <1>6, <3>1 DEF Found
    <3>3. Mark(y) \in 1..Len(marks')
        BY <1>1, <1>7, <3>1, <3>2
    <3>4. marks'[Mark(y)] = marks[Mark(y)]
        BY <3>3
    <3>5. HasMark(y)' /\ Mark(y)' = Mark(y)
        BY <1>6, <3>1, <3>3, <3>4, FoundAgain
    <3> QED
        BY <2>2, <3>4, <3>5 DEF Pos, From
  <2> QED
      BY <2>1, <2>2
<1>9. \A y \in OpenedScopes : parent[y] # x
    BY DEF Innermost, OpenedScopes, Opened, Trans
<1>10. InTransaction'
  <2>1. InTransaction
      BY DEF Chain
  <2> QED
      BY <1>1, <1>2, <2>1 DEF InTransaction, Trans
<1>11. ASSUME NEW y \in OpenedScopes'
       PROVE  /\ InTransaction' /\ HasMark(y)'
              /\ parent'[y] \in Opened' /\ Pos(parent[y])' < Pos(y)'
              /\ \A z \in OpenedScopes' : parent'[y] = parent'[z] => y = z
  <2>1. PICK q \in Opened : q = parent[y] /\ Pos(q) < Pos(y)
      BY <1>4 DEF Chain
  <2>2. y \in Opened \ {x} /\ y # Root /\ q \in Opened \ {x} /\ parent'[y] = q
      BY <1>4, <1>9, <2>1 DEF OpenedScopes
  <2>3. Pos(q)' = Pos(q) /\ Pos(y)' = Pos(y) /\ HasMark(y)'
      BY <1>8, <2>2
  <2>4. \A z \in OpenedScopes : parent[y] = parent[z] => y = z
      BY <1>4 DEF Chain
  <2> QED
      BY <1>4, <1>10, <2>1, <2>2, <2>3, <2>4
<1>12. ASSUME NEW y \in Opened', NEW z \in Opened', Pos(y)' < Pos(z)'
       PROVE  \E c \in OpenedScopes' : parent'[c] = y /\ Pos(c)' <= Pos(z)'
  <2>1. y \in Opened \ {x} /\ z \in Opened \ {x}
      BY <1>4
  <2>2. Pos(y) < Pos(z) /\ Pos(z)' = Pos(z)
      BY <1>8, <1>12, <2>1
  <2>3. PICK c \in OpenedScopes : parent[c] = y /\ Pos(c) <= Pos(z)
      BY <2>1, <2>2 DEF Chain
  <2>4. c # x
    <3>1. x \in Opened
        BY DEF OpenedScopes
    <3>2. Pos(z) < Pos(x) /\ Pos(z) \in Nat /\ Pos(x) \in Nat
        BY <1>6, <2>1, <3>1 DEF LastOpen, Positions
    <3> QED
        BY <2>3, <3>2
  <2>5. c \in Opened \ {x}
      BY <2>3, <2>4 DEF OpenedScopes
  <2>6. Pos(c)' = Pos(c)
      BY <1>8, <2>5
  <2> QED
      BY <1>4, <2>2, <2>3, <2>4, <2>6
<1>13. Chain'
    BY <1>11, <1>12 DEF Chain
<1> QED
    BY <1>3, <1>4, <1>5, <1>8, <1>13

-----------------------------------------------------------------------------
(* The scopes that are open, and what they contain.                        *)

ScopeView ==
  /\ ScopeState = [y \in Trans |-> ScopeState[y]]
  /\ ScopeAround = [y \in Scope |-> ScopeAround[y]]
  /\ ScopeContent = [y \in Trans |-> ScopeContent[y]]
  /\ \A y \in Trans : ScopeState[y] = "open" <=> y \in Opened
  /\ \A y \in OpenedScopes : ScopeAround[y] = parent[y]
  /\ \A y \in Opened : ScopeContent[y] = {log[i] : i \in From(y) + 1 .. UpTo(y)}
  /\ \A y \in Trans \ Opened : ScopeContent[y] = {}

LEMMA ScopesSeen == NestedTypeOK /\ Chain => ScopeView
<1> SUFFICES ASSUME NestedTypeOK, Chain PROVE ScopeView
    OBVIOUS
<1>1. /\ ScopeState = [y \in Trans |-> ScopeState[y]]
      /\ ScopeAround = [y \in Scope |-> ScopeAround[y]]
      /\ ScopeContent = [y \in Trans |-> ScopeContent[y]]
    BY DEF ScopeState, ScopeAround, ScopeContent
<1>2. ASSUME NEW y \in Trans PROVE ScopeState[y] = "open" <=> y \in Opened
    BY DEF ScopeState, Opened, Active, NestedTypeOK
<1>3. ASSUME NEW y \in OpenedScopes PROVE ScopeAround[y] = parent[y]
  <2>1. y \in Scope /\ parent[y] \in Trans
      BY DEF Chain, OpenedScopes, Opened, Trans
  <2> QED
      BY <2>1, ScopeAssumption DEF ScopeAround, Trans
<1>4. ASSUME NEW y \in Opened PROVE ScopeContent[y] = {log[i] : i \in From(y) + 1 .. UpTo(y)}
  <2>1. y \in Trans /\ Active(y) /\ InTransaction
      BY DEF Chain, OpenedScopes, Opened, InTransaction, Active
  <2> QED
      BY <2>1 DEF ScopeContent
<1>5. ASSUME NEW y \in Trans \ Opened PROVE ScopeContent[y] = {}
    BY DEF ScopeContent, Opened
<1> QED
    BY <1>1, <1>2, <1>3, <1>4, <1>5 DEF ScopeView

\* A scope with the same scope open inside it has the same writes.
LEMMA SameContent ==
  ASSUME Spans, Spans', ScopeView, ScopeView', NEW y \in Opened, y \in Opened', From(y)' = From(y),
         NEW z \in OpenedScopes, z \in OpenedScopes', parent[z] = y, parent'[z] = y, From(z)' = From(z),
         \A i \in 1..From(z) : log'[i] = log[i]
  PROVE  ScopeContent'[y] = ScopeContent[y]
<1>1. UpTo(y) = From(z) /\ UpTo(y)' = From(z) /\ From(y) \in Nat /\ From(z) \in Nat
  <2>1. UpTo(parent[z]) = From(z) /\ UpTo(parent[z])' = From(z)'
      BY DEF Spans
  <2>2. z \in Opened
      BY DEF OpenedScopes
  <2> QED
      BY <2>1, <2>2 DEF Spans
<1>2. /\ ScopeContent[y] = {log[i] : i \in From(y) + 1 .. From(z)}
      /\ ScopeContent'[y] = {log'[i] : i \in From(y) + 1 .. From(z)}
    BY <1>1 DEF ScopeView
<1>3. \A i \in From(y) + 1 .. From(z) : log'[i] = log[i]
    BY <1>1
<1> QED
    BY <1>2, <1>3

\* What the step lemmas below use of the states before and after a step.
Seen == Found /\ LastOpen /\ Positions /\ Spans /\ ScopeView

LEMMA AllSeen == NestedTypeOK /\ MarksOrdered /\ Chain => Seen
BY MarksFound, InnermostLast, PositionsDiffer, ChainSpans, ScopesSeen DEF Seen

-----------------------------------------------------------------------------
(* Every step keeps the invariant and is a step of NestedScopes, or none.  *)

LEMMA NestedInitially == Init => NestedInv /\ Scopes!Init
<1> SUFFICES ASSUME Init PROVE NestedInv /\ Scopes!Init
    OBVIOUS
<1>1. marks = <<>> /\ log = <<>> /\ Len(marks) = 0 /\ Len(log) = 0
    BY DEF Init
<1>2. NestedTypeOK
  <2>1. marks \in Seq([scope : Scope, at : Nat]) /\ log \in Seq(Write)
      BY <1>1
  <2>2. status \in [Trans -> {"new", "rejected", "active", "committed", "undone"}]
      BY DEF Init
  <2>3. parent \in [Scope -> Trans \cup {NoScope}] /\ dialect \in Dialects
      BY DEF Init
  <2>4. failed \in [Trans -> BOOLEAN] /\ aborted \in BOOLEAN
      BY Zenon DEF Init
  <2> QED
      BY <2>1, <2>2, <2>3, <2>4 DEF NestedTypeOK
<1>3. MarksOrdered
    BY <1>1 DEF MarksOrdered
<1>4. Opened = {Root} /\ OpenedScopes = {}
    BY DEF Init, Opened, OpenedScopes, Active, Trans
<1>5. Chain
    BY <1>4 DEF Chain, Pos
<1>6. AbortedStops
    BY DEF Init, AbortedStops
<1>7. Scopes!Init
  <2>1. ScopeState = [x \in Trans |-> IF x = Root THEN "open" ELSE "new"]
      BY DEF Init, ScopeState, Active
  <2>2. ScopeAround = [x \in Scope |-> Root]
      BY DEF Init, ScopeAround
  <2>3. ScopeContent = [x \in Trans |-> {}]
    <3>1. Seen
        BY <1>2, <1>3, <1>5, AllSeen
    <3>2. From(Root) = 0 /\ UpTo(Root) <= 0 /\ UpTo(Root) \in Nat
        BY <1>1, <1>4, <3>1 DEF Seen, Spans, From
    <3>3. ASSUME NEW y \in Trans PROVE ScopeContent[y] = {}
      <4>1. CASE y = Root
          BY <1>4, <3>1, <3>2, <4>1 DEF Seen, ScopeView
      <4>2. CASE y # Root
          BY <1>4, <3>1, <4>2 DEF Seen, ScopeView
      <4> QED
          BY <4>1, <4>2
    <3> QED
        BY <3>1, <3>3 DEF Seen, ScopeView
  <2>4. db = {}
      BY DEF Init
  <2> QED
      BY <2>1, <2>2, <2>3, <2>4 DEF Scopes!Init, Scopes!All, Trans
<1> QED
    BY <1>2, <1>3, <1>5, <1>6, <1>7 DEF NestedInv

\* nestedTransaction() opens a scope.
LEMMA NestOpens ==
  ASSUME Awaited, NestedInv, NEW x \in Scope, NEW p \in Trans, Nest(x, p), UNCHANGED dialect
  PROVE  /\ NestedInv' /\ Scopes!Open(x, p)
         /\ p \in Opened /\ Innermost(p) /\ status[x] = "new"
         /\ status' = [status EXCEPT ![x] = "active"] /\ parent' = [parent EXCEPT ![x] = p]
         /\ log' = log /\ Opened' = Opened \cup {x}
         /\ From(x)' = Len(log) /\ \A y \in Opened : From(y)' = From(y)
<1>1. p \in Opened /\ Innermost(p) /\ InTransaction /\ status[x] = "new"
    BY DEF Nest, MayUse, Awaited, Opened
<1>2. Accepts
  <2> SUFFICES ASSUME aborted PROVE FALSE
      BY <1>1 DEF Accepts
  <2>1. dialect = "postgres" /\ failed[p]
      BY <1>1 DEF NestedInv, AbortedStops
  <2> QED
      BY <2>1 DEF Nest, MayUse, Swallows, Awaited
<1>3. /\ SetMark(x) /\ status' = [status EXCEPT ![x] = "active"]
      /\ parent' = [parent EXCEPT ![x] = p] /\ UNCHANGED <<failed, db, log, aborted>> /\ ~aborted
    BY <1>2 DEF Nest, SetMark, Accepts
<1>4. /\ NestedTypeOK' /\ MarksOrdered' /\ Chain'
      /\ From(x)' = Len(log) /\ \A y \in Opened : From(y)' = From(y)
      /\ Opened' = Opened \cup {x} /\ OpenedScopes' = OpenedScopes \cup {x}
  <2>1. failed' \in [Trans -> BOOLEAN]
      BY <1>3 DEF NestedInv, NestedTypeOK
  <2> QED
      BY <1>1, <1>3, <2>1, Pushed
<1>5. NestedInv'
    BY <1>3, <1>4 DEF NestedInv, AbortedStops
<1>6. Seen /\ Seen'
  <2>1. NestedTypeOK' /\ MarksOrdered' /\ Chain' => Seen'
      BY AllSeen, PTL
  <2> QED
      BY <1>4, <2>1, AllSeen DEF NestedInv
<1>7. x \in Trans /\ x # Root /\ x \notin Opened /\ p # NoScope /\ p # x
    BY <1>1, ScopeAssumption DEF Opened, Active, Trans
<1>8. parent'[x] = p /\ \A y \in Scope \ {x} : parent'[y] = parent[y]
    BY <1>3 DEF NestedInv, NestedTypeOK
<1>9. ScopeContent' = ScopeContent
  <2>1. ASSUME NEW y \in Trans PROVE ScopeContent'[y] = ScopeContent[y]
    <3>1. CASE y = x
      <4>1. From(x)' = Len(log) /\ UpTo(x)' <= Len(log) /\ UpTo(x)' \in Nat /\ From(x)' \in Nat
          BY <1>3, <1>4, <1>6 DEF Seen, Spans
      <4>2. ScopeContent'[x] = {log'[i] : i \in From(x)' + 1 .. UpTo(x)'}
          BY <1>4, <1>6 DEF Seen, ScopeView
      <4>3. ScopeContent'[x] = {}
          BY <4>1, <4>2
      <4> QED
          BY <1>6, <1>7, <3>1, <4>3 DEF Seen, ScopeView
    <3>2. CASE y = p
      <4>1. UpTo(p) = Len(log)
          BY <1>1, <1>6 DEF Seen, Spans
      <4>2. UpTo(parent[x])' = From(x)'
          BY <1>4, <1>6 DEF Seen, Spans
      <4>3. UpTo(p)' = Len(log)
          BY <1>4, <1>8, <4>2
      <4>4. From(p)' = From(p)
          BY <1>1, <1>4
      <4>5. /\ ScopeContent[p] = {log[i] : i \in From(p) + 1 .. UpTo(p)}
            /\ ScopeContent'[p] = {log'[i] : i \in From(p)' + 1 .. UpTo(p)'}
          BY <1>1, <1>4, <1>6 DEF Seen, ScopeView
      <4> QED
          BY <1>3, <3>2, <4>1, <4>3, <4>4, <4>5
    <3>3. CASE y \in Opened \ {p}
      <4>1. PICK z \in OpenedScopes : parent[z] = y
          BY <1>1, <1>6, <3>3 DEF Seen, LastOpen
      <4>2. z \in Opened /\ z \in Scope \ {x}
          BY <1>7, <4>1 DEF OpenedScopes, Opened, Trans
      <4>3. From(z)' = From(z) /\ From(y)' = From(y) /\ parent'[z] = y
          BY <1>4, <1>8, <3>3, <4>1, <4>2
      <4> QED
          BY <1>3, <1>4, <1>6, <3>3, <4>1, <4>3, SameContent DEF Seen
    <3>4. CASE y \notin Opened /\ y # x
        BY <1>4, <1>6, <3>4 DEF Seen, ScopeView
    <3> QED
        BY <3>1, <3>2, <3>3, <3>4
  <2> QED
      BY <1>6, <2>1 DEF Seen, ScopeView
<1>10. ScopeState' = [ScopeState EXCEPT ![x] = "open"]
    BY <1>3, <1>7 DEF ScopeState, Active, NestedInv, NestedTypeOK
<1>11. ScopeAround' = [ScopeAround EXCEPT ![x] = p]
    BY <1>3, <1>7 DEF ScopeAround, NestedInv, NestedTypeOK
<1>12. ScopeState[x] = "new" /\ ScopeState[p] = "open"
    BY <1>1, <1>7 DEF ScopeState, Active, Opened
<1> QED
    BY <1>1, <1>3, <1>4, <1>5, <1>9, <1>10, <1>11, <1>12 DEF Scopes!Open

\* A statement puts its write into the innermost scope, or is rejected.
LEMMA RunPuts ==
  ASSUME Awaited, NestedInv, NEW w \in Write, NEW x \in Trans, Run(w, x), UNCHANGED dialect
  PROVE  /\ NestedInv'
         /\ \/ Scopes!Put(w, x)
            \/ UNCHANGED <<ScopeState, ScopeAround, ScopeContent, db>>
         /\ x \in Opened /\ Innermost(x) /\ UNCHANGED <<status, parent, db>>
         /\ Opened' = Opened /\ \A y \in Opened : From(y)' = From(y)
<1>1. /\ x \in Opened /\ Innermost(x) /\ InTransaction
      /\ UNCHANGED <<status, parent, marks, db>>
    BY DEF Run, MayUse, Awaited, Opened, Rejected
<1>2. /\ Opened' = Opened /\ OpenedScopes' = OpenedScopes
      /\ \A y \in Trans : From(y)' = From(y) /\ (Innermost(y)' <=> Innermost(y))
    BY <1>1 DEF Opened, OpenedScopes, Active, From, Mark, Innermost
<1>3. ASSUME Accepts /\ log' = Append(log, w) /\ UNCHANGED <<failed, marks, aborted>>
      PROVE  NestedInv' /\ Scopes!Put(w, x)
  <2>1. /\ log' \in Seq(Write) /\ Len(log') = Len(log) + 1 /\ Len(log) \in Nat
        /\ \A i \in 1..Len(log) : log'[i] = log[i]
        /\ log'[Len(log) + 1] = w
      BY <1>3, AppendProperties DEF NestedInv, NestedTypeOK
  <2>2. NestedTypeOK' /\ AbortedStops'
      BY <1>1, <1>3, <2>1 DEF NestedInv, NestedTypeOK, AbortedStops, Accepts
  <2>3. MarksOrdered'
    <3> SUFFICES ASSUME NEW i \in 1..Len(marks)
                 PROVE  /\ status[marks[i].scope] # "new"
                        /\ marks[i].at <= Len(log')
                        /\ \A j \in 1..Len(marks) :
                             /\ i <= j => marks[i].at <= marks[j].at
                             /\ marks[i].scope = marks[j].scope => i = j
        BY <1>1 DEF MarksOrdered
    <3>1. marks[i] \in [scope : Scope, at : Nat]
        BY ElementOfSeq DEF NestedInv, NestedTypeOK
    <3>2. marks[i].at <= Len(log) /\ marks[i].at \in Nat
        BY <3>1 DEF NestedInv, MarksOrdered
    <3>3. marks[i].at <= Len(log')
        BY <2>1, <3>2
    <3> QED
        BY <3>3 DEF NestedInv, MarksOrdered
  <2>4. Chain'
      BY <1>1, ChainUnmoved DEF NestedInv
  <2>5. Seen /\ Seen'
    <3>1. NestedTypeOK' /\ MarksOrdered' /\ Chain' => Seen'
        BY AllSeen, PTL
    <3> QED
        BY <2>2, <2>3, <2>4, <3>1, AllSeen DEF NestedInv
  <2>6. /\ From(x)' = From(x) /\ From(x) \in Nat /\ From(x) <= Len(log)
        /\ UpTo(x) = Len(log) /\ UpTo(x)' = Len(log) + 1
    <3>1. Innermost(x)' /\ x \in Opened' /\ From(x)' = From(x)
        BY <1>1, <1>2
    <3> QED
        BY <1>1, <2>1, <2>5, <3>1 DEF Seen, Spans
  <2>7. ScopeContent'[x] = ScopeContent[x] \cup {w}
    <3>1. /\ ScopeContent[x] = {log[i] : i \in From(x) + 1 .. Len(log)}
          /\ ScopeContent'[x] = {log'[i] : i \in From(x) + 1 .. Len(log) + 1}
        BY <1>1, <1>2, <2>5, <2>6 DEF Seen, ScopeView
    <3>2. From(x) + 1 .. Len(log) + 1 = (From(x) + 1 .. Len(log)) \cup {Len(log) + 1}
        BY <2>1, <2>6
    <3>3. \A i \in From(x) + 1 .. Len(log) : log'[i] = log[i]
        BY <2>1, <2>6
    <3> QED
        BY <2>1, <3>1, <3>2, <3>3
  <2>8. ASSUME NEW y \in Trans \ {x} PROVE ScopeContent'[y] = ScopeContent[y]
    <3>1. CASE y \in Opened
      <4>1. PICK z \in OpenedScopes : parent[z] = y
          BY <1>1, <2>5, <2>8, <3>1 DEF Seen, LastOpen
      <4>2. z \in Opened /\ z \in Trans
          BY <4>1 DEF OpenedScopes, Opened
      <4>3. From(z) \in Nat /\ From(z) <= Len(log)
          BY <2>1, <2>5, <4>2 DEF Seen, Spans
      <4>4. \A i \in 1..From(z) : log'[i] = log[i]
          BY <2>1, <4>3
      <4>5. From(z)' = From(z) /\ From(y)' = From(y) /\ parent'[z] = y
          BY <1>1, <1>2, <4>1, <4>2
      <4> QED
          BY <1>2, <2>5, <3>1, <4>1, <4>4, <4>5, SameContent DEF Seen
    <3>2. CASE y \notin Opened
        BY <1>2, <2>5, <2>8, <3>2 DEF Seen, ScopeView
    <3> QED
        BY <3>1, <3>2
  <2>9. ScopeContent' = [ScopeContent EXCEPT ![x] = @ \cup {w}]
    <3>1. /\ ScopeContent' = [y \in Trans |-> ScopeContent'[y]]
          /\ ScopeContent = [y \in Trans |-> ScopeContent[y]]
        BY <2>5 DEF Seen, ScopeView
    <3> QED
        BY <2>7, <2>8, <3>1
  <2>10. UNCHANGED <<ScopeState, ScopeAround>>
      BY <1>1 DEF ScopeState, ScopeAround, Active
  <2>11. ScopeState[x] = "open"
      BY <1>1, <2>5 DEF Seen, ScopeView
  <2> QED
      BY <1>1, <2>2, <2>3, <2>4, <2>9, <2>10, <2>11 DEF Scopes!Put, NestedInv
<1>4. ASSUME Rejected /\ Fails(x)
      PROVE  NestedInv' /\ UNCHANGED <<ScopeState, ScopeAround, ScopeContent, db>>
  <2>1. UNCHANGED <<marks, log, status, parent, dialect>>
      BY <1>1, <1>4 DEF Rejected
  <2>2. /\ aborted' = (aborted \/ (dialect = "postgres" /\ InTransaction))
        /\ failed' = [failed EXCEPT ![x] = TRUE]
      BY <1>4 DEF Rejected, Fails
  <2>3. NestedTypeOK'
    <3>1. failed' \in [Trans -> BOOLEAN] /\ failed'[x] = TRUE
        BY <2>2 DEF NestedInv, NestedTypeOK
    <3>2. aborted' \in BOOLEAN
        BY <2>2 DEF NestedInv, NestedTypeOK, InTransaction
    <3> QED
        BY <2>1, <3>1, <3>2 DEF NestedInv, NestedTypeOK
  <2>4. MarksOrdered' /\ Chain'
      BY <2>1, ChainUnmoved DEF NestedInv, MarksOrdered
  <2>5. AbortedStops'
    <3>1. failed'[x]
        BY <2>2 DEF NestedInv, NestedTypeOK
    <3>2. ASSUME NEW y \in Opened, Innermost(y) PROVE y = x
      <4>1. LastOpen /\ Positions
          BY InnermostLast, PositionsDiffer DEF NestedInv
      <4>2. y # x => Pos(y) < Pos(x) /\ Pos(x) < Pos(y) /\ Pos(x) \in Nat /\ Pos(y) \in Nat
          BY <1>1, <3>2, <4>1 DEF LastOpen, Positions
      <4> QED
          BY <4>2
    <3>3. aborted' => dialect = "postgres"
        BY <2>2 DEF NestedInv, AbortedStops
    <3>4. \A y \in Opened' : Innermost(y)' => y \in Opened /\ Innermost(y)
        BY <1>2 DEF Opened
    <3> QED
        BY <2>1, <3>1, <3>2, <3>3, <3>4 DEF AbortedStops
  <2>6. UNCHANGED <<ScopeState, ScopeAround, ScopeContent, db>>
      BY <1>1, <2>1 DEF ScopeState, ScopeAround, ScopeContent, Active, InTransaction, From, UpTo, Mark
  <2> QED
      BY <2>3, <2>4, <2>5, <2>6 DEF NestedInv
<1>5. \A y \in Opened : From(y)' = From(y)
    BY <1>2 DEF Opened
<1> QED
    BY <1>1, <1>2, <1>3, <1>4, <1>5 DEF Run

\* What the end of the innermost transaction leaves: the scope around it has what the
\* log still holds since its own savepoint, everybody else what they had.
LEMMA ScopeEnded ==
  ASSUME NestedInv, NEW x \in OpenedScopes, Innermost(x), NEW how \in {"committed", "undone"},
         status' = [status EXCEPT ![x] = how], failed' \in [Trans -> BOOLEAN],
         UNCHANGED <<dialect, parent>>, aborted' = FALSE,
         marks' \in Seq([scope : Scope, at : Nat]), log' \in Seq(Write),
         Mark(x) - 1 <= Len(marks'), Len(marks') <= Len(marks),
         \A i \in 1..Len(marks') : marks'[i] = marks[i] /\ marks[i].at <= Len(log'),
         From(x) <= Len(log'), Len(log') <= Len(log), \A i \in 1..Len(log') : log'[i] = log[i]
  PROVE  /\ NestedInv'
         /\ ScopeState' = [ScopeState EXCEPT ![x] = how]
         /\ ScopeAround' = ScopeAround
         /\ ScopeContent' = [ScopeContent EXCEPT
                               ![parent[x]] = @ \cup {log[i] : i \in From(x) + 1 .. Len(log')},
                               ![x] = {}]
         /\ ScopeContent[x] = {log[i] : i \in From(x) + 1 .. Len(log)}
         /\ ScopeState[x] = "open" /\ Scopes!Innermost(x) /\ ScopeAround[x] = parent[x]
         /\ Opened' = Opened \ {x} /\ \A y \in Opened \ {x} : From(y)' = From(y)
<1>1. /\ NestedTypeOK' /\ MarksOrdered' /\ Chain'
      /\ \A y \in Opened \ {x} : From(y)' = From(y)
      /\ Opened' = Opened \ {x} /\ OpenedScopes' = OpenedScopes \ {x}
  <2>1. aborted' \in BOOLEAN
      OBVIOUS
  <2> QED
      BY <2>1, Popped
<1>2. NestedInv'
    BY <1>1 DEF NestedInv, AbortedStops
<1>3. Seen /\ Seen'
  <2>1. NestedTypeOK' /\ MarksOrdered' /\ Chain' => Seen'
      BY AllSeen, PTL
  <2> QED
      BY <1>1, <2>1, AllSeen DEF NestedInv
<1>4. /\ x \in Trans /\ x \in Scope /\ x # Root /\ x \in Opened
      /\ Len(log) \in Nat /\ Len(log') \in Nat /\ From(x) \in Nat
  <2>1. x \in Trans /\ x \in Scope /\ x # Root /\ x \in Opened
      BY DEF OpenedScopes, Opened, Trans
  <2>2. From(x) \in Nat
      BY <1>3, <2>1 DEF Seen, Spans
  <2>3. Len(log) \in Nat /\ Len(log') \in Nat
      BY DEF NestedInv, NestedTypeOK
  <2> QED
      BY <2>1, <2>2, <2>3
<1>5. PICK q \in Opened : q = parent[x] /\ q # x /\ q \in Trans
  <2>1. parent[x] \in Opened /\ parent[x] # x
      BY <1>4 DEF NestedInv, Chain, Innermost, Active, Opened
  <2> QED
      BY <2>1 DEF Opened
<1>6. ScopeState' = [ScopeState EXCEPT ![x] = how]
    BY <1>4 DEF ScopeState, Active, NestedInv, NestedTypeOK
<1>7. ScopeAround' = ScopeAround
    BY DEF ScopeAround
<1>8. ScopeContent[x] = {log[i] : i \in From(x) + 1 .. Len(log)}
  <2>1. UpTo(x) = Len(log)
      BY <1>3, <1>4 DEF Seen, Spans
  <2> QED
      BY <1>3, <1>4, <2>1 DEF Seen, ScopeView
<1>9. ScopeContent'[x] = {}
    BY <1>1, <1>3, <1>4 DEF Seen, ScopeView
<1>10. ScopeContent'[q] = ScopeContent[q] \cup {log[i] : i \in From(x) + 1 .. Len(log')}
  <2>1. UpTo(q) = From(x) /\ From(q) \in Nat /\ From(q) <= From(x)
    <3>1. UpTo(parent[x]) = From(x)
        BY <1>3 DEF Seen, Spans
    <3> QED
        BY <1>3, <1>5, <3>1 DEF Seen, Spans
  <2>2. Innermost(q)' /\ q \in Opened'
    <3>1. \A y \in OpenedScopes \ {x} : parent[y] # q
        BY <1>5 DEF NestedInv, Chain
    <3>2. \A y \in Scope : Active(y)' => y \in OpenedScopes'
        BY ScopeAssumption DEF OpenedScopes, Opened, Trans
    <3> QED
        BY <1>1, <1>5, <3>1, <3>2 DEF Innermost
  <2>3. UpTo(q)' = Len(log') /\ From(q)' = From(q)
      BY <1>1, <1>3, <1>5, <2>2 DEF Seen, Spans
  <2>4. /\ ScopeContent[q] = {log[i] : i \in From(q) + 1 .. From(x)}
        /\ ScopeContent'[q] = {log'[i] : i \in From(q) + 1 .. Len(log')}
      BY <1>3, <1>5, <2>1, <2>2, <2>3 DEF Seen, ScopeView
  <2>5. \A i \in From(q) + 1 .. Len(log') : log'[i] = log[i]
      BY <1>4, <2>1
  <2>6. From(q) + 1 .. Len(log') = (From(q) + 1 .. From(x)) \cup (From(x) + 1 .. Len(log'))
      BY <1>4, <2>1
  <2> QED
      BY <2>4, <2>5, <2>6
<1>11. ASSUME NEW y \in Trans \ {x, q} PROVE ScopeContent'[y] = ScopeContent[y]
  <2>1. CASE y \in Opened
    <3>1. PICK z \in OpenedScopes : parent[z] = y
        BY <1>3, <1>4, <1>11, <2>1 DEF Seen, LastOpen
    <3>2. z # x /\ z \in Opened
        BY <1>5, <1>11, <3>1 DEF OpenedScopes
    <3>3. z \in OpenedScopes' /\ y \in Opened' /\ From(z)' = From(z) /\ From(y)' = From(y)
        BY <1>1, <1>11, <2>1, <3>1, <3>2
    <3>4. From(z) <= Len(log')
      <4>1. z \in Scope /\ HasMark(z) /\ From(z) = marks[Mark(z)].at /\ Pos(z) = Mark(z)
          BY <3>1 DEF NestedInv, Chain, From, Pos, OpenedScopes, Opened, Trans
      <4>2. Pos(z) < Pos(x) /\ Pos(x) = Mark(x)
          BY <1>3, <1>4, <3>2 DEF Seen, LastOpen, Pos
      <4>3. Mark(z) \in 1..Len(marks) /\ Mark(x) \in 1..Len(marks)
          BY <1>3, <1>4, <4>1 DEF Seen, Found, NestedInv, Chain
      <4>4. Len(marks') \in Nat /\ Len(marks) \in Nat
          BY DEF NestedInv, NestedTypeOK
      <4>5. Mark(z) \in 1..Len(marks')
          BY <4>1, <4>2, <4>3, <4>4
      <4> QED
          BY <4>1, <4>5
    <3>5. \A i \in 1..From(z) : log'[i] = log[i]
      <4>1. From(z) \in Nat
          BY <1>3, <3>2 DEF Seen, Spans
      <4> QED
          BY <1>4, <3>4, <4>1
    <3> QED
        BY <1>3, <2>1, <3>1, <3>3, <3>5, SameContent DEF Seen
  <2>2. CASE y \notin Opened
      BY <1>1, <1>3, <1>11, <2>2 DEF Seen, ScopeView
  <2> QED
      BY <2>1, <2>2
<1>12. ScopeContent' = [ScopeContent EXCEPT
                         ![parent[x]] = @ \cup {log[i] : i \in From(x) + 1 .. Len(log')},
                         ![x] = {}]
  <2>1. /\ ScopeContent' = [y \in Trans |-> ScopeContent'[y]]
        /\ ScopeContent = [y \in Trans |-> ScopeContent[y]]
      BY <1>3 DEF Seen, ScopeView
  <2> QED
      BY <1>4, <1>5, <1>9, <1>10, <1>11, <2>1
<1>13. ScopeState[x] = "open" /\ ScopeAround[x] = parent[x]
    BY <1>3, <1>4 DEF Seen, ScopeView
<1>14. Scopes!Innermost(x)
  <2>1. ASSUME NEW y \in Scope, ScopeState[y] = "open" PROVE ScopeAround[y] # x
    <3>1. y \in OpenedScopes
        BY <1>3, <2>1, ScopeAssumption DEF Seen, ScopeView, OpenedScopes, Trans
    <3>2. Active(y)
        BY <3>1 DEF OpenedScopes, Opened
    <3> QED
        BY <1>3, <3>1, <3>2 DEF Seen, ScopeView, Innermost
  <2> QED
      BY <2>1 DEF Scopes!Innermost
<1> QED
    BY <1>1, <1>2, <1>6, <1>7, <1>8, <1>12, <1>13, <1>14

\* The savepoint of the innermost transaction, and what is before it in the log.
LEMMA MarkOfInnermost ==
  ASSUME NestedInv, NEW x \in OpenedScopes
  PROVE  /\ Mark(x) \in 1..Len(marks) /\ From(x) = marks[Mark(x)].at
         /\ From(x) \in Nat /\ From(x) <= Len(log) /\ Len(log) \in Nat /\ Len(marks) \in Nat
         /\ \A i \in 1..Len(marks) : marks[i].at <= Len(log) /\ (i <= Mark(x) => marks[i].at <= From(x))
         /\ \A i \in 1..Len(marks) : marks[i] \in [scope : Scope, at : Nat]
         /\ \A i \in 1..Len(log) : log[i] \in Write
<1>1. Seen
    BY AllSeen DEF NestedInv
<1>2. x \in Scope /\ x \in Opened /\ HasMark(x)
    BY DEF NestedInv, Chain, OpenedScopes, Opened, Trans
<1>3. Mark(x) \in 1..Len(marks) /\ From(x) = marks[Mark(x)].at
    BY <1>1, <1>2, ScopeAssumption DEF Seen, Found, From, OpenedScopes
<1>4. Len(log) \in Nat /\ Len(marks) \in Nat
    BY DEF NestedInv, NestedTypeOK
<1>5. From(x) \in Nat /\ From(x) <= Len(log)
    BY <1>1, <1>2, <1>3, <1>4 DEF Seen, Spans, NestedInv, MarksOrdered
<1>6. \A i \in 1..Len(marks) : marks[i] \in [scope : Scope, at : Nat]
    BY ElementOfSeq DEF NestedInv, NestedTypeOK
<1>7. \A i \in 1..Len(log) : log[i] \in Write
    BY ElementOfSeq DEF NestedInv, NestedTypeOK
<1>8. \A i \in 1..Len(marks) : marks[i].at <= Len(log) /\ (i <= Mark(x) => marks[i].at <= From(x))
    BY <1>3 DEF NestedInv, MarksOrdered
<1> QED
    BY <1>3, <1>4, <1>5, <1>6, <1>7, <1>8

\* A sequence cut off keeps its beginning.
LEMMA CutOff ==
  ASSUME NEW S, NEW s, NEW k \in Nat, \A i \in 1..k : s[i] \in S
  PROVE  /\ SubSeq(s, 1, k) \in Seq(S) /\ Len(SubSeq(s, 1, k)) = k
         /\ \A i \in 1..k : SubSeq(s, 1, k)[i] = s[i]
<1>1. /\ SubSeq(s, 1, k) \in Seq(S)
      /\ Len(SubSeq(s, 1, k)) = IF 1 <= k THEN k - 1 + 1 ELSE 0
      /\ \A i \in 1 .. k - 1 + 1 : SubSeq(s, 1, k)[i] = s[1 + i - 1]
    BY SubSeqProperties
<1> QED
    BY <1>1

\* commit() of a nested transaction hands its writes over.
LEMMA CommitHandsOver ==
  ASSUME Awaited, NestedInv, NEW x \in Scope, CommitNested(x), UNCHANGED dialect
  PROVE  /\ NestedInv' /\ Scopes!Commit(x)
         /\ status' = [status EXCEPT ![x] = "committed"] /\ log' = log
         /\ Opened' = Opened \ {x} /\ \A y \in Opened \ {x} : From(y)' = From(y)
<1>1. /\ x \in OpenedScopes /\ x \in Opened /\ Innermost(x) /\ InTransaction
      /\ (Swallows \/ ~failed[x]) /\ UNCHANGED <<parent, db>>
    BY ScopeAssumption DEF CommitNested, MayEnd, Awaited, Opened, OpenedScopes, Trans
<1>2. HasMark(x)
    BY <1>1 DEF NestedInv, Chain
<1>3. ~aborted
  <2> SUFFICES ASSUME aborted PROVE FALSE
      OBVIOUS
  <2>1. dialect = "postgres" /\ failed[x]
      BY <1>1 DEF NestedInv, AbortedStops
  <2> QED
      BY <1>1, <2>1 DEF Swallows, Awaited
<1>4. /\ status' = [status EXCEPT ![x] = "committed"] /\ UNCHANGED <<failed, log, aborted>>
      /\ marks' = marks \/ marks' = SubSeq(marks, 1, Mark(x) - 1)
    BY <1>1, <1>2, <1>3 DEF CommitNested, ReleaseMark, Accepts
<1>5. aborted' = FALSE /\ failed' \in [Trans -> BOOLEAN] /\ log' \in Seq(Write)
    BY <1>3, <1>4 DEF NestedInv, NestedTypeOK
<1>6. /\ marks' \in Seq([scope : Scope, at : Nat])
      /\ Mark(x) - 1 <= Len(marks') /\ Len(marks') <= Len(marks)
      /\ \A i \in 1..Len(marks') : marks'[i] = marks[i] /\ marks[i].at <= Len(log')
  <2>1. CASE marks' = marks
      BY <1>1, <1>4, <2>1, MarkOfInnermost DEF NestedInv, NestedTypeOK
  <2>2. CASE marks' = SubSeq(marks, 1, Mark(x) - 1)
    <3>1. PICK k \in Nat : k = Mark(x) - 1 /\ k <= Len(marks) /\ Len(marks) \in Nat
        BY <1>1, MarkOfInnermost
    <3>2. \A i \in 1..k : marks[i] \in [scope : Scope, at : Nat] /\ marks[i].at <= Len(log)
        BY <1>1, <3>1, MarkOfInnermost
    <3>3. /\ marks' \in Seq([scope : Scope, at : Nat]) /\ Len(marks') = k
          /\ \A i \in 1..k : marks'[i] = marks[i]
        BY <2>2, <3>1, <3>2, CutOff
    <3> QED
        BY <1>4, <3>1, <3>2, <3>3
  <2> QED
      BY <1>4, <2>1, <2>2
<1>7. From(x) <= Len(log') /\ Len(log') <= Len(log) /\ \A i \in 1..Len(log') : log'[i] = log[i]
    BY <1>1, <1>4, MarkOfInnermost
<1>8. /\ NestedInv'
      /\ ScopeState' = [ScopeState EXCEPT ![x] = "committed"] /\ ScopeAround' = ScopeAround
      /\ ScopeContent' = [ScopeContent EXCEPT
                            ![parent[x]] = @ \cup {log[i] : i \in From(x) + 1 .. Len(log')},
                            ![x] = {}]
      /\ ScopeContent[x] = {log[i] : i \in From(x) + 1 .. Len(log)}
      /\ ScopeState[x] = "open" /\ Scopes!Innermost(x) /\ ScopeAround[x] = parent[x]
      /\ Opened' = Opened \ {x} /\ \A y \in Opened \ {x} : From(y)' = From(y)
    BY <1>1, <1>4, <1>5, <1>6, <1>7, ScopeEnded
<1> QED
    BY <1>1, <1>4, <1>8 DEF Scopes!Commit

\* rollback() of a nested transaction forgets its writes, and no others.
LEMMA RollbackForgets ==
  ASSUME Awaited, NestedInv, NEW x \in Scope, RollbackNested(x), UNCHANGED dialect
  PROVE  /\ NestedInv' /\ Scopes!Undo(x)
         /\ status' = [status EXCEPT ![x] = "undone"]
         /\ From(x) \in 0..Len(log) /\ Len(log') = From(x) /\ \A i \in 1..Len(log') : log'[i] = log[i]
         /\ Opened' = Opened \ {x} /\ \A y \in Opened \ {x} : From(y)' = From(y)
<1>1. /\ x \in OpenedScopes /\ x \in Opened /\ Innermost(x) /\ UNCHANGED <<parent, db>>
    BY ScopeAssumption DEF RollbackNested, MayEnd, Awaited, Opened, OpenedScopes, Trans
<1>2. HasMark(x) /\ parent[x] \in Trans
    BY <1>1 DEF NestedInv, Chain, Opened
<1>3. /\ status' = [status EXCEPT ![x] = "undone"] /\ aborted' = FALSE
      /\ failed' = [failed EXCEPT ![parent[x]] = @ \/ (failed[x] /\ ~Swallows /\ ~Overlap)]
      /\ marks' = SubSeq(marks, 1, Mark(x)) /\ log' = SubSeq(log, 1, From(x))
    BY <1>1, <1>2, MarkOfInnermost DEF RollbackNested, RollbackToMark
<1>4. failed' \in [Trans -> BOOLEAN]
    BY <1>2, <1>3 DEF NestedInv, NestedTypeOK, Swallows, Awaited
<1>5. /\ marks' \in Seq([scope : Scope, at : Nat])
      /\ Mark(x) - 1 <= Len(marks') /\ Len(marks') <= Len(marks)
      /\ \A i \in 1..Len(marks') : marks'[i] = marks[i] /\ marks[i].at <= From(x)
  <2>1. PICK k \in Nat : k = Mark(x) /\ k <= Len(marks) /\ Len(marks) \in Nat
      BY <1>1, MarkOfInnermost
  <2>2. \A i \in 1..k : marks[i] \in [scope : Scope, at : Nat] /\ marks[i].at <= From(x)
      BY <1>1, <2>1, MarkOfInnermost
  <2>3. /\ marks' \in Seq([scope : Scope, at : Nat]) /\ Len(marks') = k
        /\ \A i \in 1..k : marks'[i] = marks[i]
      BY <1>3, <2>1, <2>2, CutOff
  <2> QED
      BY <2>1, <2>2, <2>3
<1>6. /\ log' \in Seq(Write) /\ Len(log') = From(x) /\ From(x) \in Nat /\ From(x) <= Len(log)
      /\ \A i \in 1..Len(log') : log'[i] = log[i]
  <2>1. From(x) \in Nat /\ From(x) <= Len(log) /\ Len(log) \in Nat
      BY <1>1, MarkOfInnermost
  <2>2. \A i \in 1..From(x) : log[i] \in Write
      BY <1>1, <2>1, MarkOfInnermost
  <2> QED
      BY <1>3, <2>1, <2>2, CutOff
<1>7. /\ \A i \in 1..Len(marks') : marks'[i] = marks[i] /\ marks[i].at <= Len(log')
      /\ From(x) <= Len(log') /\ Len(log') <= Len(log)
    BY <1>5, <1>6
<1>8. /\ NestedInv'
      /\ ScopeState' = [ScopeState EXCEPT ![x] = "undone"] /\ ScopeAround' = ScopeAround
      /\ ScopeContent' = [ScopeContent EXCEPT
                            ![parent[x]] = @ \cup {log[i] : i \in From(x) + 1 .. Len(log')},
                            ![x] = {}]
      /\ ScopeState[x] = "open" /\ Scopes!Innermost(x)
      /\ Opened' = Opened \ {x} /\ \A y \in Opened \ {x} : From(y)' = From(y)
    BY <1>1, <1>3, <1>4, <1>5, <1>6, <1>7, ScopeEnded
<1>9. {log[i] : i \in From(x) + 1 .. Len(log')} = {}
    BY <1>6
<1>10. ScopeContent' = [ScopeContent EXCEPT ![x] = {}]
  <2>1. Seen
      BY AllSeen DEF NestedInv
  <2> QED
      BY <1>8, <1>9, <2>1 DEF Seen, ScopeView
<1>11. Scopes!Undo(x)
    BY <1>1, <1>8, <1>10 DEF Scopes!Undo
<1>12. From(x) \in 0..Len(log)
    BY <1>1, MarkOfInnermost
<1> QED
    BY <1>3, <1>6, <1>8, <1>11, <1>12

\* The end of the top-level transaction ends the session's.
LEMMA RootEnds ==
  ASSUME Awaited, NestedInv, CommitRoot \/ RollbackRoot, UNCHANGED dialect
  PROVE  /\ NestedInv' /\ (Scopes!CommitRoot \/ Scopes!Undo(Root))
         /\ Opened' = {} /\ (CommitRoot => ~aborted)
<1>1. /\ Root \in Opened /\ Innermost(Root) /\ InTransaction /\ Root \in Trans
      /\ marks' = <<>> /\ log' = <<>> /\ aborted' = FALSE /\ UNCHANGED <<parent, failed>>
    BY DEF CommitRoot, RollbackRoot, MayEnd, Awaited, Opened, Trans
<1>2. Seen
    BY AllSeen DEF NestedInv
<1>3. Opened = {Root}
  <2> SUFFICES ASSUME NEW y \in Opened, y # Root PROVE FALSE
      BY <1>1
  <2>1. Pos(y) < Pos(Root) /\ Pos(y) \in Nat /\ Pos(Root) = 0
      BY <1>1, <1>2 DEF Seen, LastOpen, Positions, Pos
  <2> QED
      BY <2>1
<1>4. PICK how \in {"committed", "undone"} : status' = [status EXCEPT ![Root] = how]
    BY DEF CommitRoot, RollbackRoot
<1>5. Opened' = {} /\ OpenedScopes' = {}
    BY <1>1, <1>3, <1>4 DEF Opened, OpenedScopes, Active, NestedInv, NestedTypeOK
<1>6. NestedTypeOK'
  <2>1. marks' \in Seq([scope : Scope, at : Nat]) /\ log' \in Seq(Write)
      BY <1>1
  <2>2. status' \in [Trans -> {"new", "rejected", "active", "committed", "undone"}]
      BY <1>1, <1>4 DEF NestedInv, NestedTypeOK
  <2> QED
      BY <1>1, <2>1, <2>2 DEF NestedInv, NestedTypeOK
<1>7. MarksOrdered' /\ Chain' /\ AbortedStops'
  <2>1. Len(marks') = 0
      BY <1>1
  <2> QED
      BY <1>1, <1>5, <2>1 DEF MarksOrdered, Chain, AbortedStops
<1>8. ScopeContent[Root] = ToSet(log)
  <2>1. UpTo(Root) = Len(log) /\ From(Root) = 0
      BY <1>1, <1>2 DEF Seen, Spans, From
  <2>2. DOMAIN log = 1..Len(log)
      BY DEF NestedInv, NestedTypeOK
  <2>3. ScopeContent[Root] = {log[i] : i \in 0 + 1 .. Len(log)}
      BY <1>1, <1>2, <2>1 DEF Seen, ScopeView
  <2> QED
      BY <2>2, <2>3 DEF ToSet
<1>9. ScopeContent' = [ScopeContent EXCEPT ![Root] = {}]
  <2>1. ScopeView'
    <3>1. NestedTypeOK' /\ Chain' => ScopeView'
        BY ScopesSeen, PTL
    <3> QED
        BY <1>6, <1>7, <3>1
  <2>2. ASSUME NEW y \in Trans PROVE ScopeContent'[y] = {} /\ (y # Root => ScopeContent[y] = {})
      BY <1>2, <1>3, <1>5, <2>1 DEF Seen, ScopeView
  <2>3. /\ ScopeContent' = [y \in Trans |-> ScopeContent'[y]]
        /\ ScopeContent = [y \in Trans |-> ScopeContent[y]]
      BY <1>2, <2>1 DEF Seen, ScopeView
  <2> QED
      BY <2>2, <2>3
<1>10. ScopeState' = [ScopeState EXCEPT ![Root] = how] /\ ScopeAround' = ScopeAround
    BY <1>1, <1>4 DEF ScopeState, ScopeAround, Active, NestedInv, NestedTypeOK
<1>11. ScopeState[Root] = "open"
    BY <1>1, <1>2 DEF Seen, ScopeView
<1>12. Scopes!Innermost(Root)
  <2>1. ASSUME NEW y \in Scope PROVE ScopeState[y] # "open"
      BY <1>2, <1>3, ScopeAssumption DEF Seen, ScopeView, Trans
  <2> QED
      BY <2>1 DEF Scopes!Innermost
<1>13. ASSUME CommitRoot PROVE NestedInv' /\ Scopes!CommitRoot /\ ~aborted
  <2>1. how = "committed"
      BY <1>1, <1>4, <1>13 DEF CommitRoot, NestedInv, NestedTypeOK
  <2>2. ~aborted
    <3> SUFFICES ASSUME aborted PROVE FALSE
        OBVIOUS
    <3>1. dialect = "postgres" /\ failed[Root]
        BY <1>1 DEF NestedInv, AbortedStops
    <3> QED
        BY <1>13, <3>1 DEF CommitRoot, Swallows, Awaited
  <2>3. db' = db \cup ScopeContent[Root]
      BY <1>8, <1>13, <2>2 DEF CommitRoot
  <2> QED
      BY <1>6, <1>7, <1>9, <1>10, <1>11, <1>12, <2>1, <2>2, <2>3 DEF NestedInv, Scopes!CommitRoot
<1>14. ASSUME RollbackRoot PROVE NestedInv' /\ Scopes!Undo(Root)
  <2>1. how = "undone" /\ db' = db
      BY <1>1, <1>4, <1>14 DEF RollbackRoot, NestedInv, NestedTypeOK
  <2> QED
      BY <1>6, <1>7, <1>9, <1>10, <1>11, <1>12, <2>1 DEF NestedInv, Scopes!Undo
<1> QED
    BY <1>5, <1>13, <1>14

LEMMA NestedSteps ==
  ASSUME Awaited
  PROVE  NestedInv /\ [Next]_vars => NestedInv' /\ [Scopes!Next]_(Scopes!vars)
<1> SUFFICES ASSUME NestedInv, [Next]_vars PROVE NestedInv' /\ [Scopes!Next]_(Scopes!vars)
    OBVIOUS
<1>1. CASE UNCHANGED vars
  <2>1. UNCHANGED <<dialect, status, parent, failed, marks, log, aborted, db>>
      BY <1>1 DEF vars
  <2>2. NestedTypeOK' /\ MarksOrdered' /\ Chain'
      BY <2>1, ChainUnmoved DEF NestedInv, NestedTypeOK, MarksOrdered
  <2>3. AbortedStops'
      BY <2>1 DEF NestedInv, AbortedStops, Opened, Active, Innermost
  <2>4. UNCHANGED <<ScopeState, ScopeAround, ScopeContent, db>>
      BY <2>1 DEF ScopeState, ScopeAround, ScopeContent, Active, InTransaction, From, UpTo, Mark
  <2> QED
      BY <2>2, <2>3, <2>4 DEF NestedInv, Scopes!vars
<1>2. ASSUME UNCHANGED dialect, NEW x \in Scope, NEW p \in Trans, Nest(x, p)
      PROVE  NestedInv' /\ [Scopes!Next]_(Scopes!vars)
    BY <1>2, NestOpens DEF Scopes!Next, Scopes!All, Trans
<1>3. ASSUME UNCHANGED dialect, NEW w \in Write, NEW x \in Trans, Run(w, x)
      PROVE  NestedInv' /\ [Scopes!Next]_(Scopes!vars)
    BY <1>3, RunPuts DEF Scopes!Next, Scopes!All, Scopes!vars, Trans
<1>4. ASSUME UNCHANGED dialect, NEW x \in Scope, CommitNested(x)
      PROVE  NestedInv' /\ [Scopes!Next]_(Scopes!vars)
    BY <1>4, CommitHandsOver DEF Scopes!Next
<1>5. ASSUME UNCHANGED dialect, NEW x \in Scope, RollbackNested(x)
      PROVE  NestedInv' /\ [Scopes!Next]_(Scopes!vars)
    BY <1>5, RollbackForgets DEF Scopes!Next, Scopes!All
<1>6. ASSUME UNCHANGED dialect, CommitRoot \/ RollbackRoot
      PROVE  NestedInv' /\ [Scopes!Next]_(Scopes!vars)
    BY <1>6, RootEnds DEF Scopes!Next, Scopes!All
<1> QED
    BY <1>1, <1>2, <1>3, <1>4, <1>5, <1>6 DEF Next

-----------------------------------------------------------------------------

\* The open transactions are a chain with one savepoint each, in the order they were
\* opened in, and where postgres refuses everything the innermost one has failed
\* (nestedTransaction(), commit() and rollback() of transaction.ts).
THEOREM NestedInvariant == ASSUME Awaited PROVE Spec => []NestedInv
BY NestedInitially, NestedSteps, PTL DEF Spec

\* Transactions nested by savepoints implement a tree of atomic scopes: a commit hands
\* the writes to the transaction around, a rollback forgets those and no others, and
\* what the top-level commit persists is what was not rolled back.
THEOREM SavepointsAreScopes == ASSUME Awaited PROVE Spec => AtomicScopes
BY NestedInitially, NestedSteps, PTL DEF Spec, AtomicScopes, Scopes!Spec

-----------------------------------------------------------------------------
(* The writes that a rollback undoes.                                      *)

\* Going up from x: x itself, then from the one above.
LEMMA UpwardStep ==
  ASSUME NEW up, NEW x \in Scope, up[x] \in Trans
  PROVE  Upward(up, x) = {x} \cup Upward(up, up[x])
<1> DEFINE Closed(S, z) == z \in S /\ \A y \in S : y \in Scope /\ up[y] \in Trans => up[y] \in S
<1>1. ASSUME NEW z \in Trans
      PROVE  Upward(up, z) = {y \in Trans : \A S \in SUBSET Trans : Closed(S, z) => y \in S}
    BY DEF Upward
<1>2. x \in Trans
    BY DEF Trans
<1>3. ASSUME NEW y \in Upward(up, up[x]) PROVE y \in Upward(up, x)
  <2>1. \A S \in SUBSET Trans : Closed(S, x) => Closed(S, up[x])
      OBVIOUS
  <2> QED
      BY <1>1, <1>2, <1>3, <2>1
<1>4. x \in Upward(up, x)
    BY <1>1, <1>2
<1>5. ASSUME NEW y \in Upward(up, x), y # x PROVE y \in Upward(up, up[x])
  <2>1. ASSUME NEW S \in SUBSET Trans, Closed(S, up[x]) PROVE Closed(S \cup {x}, x)
      BY <2>1
  <2>2. \A S \in SUBSET Trans : S \cup {x} \in SUBSET Trans
      BY <1>2
  <2> HIDE DEF Closed
  <2>3. \A S \in SUBSET Trans : Closed(S, up[x]) => y \in S \cup {x}
      BY <1>1, <1>2, <1>5, <2>1, <2>2
  <2> QED
      BY <1>1, <1>2, <1>5, <2>3
<1> QED
    BY <1>3, <1>4, <1>5

\* Nothing is above the top-level transaction.
LEMMA UpwardRoot == ASSUME NEW up PROVE Upward(up, Root) = {Root}
<1>1. Root \in Trans
    BY DEF Trans
<1>2. \A y \in {Root} : ~(y \in Scope /\ up[y] \in Trans)
    BY ScopeAssumption
<1> QED
    BY <1>1, <1>2 DEF Upward

\* A set that is closed under going up holds what is reached from its members.
LEMMA UpwardClosed ==
  ASSUME NEW up, NEW T \in SUBSET Trans, \A y \in T : y \in Scope /\ up[y] \in Trans => up[y] \in T,
         NEW x \in T
  PROVE  Upward(up, x) \subseteq T
BY DEF Upward

\* Going up stays inside such a set, whatever is above the others.
LEMMA UpwardKept ==
  ASSUME NEW up, NEW new, NEW T \in SUBSET Trans,
         \A y \in T : y \in Scope /\ up[y] \in Trans => up[y] \in T,
         \A y \in T : new[y] = up[y],
         NEW x \in T
  PROVE  Upward(new, x) = Upward(up, x)
<1>1. ASSUME NEW f, NEW g, \A y \in T : y \in Scope /\ f[y] \in Trans => f[y] \in T,
             \A y \in T : g[y] = f[y]
      PROVE  Upward(f, x) \subseteq Upward(g, x)
  <2> SUFFICES ASSUME NEW y \in Upward(f, x), NEW S \in SUBSET Trans,
                      x \in S /\ \A z \in S : z \in Scope /\ g[z] \in Trans => g[z] \in S
               PROVE  y \in S
      BY DEF Upward
  <2>1. S \cap T \in SUBSET Trans
      OBVIOUS
  <2>2. x \in S \cap T /\ \A z \in S \cap T : z \in Scope /\ f[z] \in Trans => f[z] \in S \cap T
      BY <1>1
  <2> QED
      BY <2>1, <2>2 DEF Upward
<1>2. Upward(up, x) \subseteq Upward(new, x)
    BY <1>1
<1>3. \A y \in T : y \in Scope /\ new[y] \in Trans => new[y] \in T
    OBVIOUS
<1>4. \A y \in T : up[y] = new[y]
    OBVIOUS
<1>5. Upward(new, x) \subseteq Upward(up, x)
    BY <1>1, <1>3, <1>4
<1> QED
    BY <1>2, <1>5

\* The transactions that were opened.
Lived == {x \in Trans : status[x] \notin {"new", "rejected"}}

\* They are a tree under the top-level transaction, and the innermost one is in all
\* that are open.
Rooted ==
  /\ Root \in Lived
  /\ \A x \in Lived \ {Root} : parent[x] \in Lived
  /\ \A x \in Lived : Root \in Enclosing(x)
  /\ \A x \in Opened : Innermost(x) => Opened \subseteq Enclosing(x)

\* A pending write is behind the savepoints of the open transactions it was made in and
\* of no others, and it is pending because none around it was rolled back.
Placed ==
  /\ into \in [Write -> Trans \cup {NoScope}]
  /\ \A w \in Write : into[w] # NoScope => into[w] \in Lived
  /\ InTransaction =>
       /\ db = {}
       /\ \A i \in 1..Len(log) :
            /\ into[log[i]] \in Lived
            /\ \A x \in Opened : From(x) < i <=> x \in Enclosing(into[log[i]])
       /\ \A w \in Write : into[w] \in Lived => (w \in ToSet(log) <=> ~Undone(w))
  /\ status[Root] = "committed" =>
       \A w \in Write : into[w] \in Lived => (w \in db <=> ~Undone(w))

\* What is around a transaction was opened, as long as it is open is open too, and
\* stays around it.
LEMMA LivedAround ==
  ASSUME NestedTypeOK, Rooted, NEW x \in Lived
  PROVE  /\ Enclosing(x) \subseteq Lived
         /\ Chain => (x \in Opened => Enclosing(x) \subseteq Opened)
         /\ x \in Scope => Enclosing(x) = {x} \cup Enclosing(parent[x])
<1>1. Lived \in SUBSET Trans /\ \A y \in Lived : y \in Scope => y # Root
    BY ScopeAssumption DEF Lived
<1>2. Enclosing(x) \subseteq Lived
  <2>1. \A y \in Lived : y \in Scope /\ parent[y] \in Trans => parent[y] \in Lived
      BY <1>1 DEF Rooted
  <2> QED
      BY <1>1, <2>1, UpwardClosed DEF Enclosing
<1>3. ASSUME Chain, x \in Opened PROVE Enclosing(x) \subseteq Opened
  <2>1. Opened \in SUBSET Trans
      BY DEF Opened
  <2>2. \A y \in Opened : y \in Scope /\ parent[y] \in Trans => parent[y] \in Opened
      BY <1>3, ScopeAssumption DEF Chain, OpenedScopes
  <2> QED
      BY <1>3, <2>1, <2>2, UpwardClosed DEF Enclosing
<1>4. x \in Scope => Enclosing(x) = {x} \cup Enclosing(parent[x])
    BY <1>1, UpwardStep DEF Rooted, Enclosing
<1> QED
    BY <1>2, <1>3, <1>4

LEMMA ScopingInitially == Init => Rooted /\ Placed
<1> SUFFICES ASSUME Init PROVE Rooted /\ Placed
    OBVIOUS
<1>1. Lived = {Root} /\ Opened = {Root}
    BY DEF Init, Lived, Opened, Active, Trans
<1>2. Enclosing(Root) = {Root}
    BY UpwardRoot DEF Enclosing
<1>3. Rooted
    BY <1>1, <1>2 DEF Rooted
<1>4. log = <<>> /\ Len(log) = 0 /\ db = {} /\ status[Root] = "active"
      /\ into = [w \in Write |-> NoScope] /\ NoScope \notin Lived
    BY <1>1, ScopeAssumption DEF Init, Trans
<1>5. into \in [Write -> Trans \cup {NoScope}]
    BY <1>4
<1> QED
    BY <1>3, <1>4, <1>5 DEF Placed

\* A new savepoint is behind every pending write, and its transaction around none.
LEMMA NestScoped ==
  ASSUME Awaited, NestedInv, Rooted, Placed, NEW x \in Scope, NEW p \in Trans,
         Nest(x, p), UNCHANGED dialect
  PROVE  Rooted' /\ Placed'
<1>1. /\ NestedInv'
      /\ p \in Opened /\ Innermost(p) /\ status[x] = "new"
      /\ status' = [status EXCEPT ![x] = "active"] /\ parent' = [parent EXCEPT ![x] = p]
      /\ log' = log /\ Opened' = Opened \cup {x}
      /\ From(x)' = Len(log) /\ \A y \in Opened : From(y)' = From(y)
    BY NestOpens
<1>2. UNCHANGED <<into, db>>
    BY DEF Nest
<1>3. /\ x \in Trans /\ x # Root /\ x \notin Lived /\ p \in Lived /\ Opened \subseteq Lived
      /\ status'[x] = "active" /\ \A y \in Trans \ {x} : status'[y] = status[y]
    BY <1>1, ScopeAssumption DEF Lived, Trans, Opened, Active, NestedInv, NestedTypeOK
<1>4. Lived' = Lived \cup {x}
    BY <1>3 DEF Lived
<1>5. parent'[x] = p /\ \A y \in Lived : parent'[y] = parent[y] \/ y = Root
  <2>1. \A y \in Scope \ {x} : parent'[y] = parent[y]
      BY <1>1 DEF NestedInv, NestedTypeOK
  <2>2. \A y \in Lived : y = Root \/ y \in Scope \ {x}
      BY <1>3 DEF Lived, Trans
  <2>3. parent'[x] = p
      BY <1>1 DEF NestedInv, NestedTypeOK
  <2> QED
      BY <2>1, <2>2, <2>3
<1>6. ASSUME NEW y \in Lived PROVE Enclosing(y)' = Enclosing(y)
  <2>1. CASE y = Root
      BY <2>1, UpwardRoot DEF Enclosing
  <2>2. CASE y # Root
    <3>1. parent[Root] = parent'[Root]
        BY <1>1, <1>3, ScopeAssumption DEF NestedInv, NestedTypeOK
    <3>2. Lived \in SUBSET Trans /\ \A z \in Lived : z \in Scope /\ parent[z] \in Trans => parent[z] \in Lived
        BY ScopeAssumption DEF Rooted, Lived
    <3>3. \A z \in Lived : parent'[z] = parent[z]
        BY <1>5, <3>1
    <3>4. Upward(parent', y) = Upward(parent, y)
        BY <3>2, <3>3, UpwardKept
    <3> QED
        BY <3>4 DEF Enclosing
  <2> QED
      BY <2>1, <2>2
<1>7. Enclosing(x)' = {x} \cup Enclosing(p)
  <2>1. Upward(parent', x) = {x} \cup Upward(parent', p)
      BY <1>5, UpwardStep
  <2>2. Upward(parent', p) = Upward(parent, p)
      BY <1>3, <1>6 DEF Enclosing
  <2> QED
      BY <2>1, <2>2 DEF Enclosing
<1>8. Rooted'
  <2>1. Root \in Lived' /\ \A y \in Lived' \ {Root} : parent'[y] \in Lived'
      BY <1>3, <1>4, <1>5 DEF Rooted
  <2>2. \A y \in Lived' : Root \in Enclosing(y)'
      BY <1>3, <1>4, <1>6, <1>7 DEF Rooted
  <2>3. ASSUME NEW y \in Opened', Innermost(y)' PROVE Opened' \subseteq Enclosing(y)'
    <3>1. y # p
      <4>1. Active(x)' /\ parent'[x] = p
          BY <1>3, <1>5 DEF Active
      <4> QED
          BY <2>3, <4>1 DEF Innermost
    <3>2. y \notin Opened
      <4> SUFFICES ASSUME y \in Opened PROVE FALSE
          OBVIOUS
      <4>1. Innermost(y)
        <5>1. ASSUME NEW z \in Scope, Active(z), parent[z] = y PROVE FALSE
          <6>1. z \in Lived /\ z # x /\ z # Root
              BY <1>3, <5>1, ScopeAssumption DEF Lived, Active, Trans
          <6>2. Active(z)' /\ parent'[z] = y
              BY <1>3, <1>5, <5>1, <6>1 DEF Active, Lived
          <6> QED
              BY <2>3, <6>2 DEF Innermost
        <5> QED
            BY <5>1 DEF Innermost
      <4>2. Seen
          BY AllSeen DEF NestedInv
      <4>3. Pos(y) < Pos(p) /\ Pos(p) < Pos(y) /\ Pos(y) \in Nat /\ Pos(p) \in Nat
          BY <1>1, <3>1, <4>1, <4>2 DEF Seen, LastOpen, Positions
      <4> QED
          BY <4>3
    <3>3. y = x
        BY <1>1, <3>2
    <3> QED
        BY <1>1, <1>7, <3>3 DEF Rooted
  <2> QED
      BY <2>1, <2>2, <2>3 DEF Rooted
<1>9. Len(log) \in Nat
    BY DEF NestedInv, NestedTypeOK
<1>10. ASSUME NEW w \in Write, into[w] \in Lived PROVE Undone(w)' <=> Undone(w)
  <2>1. PICK z \in Lived : z = into[w]
      BY <1>10
  <2>2. Enclosing(z)' = Enclosing(z) /\ Enclosing(z) \subseteq Lived
      BY <1>6, LivedAround DEF NestedInv
  <2>3. \A y \in Lived : status'[y] = status[y]
      BY <1>3 DEF Lived
  <2>4. Undone(w) <=> \E y \in Enclosing(z) : status[y] = "undone"
      BY <2>1 DEF Undone
  <2>5. Undone(w)' <=> \E y \in Enclosing(z)' : status'[y] = "undone"
      BY <1>2, <2>1 DEF Undone
  <2> QED
      BY <2>2, <2>3, <2>4, <2>5
<1>11. ASSUME InTransaction, NEW i \in 1..Len(log)
       PROVE  /\ into[log[i]] \in Lived'
              /\ \A y \in Opened' : From(y)' < i <=> y \in Enclosing(into[log[i]])'
  <2>1. PICK z \in Lived : z = into[log[i]] /\ \A y \in Opened : From(y) < i <=> y \in Enclosing(z)
      BY <1>11 DEF Placed
  <2>2. Enclosing(z)' = Enclosing(z) /\ Enclosing(z) \subseteq Lived
      BY <1>6, LivedAround DEF NestedInv
  <2>3. \A y \in Opened : From(y)' < i <=> y \in Enclosing(z)'
      BY <1>1, <2>1, <2>2
  <2>4. ~(From(x)' < i) /\ x \notin Enclosing(z)'
      BY <1>1, <1>3, <1>9, <2>2
  <2>5. Enclosing(into[log[i]])' = Enclosing(z)'
      BY <1>1, <1>2, <2>1 DEF Enclosing
  <2> QED
      BY <1>1, <1>4, <2>1, <2>3, <2>4, <2>5
<1>12. status'[Root] = status[Root] /\ (InTransaction' <=> InTransaction)
    BY <1>3 DEF InTransaction, Trans
<1>13. \A w \in Write : into[w] \in Lived' => into[w] \in Lived
  <2>1. \A w \in Write : into[w] \in Lived \/ into[w] = NoScope
      BY DEF Placed
  <2> QED
      BY <1>3, <1>4, <2>1, ScopeAssumption
<1>14. Placed'
  <2>1. /\ into' \in [Write -> Trans \cup {NoScope}]
        /\ \A w \in Write : into'[w] # NoScope => into'[w] \in Lived'
      BY <1>2, <1>4 DEF Placed
  <2>2. ASSUME InTransaction'
        PROVE  /\ db' = {}
               /\ \A w \in Write : into'[w] \in Lived' => (w \in ToSet(log') <=> ~Undone(w)')
      BY <1>1, <1>2, <1>10, <1>12, <1>13, <2>2 DEF Placed
  <2>3. ASSUME InTransaction', NEW i \in 1..Len(log')
        PROVE  /\ into'[log'[i]] \in Lived'
               /\ \A y \in Opened' : From(y)' < i <=> y \in Enclosing(into[log[i]])'
      BY <1>1, <1>2, <1>11, <1>12, <2>3
  <2>4. ASSUME status'[Root] = "committed"
        PROVE  \A w \in Write : into'[w] \in Lived' => (w \in db' <=> ~Undone(w)')
      BY <1>2, <1>10, <1>12, <1>13, <2>4 DEF Placed
  <2> QED
      BY <2>1, <2>2, <2>3, <2>4 DEF Placed
<1> QED
    BY <1>8, <1>14

\* A write goes into the innermost transaction, and so into all that are open.
LEMMA RunScoped ==
  ASSUME Awaited, NestedInv, Rooted, Placed, NEW w \in Write, NEW x \in Trans,
         Run(w, x), UNCHANGED dialect
  PROVE  Rooted' /\ Placed'
<1>1. /\ x \in Opened /\ Innermost(x) /\ UNCHANGED <<status, parent, db>>
      /\ Opened' = Opened /\ \A y \in Opened : From(y)' = From(y)
    BY RunPuts
<1>2. /\ Lived' = Lived /\ x \in Lived /\ InTransaction' = InTransaction
      /\ \A y : Enclosing(y)' = Enclosing(y) /\ (Innermost(y)' <=> Innermost(y))
    BY <1>1 DEF Lived, Enclosing, InTransaction, Innermost, Active, Opened
<1>3. Rooted'
    BY <1>1, <1>2 DEF Rooted
<1>4. InTransaction /\ status[Root] # "committed" /\ into[w] = NoScope
    BY DEF Run, MayUse, InTransaction
<1>5. CASE UNCHANGED <<log, into>>
  <2>1. \A v \in Write : Undone(v)' <=> Undone(v)
      BY <1>1, <1>2, <1>5 DEF Undone, Enclosing
  <2>2. ASSUME NEW i \in 1..Len(log) PROVE Enclosing(into[log[i]])' = Enclosing(into[log[i]])
      BY <1>1, <1>5 DEF Enclosing
  <2>3. ASSUME NEW i \in 1..Len(log')
        PROVE  /\ into'[log'[i]] \in Lived'
               /\ \A y \in Opened' : From(y)' < i <=> y \in Enclosing(into[log[i]])'
    <3>1. /\ into[log[i]] \in Lived
          /\ \A y \in Opened : From(y) < i <=> y \in Enclosing(into[log[i]])
        BY <1>4, <1>5 DEF Placed
    <3> QED
        BY <1>1, <1>2, <1>5, <2>2, <3>1
  <2>4. /\ into' \in [Write -> Trans \cup {NoScope}] /\ db' = {}
        /\ \A v \in Write : into'[v] # NoScope => into'[v] \in Lived'
        /\ \A v \in Write : into'[v] \in Lived' => (v \in ToSet(log') <=> ~Undone(v)')
      BY <1>1, <1>2, <1>4, <1>5, <2>1 DEF Placed
  <2> QED
      BY <1>1, <1>3, <1>4, <2>3, <2>4 DEF Placed
<1>6. CASE Accepts /\ log' = Append(log, w) /\ into' = [into EXCEPT ![w] = x]
  <2>1. /\ Len(log') = Len(log) + 1 /\ Len(log) \in Nat /\ log' \in Seq(Write)
        /\ \A i \in 1..Len(log) : log'[i] = log[i] /\ log[i] \in Write
        /\ log'[Len(log) + 1] = w
      BY <1>6, AppendProperties, ElementOfSeq DEF NestedInv, NestedTypeOK
  <2>2. into'[w] = x /\ \A v \in Write \ {w} : into'[v] = into[v]
      BY <1>6 DEF Placed
  <2>3. into' \in [Write -> Trans \cup {NoScope}]
      BY <1>6 DEF Placed
  <2>4. w \notin ToSet(log) /\ \A i \in 1..Len(log) : log[i] # w
    <3>1. ASSUME NEW i \in 1..Len(log), log[i] = w PROVE FALSE
      <4>1. into[w] \in Lived
          BY <1>4, <3>1 DEF Placed
      <4> QED
          BY <1>4, <4>1, ScopeAssumption DEF Lived, Trans
    <3>2. ToSet(log) = {log[i] : i \in 1..Len(log)}
        BY DEF ToSet, NestedInv, NestedTypeOK
    <3> QED
        BY <3>1, <3>2
  <2>5. ToSet(log') = ToSet(log) \cup {w}
    <3>1. DOMAIN log' = 1 .. Len(log) + 1 /\ DOMAIN log = 1..Len(log)
        BY <2>1 DEF NestedInv, NestedTypeOK
    <3> QED
        BY <2>1, <3>1 DEF ToSet
  <2>6. Opened \subseteq Enclosing(x) /\ Enclosing(x) \subseteq Opened
      BY <1>1, <1>2, LivedAround DEF Rooted, NestedInv
  <2>7. ASSUME NEW v \in Write \ {w} PROVE Undone(v)' <=> Undone(v)
    <3>1. Enclosing(into[v])' = Enclosing(into[v])
        BY <1>1, <2>2, <2>7 DEF Enclosing
    <3> QED
        BY <1>1, <3>1 DEF Undone
  <2>8. ~Undone(w)'
    <3>1. Enclosing(into[w])' = Enclosing(x)
        BY <1>1, <2>2 DEF Enclosing
    <3>2. \A y \in Opened : status[y] # "undone"
        BY DEF Opened, Active
    <3> QED
        BY <1>1, <2>6, <3>1, <3>2 DEF Undone
  <2>9. ASSUME NEW i \in 1..Len(log')
        PROVE  /\ into'[log'[i]] \in Lived'
               /\ \A y \in Opened' : From(y)' < i <=> y \in Enclosing(into[log[i]])'
    <3>1. CASE i \in 1..Len(log)
      <4>1. /\ into[log[i]] \in Lived
            /\ \A y \in Opened : From(y) < i <=> y \in Enclosing(into[log[i]])
          BY <1>4, <3>1 DEF Placed
      <4>2. into'[log'[i]] = into[log[i]]
          BY <2>1, <2>2, <2>4, <3>1
      <4>3. Enclosing(into[log[i]])' = Enclosing(into[log[i]])
          BY <1>1, <4>2 DEF Enclosing
      <4> QED
          BY <1>1, <1>2, <4>1, <4>2, <4>3
    <3>2. CASE i = Len(log) + 1
      <4>1. into'[log'[i]] = x
          BY <2>1, <2>2, <3>2
      <4>2. Enclosing(into[log[i]])' = Enclosing(x)
          BY <1>1, <4>1 DEF Enclosing
      <4>3. Seen
          BY AllSeen DEF NestedInv
      <4>4. \A y \in Opened : From(y) < i
          BY <2>1, <3>2, <4>3 DEF Seen, Spans
      <4> QED
          BY <1>1, <1>2, <2>6, <4>1, <4>2, <4>4
    <3> QED
        BY <2>1, <3>1, <3>2
  <2>10. \A v \in Write : into'[v] # NoScope => into'[v] \in Lived'
      BY <1>2, <2>2 DEF Placed
  <2>11. \A v \in Write : into'[v] \in Lived' => (v \in ToSet(log') <=> ~Undone(v)')
      BY <1>2, <1>4, <2>2, <2>5, <2>7, <2>8 DEF Placed
  <2>12. db' = {} /\ status'[Root] # "committed"
      BY <1>1, <1>4 DEF Placed
  <2> QED
      BY <1>3, <2>3, <2>9, <2>10, <2>11, <2>12 DEF Placed
<1> QED
    BY <1>5, <1>6 DEF Run, Rejected

\* What the end of the innermost transaction leaves in the log is what it did not undo.
LEMMA EndScoped ==
  ASSUME NestedInv, NestedInv', Rooted, Placed, NEW x \in OpenedScopes, Innermost(x),
         NEW how \in {"committed", "undone"}, status' = [status EXCEPT ![x] = how],
         UNCHANGED <<parent, into, db>>,
         Len(log') <= Len(log), \A i \in 1..Len(log') : log'[i] = log[i],
         IF how = "undone" THEN Len(log') = From(x) ELSE log' = log,
         Opened' = Opened \ {x}, \A y \in Opened \ {x} : From(y)' = From(y)
  PROVE  Rooted' /\ Placed'
<1>1. /\ x \in Scope /\ x \in Trans /\ x # Root /\ x \in Opened /\ x \in Lived /\ status[x] = "active"
      /\ Len(log) \in Nat /\ Len(log') \in Nat
      /\ DOMAIN log = 1..Len(log) /\ DOMAIN log' = 1..Len(log')
    BY ScopeAssumption DEF OpenedScopes, Opened, Trans, Lived, Active, NestedInv, NestedTypeOK
<1>2. status'[x] = how /\ \A y \in Trans \ {x} : status'[y] = status[y]
    BY <1>1 DEF NestedInv, NestedTypeOK
<1>3. /\ Lived' = Lived /\ Root \in Trans /\ status'[Root] = status[Root] /\ InTransaction' = InTransaction
      /\ \A y : Enclosing(y)' = Enclosing(y)
    BY <1>1, <1>2 DEF Lived, InTransaction, Trans, Enclosing
<1>4. InTransaction /\ status[Root] # "committed"
    BY DEF NestedInv, Chain, InTransaction
<1>5. Rooted'
  <2>1. ASSUME NEW y \in Opened', Innermost(y)' PROVE Opened' \subseteq Enclosing(y)
    <3>1. y \in Opened /\ y # x /\ y \in Lived
        BY <2>1 DEF Opened, Lived, Active
    <3>2. y = parent[x]
      <4> SUFFICES ASSUME y # parent[x] PROVE FALSE
          OBVIOUS
      <4>1. Innermost(y)
        <5>1. ASSUME NEW z \in Scope, Active(z), parent[z] = y PROVE FALSE
          <6>1. z # x /\ z \in Trans
              BY <5>1 DEF Trans
          <6>2. Active(z)' /\ parent'[z] = y
              BY <1>2, <5>1, <6>1 DEF Active
          <6> QED
              BY <2>1, <6>2 DEF Innermost
        <5> QED
            BY <5>1 DEF Innermost
      <4>2. Seen
          BY AllSeen DEF NestedInv
      <4>3. Pos(y) < Pos(x) /\ Pos(x) < Pos(y) /\ Pos(y) \in Nat /\ Pos(x) \in Nat
          BY <1>1, <3>1, <4>1, <4>2 DEF Seen, LastOpen, Positions
      <4> QED
          BY <4>3
    <3>3. Opened \subseteq Enclosing(x) /\ Enclosing(x) = {x} \cup Enclosing(y)
        BY <1>1, <3>2, LivedAround DEF Rooted, NestedInv
    <3> QED
        BY <3>3
  <2> QED
      BY <1>3, <2>1 DEF Rooted
<1>6. ASSUME NEW w \in Write
      PROVE  Undone(w)' <=> Undone(w) \/ (how = "undone" /\ x \in Enclosing(into[w]))
  <2>1. Enclosing(into[w])' = Enclosing(into[w]) /\ Enclosing(into[w]) \subseteq Trans
      BY DEF Enclosing, Upward
  <2> QED
      BY <1>1, <1>2, <2>1 DEF Undone
<1>7. ASSUME NEW i \in 1..Len(log')
      PROVE  /\ into'[log'[i]] \in Lived'
             /\ \A y \in Opened' : From(y)' < i <=> y \in Enclosing(into[log[i]])'
  <2>1. i \in 1..Len(log) /\ log'[i] = log[i]
      BY <1>1
  <2>2. /\ into[log[i]] \in Lived
        /\ \A y \in Opened : From(y) < i <=> y \in Enclosing(into[log[i]])
      BY <1>4, <2>1 DEF Placed
  <2>3. Enclosing(into[log[i]])' = Enclosing(into[log[i]])
      BY <2>1 DEF Enclosing
  <2> QED
      BY <1>3, <2>1, <2>2, <2>3
<1>8. ASSUME NEW w \in Write, into[w] \in Lived PROVE w \in ToSet(log') <=> ~Undone(w)'
  <2>1. w \in ToSet(log) <=> ~Undone(w)
      BY <1>4, <1>8 DEF Placed
  <2>2. CASE how = "committed"
      BY <1>6, <2>1, <2>2
  <2>3. CASE how = "undone"
    <3>1. Len(log') = From(x)
        BY <2>3
    <3>2. \A i \in 1..Len(log) : From(x) < i <=> x \in Enclosing(into[log[i]])
        BY <1>1, <1>4 DEF Placed
    <3>3. ASSUME w \in ToSet(log') PROVE w \in ToSet(log) /\ x \notin Enclosing(into[w])
      <4>1. PICK i \in 1..Len(log') : w = log'[i]
          BY <1>1, <3>3 DEF ToSet
      <4>2. i \in 1..Len(log) /\ log[i] = w /\ ~(From(x) < i)
          BY <1>1, <3>1, <4>1
      <4> QED
          BY <1>1, <3>2, <4>2 DEF ToSet
    <3>4. ASSUME w \in ToSet(log), x \notin Enclosing(into[w]) PROVE w \in ToSet(log')
      <4>1. PICK i \in 1..Len(log) : w = log[i]
          BY <1>1, <3>4 DEF ToSet
      <4>2. ~(From(x) < i)
          BY <3>2, <3>4, <4>1
      <4>3. i \in 1..Len(log') /\ log'[i] = w
          BY <1>1, <3>1, <4>1, <4>2
      <4> QED
          BY <1>1, <4>3 DEF ToSet
    <3> QED
        BY <1>6, <2>1, <2>3, <3>3, <3>4
  <2> QED
      BY <2>2, <2>3
<1>9. Placed'
  <2>1. /\ into' \in [Write -> Trans \cup {NoScope}] /\ db' = {}
        /\ \A w \in Write : into'[w] # NoScope => into'[w] \in Lived'
      BY <1>3, <1>4 DEF Placed
  <2>2. \A w \in Write : into'[w] \in Lived' => (w \in ToSet(log') <=> ~Undone(w)')
      BY <1>3, <1>8
  <2> QED
      BY <1>3, <1>4, <1>7, <2>1, <2>2 DEF Placed
<1> QED
    BY <1>5, <1>9

\* What the top-level commit() persists is what is pending.
LEMMA RootScoped ==
  ASSUME Awaited, NestedInv, Rooted, Placed, CommitRoot \/ RollbackRoot, UNCHANGED dialect
  PROVE  Rooted' /\ Placed'
<1>1. Opened' = {} /\ UNCHANGED <<parent, into>> /\ InTransaction
    BY RootEnds DEF CommitRoot, RollbackRoot, MayEnd
<1>2. PICK how \in {"committed", "undone"} :
        /\ status' = [status EXCEPT ![Root] = how]
        /\ how = "committed" => CommitRoot
    BY DEF CommitRoot, RollbackRoot
<1>3. Root \in Trans /\ status'[Root] = how /\ \A y \in Trans \ {Root} : status'[y] = status[y]
    BY <1>2 DEF Trans, NestedInv, NestedTypeOK
<1>4. Lived' = Lived /\ ~InTransaction' /\ \A y : Enclosing(y)' = Enclosing(y)
    BY <1>1, <1>3 DEF Lived, InTransaction, Enclosing
<1>5. Rooted'
    BY <1>1, <1>4 DEF Rooted
<1>6. ASSUME how = "committed", NEW w \in Write, into[w] \in Lived PROVE w \in db' <=> ~Undone(w)'
  <2>1. db' = db \cup ToSet(log) /\ db = {}
      BY <1>1, <1>2, <1>6, RootEnds DEF CommitRoot, Placed
  <2>2. w \in ToSet(log) <=> ~Undone(w)
      BY <1>1, <1>6 DEF Placed
  <2>3. Enclosing(into[w])' = Enclosing(into[w]) /\ Enclosing(into[w]) \subseteq Trans
      BY <1>1 DEF Enclosing, Upward
  <2>4. Undone(w)' <=> Undone(w)
      BY <1>1, <1>3, <1>6, <2>3 DEF Undone, InTransaction
  <2> QED
      BY <2>1, <2>2, <2>4
<1>7. Placed'
  <2>1. /\ into' \in [Write -> Trans \cup {NoScope}]
        /\ \A w \in Write : into'[w] # NoScope => into'[w] \in Lived'
      BY <1>1, <1>4 DEF Placed
  <2> QED
      BY <1>1, <1>3, <1>4, <1>6, <2>1 DEF Placed
<1> QED
    BY <1>5, <1>7

LEMMA ScopingSteps ==
  ASSUME Awaited
  PROVE  NestedInv /\ Rooted /\ Placed /\ [Next]_vars => (Rooted /\ Placed)'
<1> SUFFICES ASSUME NestedInv, Rooted, Placed, [Next]_vars PROVE Rooted' /\ Placed'
    OBVIOUS
<1>1. CASE UNCHANGED vars
  <2>1. UNCHANGED <<status, parent, log, marks, into, db>>
      BY <1>1 DEF vars
  <2>2. /\ Lived' = Lived /\ Opened' = Opened /\ InTransaction' = InTransaction
        /\ \A y : /\ Enclosing(y)' = Enclosing(y) /\ (Innermost(y)' <=> Innermost(y))
                  /\ From(y)' = From(y)
      BY <2>1 DEF Lived, Opened, Active, InTransaction, Enclosing, Innermost, From, Mark
  <2>3. Rooted'
      BY <2>1, <2>2 DEF Rooted
  <2>4. \A w \in Write : Undone(w)' <=> Undone(w)
      BY <2>1 DEF Undone, Enclosing
  <2>5. \A i \in 1..Len(log) : Enclosing(into[log[i]])' = Enclosing(into[log[i]])
      BY <2>1 DEF Enclosing
  <2>6. Placed'
      BY <2>1, <2>2, <2>4, <2>5 DEF Placed
  <2> QED
      BY <2>3, <2>6
<1>2. ASSUME UNCHANGED dialect, NEW x \in Scope, NEW p \in Trans, Nest(x, p)
      PROVE  Rooted' /\ Placed'
    BY <1>2, NestScoped
<1>3. ASSUME UNCHANGED dialect, NEW w \in Write, NEW x \in Trans, Run(w, x)
      PROVE  Rooted' /\ Placed'
    BY <1>3, RunScoped
<1>4. ASSUME UNCHANGED dialect, NEW x \in Scope, CommitNested(x) \/ RollbackNested(x)
      PROVE  Rooted' /\ Placed'
  <2>1. x \in OpenedScopes /\ Innermost(x) /\ UNCHANGED <<parent, into, db>>
      BY <1>4, ScopeAssumption
         DEF CommitNested, RollbackNested, MayEnd, Awaited, Opened, OpenedScopes, Trans
  <2>2. Len(log) \in Nat
      BY DEF NestedInv, NestedTypeOK
  <2>3. CASE CommitNested(x)
    <3>1. /\ NestedInv' /\ status' = [status EXCEPT ![x] = "committed"] /\ log' = log
          /\ Opened' = Opened \ {x} /\ \A y \in Opened \ {x} : From(y)' = From(y)
        BY <1>4, <2>3, CommitHandsOver
    <3>2. Len(log') <= Len(log) /\ \A i \in 1..Len(log') : log'[i] = log[i]
        BY <2>2, <3>1
    <3> QED
        BY <2>1, <3>1, <3>2, EndScoped
  <2>4. CASE RollbackNested(x)
    <3>1. /\ NestedInv' /\ status' = [status EXCEPT ![x] = "undone"]
          /\ From(x) \in 0..Len(log) /\ Len(log') = From(x) /\ \A i \in 1..Len(log') : log'[i] = log[i]
          /\ Opened' = Opened \ {x} /\ \A y \in Opened \ {x} : From(y)' = From(y)
        BY <1>4, <2>4, RollbackForgets
    <3>2. Len(log') <= Len(log)
        BY <2>2, <3>1
    <3> QED
        BY <2>1, <3>1, <3>2, EndScoped
  <2> QED
      BY <1>4, <2>3, <2>4
<1>5. ASSUME UNCHANGED dialect, CommitRoot \/ RollbackRoot PROVE Rooted' /\ Placed'
    BY <1>5, RootScoped
<1> QED
    BY <1>1, <1>2, <1>3, <1>4, <1>5 DEF Next

\* A rollback undoes the writes of its own scope and no others: an accepted write is
\* pending, and persisted by commit() of the top-level transaction, exactly if no
\* transaction around it was rolled back.
THEOREM RollbacksAreScoped == ASSUME Awaited PROVE Spec => []ScopedUndo
<1>1. Init => NestedInv /\ Rooted /\ Placed
    BY NestedInitially, ScopingInitially
<1>2. NestedInv /\ Rooted /\ Placed /\ [Next]_vars => (NestedInv /\ Rooted /\ Placed)'
    BY NestedSteps, ScopingSteps
<1>3. NestedInv /\ Rooted /\ Placed => ScopedUndo
    BY DEF Placed, ScopedUndo
<1> QED
    BY <1>1, <1>2, <1>3, PTL DEF Spec
=============================================================================
