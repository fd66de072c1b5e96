-------------------------- MODULE MigrationsProofs --------------------------
(***************************************************************************)
(* Locked migration commands exclude each other, for any number of         *)
(* processes, migrations, statements and connections, whatever fails or    *)
(* dies and whichever connections lock and unlock run on; and where no     *)
(* ClientMigrator overlaps them, the migration table and the schema agree. *)
(***************************************************************************)
EXTENDS Migrations, TLAPS

\* The stages a command passes before its last phase is over.
InPhase == {"locking", "reading", "dropping", "beginning", "working",
            "hooking", "committing"}

\* A command under way has a phase left.
PhaseInv == \A p \in Proc : pc[p] \in InPhase => cmd[p].phases # <<>>

\* A locked command at work has the lock in one of its sessions.
LockInv ==
  \A p \in Proc : Exclusive(p) => \E c \in Connection : lock = <<p, c>>

\* One step of one process.
Step(p) ==
  \/ Migrate(p) \/ RollbackCommand(p) \/ Refresh(p) \/ ClientMigrate(p)
  \/ Continue(p) \/ Crash(p)

\* Every phase of a command is one of the three kinds.
LEMMA PhasesTyped ==
  /\ {<<"up">>, <<"down">>, <<"down", "up">>, <<"drop", "up">>}
       \subseteq Seq({"up", "down", "drop"})
  /\ <<>> \in Seq({"up", "down", "drop"})
OBVIOUS

LEMMA InitTyped == Init => TypeOK /\ PhaseInv /\ LockInv
<1> SUFFICES ASSUME Init PROVE TypeOK /\ PhaseInv /\ LockInv
  OBVIOUS
<1>1. db \subseteq Items
  <2>1. PICK m \in 0 .. FileCount : db = (1 .. m) \X (0 .. Steps)
    BY DEF Init
  <2>2. 1 .. m \subseteq File
    BY MigrationsAssumption DEF File
  <2>3. QED
    BY <2>1, <2>2 DEF Items
<1>2. NoCommand \in [cli : BOOLEAN, phases : Seq({"up", "down", "drop"}),
                     until : 0 .. FileCount, transactional : BOOLEAN]
  BY MigrationsAssumption, PhasesTyped DEF NoCommand
<1>3. NoTx \in [open : BOOLEAN, bound : BOOLEAN, over : BOOLEAN, conn : 0 .. PoolSize,
                add : SUBSET Items, del : SUBSET Items]
  BY MigrationsAssumption DEF NoTx
<1>4. TypeOK
  BY <1>1, <1>2, <1>3, MigrationsAssumption DEF Init, TypeOK, Stages
<1>5. PhaseInv
  BY DEF Init, PhaseInv, InPhase
<1>6. LockInv
  BY DEF Init, LockInv, Exclusive
<1>7. QED
  BY <1>4, <1>5, <1>6

LEMMA StartsTyped ==
  ASSUME TypeOK, PhaseInv, LockInv, NEW p \in Proc, NEW cli \in BOOLEAN,
         NEW phases \in Seq({"up", "down", "drop"}), phases # <<>>,
         NEW untils \in SUBSET (0 .. FileCount),
         Starts(p, cli, phases, untils)
  PROVE  TypeOK' /\ PhaseInv' /\ LockInv'
<1>1. PICK until \in untils, transactional \in BOOLEAN :
        cmd' = [cmd EXCEPT ![p] = [cli |-> cli, phases |-> phases, until |-> until,
                                   transactional |-> transactional]]
  BY DEF Starts
<1>2. cmd' \in [Proc -> [cli : BOOLEAN, phases : Seq({"up", "down", "drop"}),
                         until : 0 .. FileCount, transactional : BOOLEAN]]
  BY <1>1 DEF TypeOK
<1>3. pc' \in [Proc -> Stages]
  BY DEF Starts, Goto, TypeOK, Stages
<1>4. TypeOK'
  BY <1>2, <1>3 DEF Starts, TypeOK, Items
<1>5. PhaseInv'
  BY <1>1 DEF Starts, Goto, TypeOK, PhaseInv
<1>6. LockInv'
  BY <1>1 DEF Starts, Goto, TypeOK, LockInv, Exclusive, Connection
<1>7. QED
  BY <1>4, <1>5, <1>6

LEMMA PhaseEndsTyped ==
  ASSUME TypeOK, PhaseInv, NEW p \in Proc, pc[p] \in InPhase, PhaseEnds(p)
  PROVE  /\ cmd' \in [Proc -> [cli : BOOLEAN, phases : Seq({"up", "down", "drop"}),
                               until : 0 .. FileCount, transactional : BOOLEAN]]
         /\ pc' \in [Proc -> Stages]
         /\ PhaseInv'
         /\ \A q \in Proc : cmd'[q].cli = cmd[q].cli
<1>1. cmd[p].phases \in Seq({"up", "down", "drop"}) /\ cmd[p].phases # <<>>
  BY DEF TypeOK, PhaseInv
<1>2. Tail(cmd[p].phases) \in Seq({"up", "down", "drop"})
  BY <1>1
<1>4. cmd' = [cmd EXCEPT ![p] = [cmd[p] EXCEPT !.phases = Tail(cmd[p].phases)]]
  BY DEF PhaseEnds
<1>5. [cmd[p] EXCEPT !.phases = Tail(cmd[p].phases)]
        \in [cli : BOOLEAN, phases : Seq({"up", "down", "drop"}),
             until : 0 .. FileCount, transactional : BOOLEAN]
  BY <1>2 DEF TypeOK
<1>6. cmd' \in [Proc -> [cli : BOOLEAN, phases : Seq({"up", "down", "drop"}),
                         until : 0 .. FileCount, transactional : BOOLEAN]]
  BY <1>4, <1>5 DEF TypeOK
<1>7. pc' \in [Proc -> Stages]
  BY DEF PhaseEnds, Goto, TypeOK, Stages
<1>8. PhaseInv'
  BY <1>4 DEF PhaseEnds, Goto, TypeOK, PhaseInv, InPhase
<1>9. \A q \in Proc : cmd'[q].cli = cmd[q].cli
  BY <1>4 DEF TypeOK
<1>10. QED
  BY <1>6, <1>7, <1>8, <1>9

\* A step that neither enters nor leaves the exclusive part keeps the lock.
LEMMA LockKept ==
  ASSUME TypeOK, LockInv, NEW p \in Proc,
         pc[p] \notin {"idle", "locking", "closing", "done", "dead"},
         \A q \in Proc : cmd'[q].cli = cmd[q].cli,
         \A q \in Proc \ {p} : pc'[q] = pc[q],
         lock' = lock
  PROVE  LockInv'
BY DEF LockInv, Exclusive, Connection

\* Write and WriteSchema change items, and nothing but items.
LEMMA WriteTyped ==
  ASSUME TypeOK, NEW p \in Proc, NEW item \in Items,
         Write(p, item) \/ WriteSchema(p, item)
  PROVE  /\ db' \subseteq Items
         /\ tx' \in [Proc -> [open : BOOLEAN, bound : BOOLEAN, over : BOOLEAN,
                              conn : 0 .. PoolSize, add : SUBSET Items, del : SUBSET Items]]
<1> DEFINE Tx == [open : BOOLEAN, bound : BOOLEAN, over : BOOLEAN, conn : 0 .. PoolSize,
                  add : SUBSET Items, del : SUBSET Items]
<1>1. tx[p] \in Tx /\ tx \in [Proc -> Tx]
  BY DEF TypeOK
<1>2. View(p) \subseteq Items
  BY <1>1 DEF View, TypeOK
<1>3. ASSUME Write(p, item) PROVE db' \subseteq Items /\ tx' \in [Proc -> Tx]
  <2>1. CASE tx[p].bound /\ ~tx[p].over
    <3>1. [tx[p] EXCEPT !.add = tx[p].add \cup {item}, !.del = tx[p].del \ {item}] \in Tx
      BY <1>1
    <3>2. [tx[p] EXCEPT !.del = tx[p].del \cup {item}, !.add = tx[p].add \ {item}] \in Tx
      BY <1>1
    <3>3. CASE Direction(p) = "up"
      <4>1. tx' = [tx EXCEPT ![p] = [tx[p] EXCEPT !.add = tx[p].add \cup {item},
                                                   !.del = tx[p].del \ {item}]]
        BY <1>1, <1>3, <2>1, <3>3 DEF Write
      <4>2. QED
        BY <1>1, <1>3, <2>1, <3>1, <4>1 DEF Write, TypeOK
    <3>4. CASE Direction(p) # "up"
      <4>1. tx' = [tx EXCEPT ![p] = [tx[p] EXCEPT !.del = tx[p].del \cup {item},
                                                   !.add = tx[p].add \ {item}]]
        BY <1>1, <1>3, <2>1, <3>4 DEF Write
      <4>2. QED
        BY <1>1, <1>3, <2>1, <3>2, <4>1 DEF Write, TypeOK
    <3>5. QED
      BY <3>3, <3>4
  <2>2. CASE ~(tx[p].bound /\ ~tx[p].over)
    BY <1>1, <1>3, <2>2 DEF Write, TypeOK
  <2>3. QED
    BY <2>1, <2>2
<1>4. ASSUME WriteSchema(p, item) PROVE db' \subseteq Items /\ tx' \in [Proc -> Tx]
  <2>1. CASE tx[p].bound /\ dialect = "mysql"
    <3>1. [tx[p] EXCEPT !.over = TRUE, !.add = {}, !.del = {}] \in Tx
      BY <1>1
    <3>2. tx' = [tx EXCEPT ![p] = [tx[p] EXCEPT !.over = TRUE, !.add = {}, !.del = {}]]
      BY <1>1, <1>4, <2>1 DEF WriteSchema
    <3>3. db' \subseteq Items
      BY <1>2, <1>4, <2>1 DEF WriteSchema
    <3>4. QED
      BY <1>1, <3>1, <3>2, <3>3
  <2>2. CASE ~(tx[p].bound /\ dialect = "mysql")
    BY <1>3, <1>4, <2>2 DEF WriteSchema
  <2>3. QED
    BY <2>1, <2>2
<1>5. QED
  BY <1>3, <1>4

\* An error only moves the process and marks its migration.
LEMMA ThrowTyped ==
  ASSUME TypeOK, PhaseInv, NEW p \in Proc, Throw(p), cmd' = cmd
  PROVE  pc' \in [Proc -> Stages] /\ cut' \subseteq File /\ PhaseInv'
<1>1. At(p) \subseteq File
  BY DEF At, TypeOK
<1>2. QED
  BY <1>1 DEF Throw, Goto, TypeOK, Stages, PhaseInv, InPhase

\* What a finished command leaves of its variables.
LEMMA ForgetTyped ==
  ASSUME TypeOK, NEW p \in Proc, Forget(p)
  PROVE  /\ cmd' \in [Proc -> [cli : BOOLEAN, phases : Seq({"up", "down", "drop"}),
                               until : 0 .. FileCount, transactional : BOOLEAN]]
         /\ todo' \in [Proc -> SUBSET File]
         /\ step' \in [Proc -> 0 .. Steps]
         /\ before' \in [Proc -> SUBSET Items]
         /\ tx' \in [Proc -> [open : BOOLEAN, bound : BOOLEAN, over : BOOLEAN,
                              conn : 0 .. PoolSize, add : SUBSET Items, del : SUBSET Items]]
         /\ \A q \in Proc \ {p} : cmd'[q] = cmd[q]
<1>1. NoCommand \in [cli : BOOLEAN, phases : Seq({"up", "down", "drop"}),
                     until : 0 .. FileCount, transactional : BOOLEAN]
  BY MigrationsAssumption, PhasesTyped DEF NoCommand
<1>2. NoTx \in [open : BOOLEAN, bound : BOOLEAN, over : BOOLEAN, conn : 0 .. PoolSize,
                add : SUBSET Items, del : SUBSET Items]
  BY MigrationsAssumption DEF NoTx
<1>3. QED
  BY <1>1, <1>2, MigrationsAssumption DEF Forget, TypeOK

LEMMA StepPreserves ==
  ASSUME TypeOK, PhaseInv, LockInv, NEW p \in Proc, Step(p)
  PROVE  TypeOK' /\ PhaseInv' /\ LockInv'
<1>1. CASE Migrate(p) \/ RollbackCommand(p)
  BY <1>1, StartsTyped, PhasesTyped DEF Migrate, RollbackCommand
<1>2. CASE Refresh(p)
  <2>1. {0} \subseteq 0 .. FileCount
    BY MigrationsAssumption
  <2>2. QED
    BY <1>2, <2>1, StartsTyped, PhasesTyped DEF Refresh
<1>3. CASE ClientMigrate(p)
  <2>1. {0} \subseteq 0 .. FileCount
    BY MigrationsAssumption
  <2>2. PICK direction \in {"up", "down"} : Starts(p, FALSE, <<direction>>, {0})
    BY <1>3 DEF ClientMigrate
  <2>3. <<direction>> \in Seq({"up", "down", "drop"}) /\ <<direction>> # <<>>
    OBVIOUS
  <2>4. QED
    BY <2>1, <2>2, <2>3, StartsTyped
<1>4. CASE Lock(p)
  <2>1. TypeOK'
    <3>1. lock' \in (Proc \X Connection) \cup {NoLock}
      BY <1>4 DEF Lock, TypeOK
    <3>2. pc' \in [Proc -> Stages]
      BY <1>4 DEF Lock, Goto, TypeOK, Stages
    <3>3. UNCHANGED <<dialect, db, cmd, todo, step, tx, stray, before, cut>>
      BY <1>4 DEF Lock
    <3>4. QED
      BY <3>1, <3>2, <3>3 DEF TypeOK
  <2>2. PhaseInv'
    BY <1>4 DEF Lock, Goto, TypeOK, PhaseInv, InPhase
  <2>3. LockInv'
    <3>1. CASE lock = NoLock /\ \E c \in Connection : lock' = <<p, c>>
      <4>1. \A q \in Proc : ~Exclusive(q)
        BY <3>1, MigrationsAssumption DEF LockInv, Connection
      <4>2. QED
        BY <1>4, <3>1, <4>1 DEF Lock, Goto, TypeOK, LockInv, Exclusive
    <3>2. CASE lock' = lock /\ Goto(p, "closing")
      BY <1>4, <3>2 DEF Lock, Goto, TypeOK, LockInv, Exclusive
    <3>3. QED
      BY <1>4, <3>1, <3>2 DEF Lock
  <2>4. QED
    BY <2>1, <2>2, <2>3
<1>5. CASE Read(p)
  <2>1. Plan(p) \subseteq File
    BY DEF Plan, Rows
  <2>2. CASE PhaseEnds(p) /\ UNCHANGED <<todo, step, before, cut>>
    <3>1. pc[p] \in InPhase
      BY <1>5 DEF Read, InPhase
    <3>2. TypeOK' /\ PhaseInv'
      BY <1>5, <2>2, <3>1, PhaseEndsTyped DEF Read, TypeOK
    <3>3. \A q \in Proc : cmd'[q].cli = cmd[q].cli
      BY <2>2, <3>1, PhaseEndsTyped
    <3>4. LockInv'
      BY <1>5, <2>2, <3>3, LockKept DEF Read, PhaseEnds, Goto, TypeOK
    <3>5. QED
      BY <3>2, <3>4
  <2>3. CASE /\ todo' = [todo EXCEPT ![p] = Plan(p)]
             /\ step' = [step EXCEPT ![p] = 0]
             /\ before' = [before EXCEPT ![p] = db]
             /\ Goto(p, IF cmd[p].transactional THEN "beginning" ELSE "working")
             /\ UNCHANGED <<cmd, cut>>
    <3>1. TypeOK'
      BY <1>5, <2>1, <2>3, MigrationsAssumption DEF Read, Goto, TypeOK, Stages
    <3>2. PhaseInv'
      BY <1>5, <2>3 DEF Read, Goto, TypeOK, PhaseInv, InPhase
    <3>3. LockInv'
      BY <1>5, <2>3, LockKept DEF Read, Goto, TypeOK
    <3>4. QED
      BY <3>1, <3>2, <3>3
  <2>4. CASE Throw(p) /\ UNCHANGED <<cmd, todo, step, before>>
    <3>1. TypeOK' /\ PhaseInv'
      BY <1>5, <2>4, ThrowTyped DEF Read, TypeOK
    <3>2. LockInv'
      BY <1>5, <2>4, LockKept DEF Read, Throw, Goto, TypeOK
    <3>3. QED
      BY <3>1, <3>2
  <2>5. QED
    BY <1>5, <2>2, <2>3, <2>4 DEF Read
<1>6. CASE List(p)
  <2>1. TypeOK'
    BY <1>6 DEF List, Goto, TypeOK, Stages
  <2>2. PhaseInv'
    BY <1>6 DEF List, Goto, TypeOK, PhaseInv, InPhase
  <2>3. LockInv'
    BY <1>6, LockKept DEF List, Goto, TypeOK
  <2>4. QED
    BY <2>1, <2>2, <2>3
<1>7. CASE Drop(p)
  <2>1. CASE Throw(p) /\ UNCHANGED <<db, cmd>>
    <3>1. TypeOK' /\ PhaseInv'
      BY <1>7, <2>1, ThrowTyped DEF Drop, TypeOK
    <3>2. LockInv'
      BY <1>7, <2>1, LockKept DEF Drop, Throw, Goto, TypeOK
    <3>3. QED
      BY <3>1, <3>2
  <2>2. CASE /\ db' = {i \in db : i[2] # 0 /\ i \notin before[p]}
             /\ PhaseEnds(p)
             /\ UNCHANGED cut
    <3>1. pc[p] \in InPhase
      BY <1>7 DEF Drop, InPhase
    <3>2. TypeOK' /\ PhaseInv'
      BY <1>7, <2>2, <3>1, PhaseEndsTyped DEF Drop, TypeOK
    <3>3. \A q \in Proc : cmd'[q].cli = cmd[q].cli
      BY <2>2, <3>1, PhaseEndsTyped
    <3>4. LockInv'
      BY <1>7, <2>2, <3>3, LockKept DEF Drop, PhaseEnds, Goto, TypeOK
    <3>5. QED
      BY <3>2, <3>4
  <2>3. QED
    BY <1>7, <2>1, <2>2 DEF Drop
<1>8. CASE Begin(p)
  <2>1. CASE Throw(p) /\ UNCHANGED tx
    <3>1. TypeOK' /\ PhaseInv'
      BY <1>8, <2>1, ThrowTyped DEF Begin, TypeOK
    <3>2. LockInv'
      BY <1>8, <2>1, LockKept DEF Begin, Throw, Goto, TypeOK
    <3>3. QED
      BY <3>1, <3>2
  <2>2. ASSUME NEW c \in Connection, NEW bound \in BOOLEAN,
               tx' = [tx EXCEPT ![p] = [NoTx EXCEPT !.open = TRUE, !.conn = c,
                                          !.bound = bound]],
               Goto(p, "working"), UNCHANGED <<stray, cut>>
        PROVE  TypeOK' /\ PhaseInv' /\ LockInv'
    <3>1. [NoTx EXCEPT !.open = TRUE, !.conn = c, !.bound = bound]
            \in [open : BOOLEAN, bound : BOOLEAN, over : BOOLEAN,
                 conn : 0 .. PoolSize, add : SUBSET Items, del : SUBSET Items]
      <4>1. c \in 0 .. PoolSize /\ 0 \in 0 .. PoolSize
        BY MigrationsAssumption DEF Connection
      <4>2. QED
        BY <4>1 DEF NoTx
    <3>2. TypeOK'
      BY <1>8, <2>2, <3>1 DEF Begin, Goto, TypeOK, Stages
    <3>3. PhaseInv'
      BY <1>8, <2>2 DEF Begin, Goto, TypeOK, PhaseInv, InPhase
    <3>4. LockInv'
      BY <1>8, <2>2, LockKept DEF Begin, Goto, TypeOK
    <3>5. QED
      BY <3>2, <3>3, <3>4
  <2>3. QED
    BY <1>8, <2>1, <2>2 DEF Begin
<1>9. CASE Statement(p)
  <2>1. CASE Throw(p) /\ UNCHANGED <<db, tx, step>>
    <3>1. TypeOK' /\ PhaseInv'
      BY <1>9, <2>1, ThrowTyped DEF Statement, TypeOK
    <3>2. LockInv'
      BY <1>9, <2>1, LockKept DEF Statement, Throw, Goto, TypeOK
    <3>3. QED
      BY <3>1, <3>2
  <2>2. ASSUME NEW m \in At(p), WriteSchema(p, NextItem(p, m)),
               step' = [step EXCEPT ![p] = @ + 1], UNCHANGED <<pc, cut>>
        PROVE  TypeOK' /\ PhaseInv' /\ LockInv'
    <3>1. NextItem(p, m) \in Items
      <4>1. m \in File
        BY DEF At, TypeOK
      <4>2. step[p] \in 0 .. Steps /\ step[p] < Steps
        BY <1>9 DEF Statement, TypeOK
      <4>3. QED
        BY <4>1, <4>2, MigrationsAssumption DEF NextItem, Items
    <3>2. step' \in [Proc -> 0 .. Steps]
      BY <1>9, <2>2, MigrationsAssumption DEF Statement, TypeOK
    <3>3. TypeOK'
      BY <1>9, <2>2, <3>1, <3>2, WriteTyped DEF Statement, TypeOK
    <3>4. PhaseInv'
      BY <1>9, <2>2 DEF Statement, PhaseInv
    <3>5. LockInv'
      BY <1>9, <2>2 DEF Statement, LockInv, Exclusive, Connection
    <3>6. QED
      BY <3>3, <3>4, <3>5
  <2>3. QED
    BY <1>9, <2>1, <2>2 DEF Statement
<1>10. CASE Record(p)
  <2>1. CASE Throw(p) /\ UNCHANGED <<db, tx>>
    <3>1. TypeOK' /\ PhaseInv'
      BY <1>10, <2>1, ThrowTyped DEF Record, TypeOK
    <3>2. LockInv'
      BY <1>10, <2>1, LockKept DEF Record, Throw, Goto, TypeOK
    <3>3. QED
      BY <3>1, <3>2
  <2>2. ASSUME NEW m \in At(p), Write(p, <<m, 0>>), Goto(p, "hooking"), UNCHANGED cut
        PROVE  TypeOK' /\ PhaseInv' /\ LockInv'
    <3>1. <<m, 0>> \in Items
      BY MigrationsAssumption DEF At, TypeOK, Items
    <3>2. pc' \in [Proc -> Stages]
      BY <2>2 DEF Goto, TypeOK, Stages
    <3>3. TypeOK'
      <4>1. /\ db' \subseteq Items
            /\ tx' \in [Proc -> [open : BOOLEAN, bound : BOOLEAN, over : BOOLEAN,
                                 conn : 0 .. PoolSize, add : SUBSET Items, del : SUBSET Items]]
        BY <2>2, <3>1, WriteTyped
      <4>2. QED
        BY <1>10, <2>2, <3>2, <4>1 DEF Record, TypeOK
    <3>4. PhaseInv'
      BY <1>10, <2>2 DEF Record, Goto, TypeOK, PhaseInv, InPhase
    <3>5. LockInv'
      BY <1>10, <2>2, LockKept DEF Record, Goto, TypeOK
    <3>6. QED
      BY <3>3, <3>4, <3>5
  <2>3. QED
    BY <1>10, <2>1, <2>2 DEF Record
<1>11. CASE Hook(p)
  <2>1. CASE Throw(p) /\ UNCHANGED <<cmd, todo, step>>
    <3>1. TypeOK' /\ PhaseInv'
      BY <1>11, <2>1, ThrowTyped DEF Hook, TypeOK
    <3>2. LockInv'
      BY <1>11, <2>1, LockKept DEF Hook, Throw, Goto, TypeOK
    <3>3. QED
      BY <3>1, <3>2
  <2>2. CASE /\ todo' = [todo EXCEPT ![p] = @ \ At(p)]
             /\ step' = [step EXCEPT ![p] = 0]
             /\ UNCHANGED cut
             /\ \/ Goto(p, "working") /\ UNCHANGED cmd
                \/ Goto(p, "committing") /\ UNCHANGED cmd
                \/ PhaseEnds(p)
    <3>1. todo' \in [Proc -> SUBSET File] /\ step' \in [Proc -> 0 .. Steps]
      BY <2>2, MigrationsAssumption DEF TypeOK
    <3>2. CASE (Goto(p, "working") \/ Goto(p, "committing")) /\ UNCHANGED cmd
      <4>1. TypeOK'
        BY <1>11, <2>2, <3>1, <3>2 DEF Hook, Goto, TypeOK, Stages
      <4>2. PhaseInv'
        BY <1>11, <3>2 DEF Hook, Goto, TypeOK, PhaseInv, InPhase
      <4>3. LockInv'
        BY <1>11, <3>2, LockKept DEF Hook, Goto, TypeOK
      <4>4. QED
        BY <4>1, <4>2, <4>3
    <3>3. CASE PhaseEnds(p)
      <4>1. pc[p] \in InPhase
        BY <1>11 DEF Hook, InPhase
      <4>2. TypeOK' /\ PhaseInv'
        BY <1>11, <2>2, <3>1, <3>3, <4>1, PhaseEndsTyped DEF Hook, TypeOK
      <4>3. \A q \in Proc : cmd'[q].cli = cmd[q].cli
        BY <3>3, <4>1, PhaseEndsTyped
      <4>4. LockInv'
        BY <1>11, <3>3, <4>3, LockKept DEF Hook, PhaseEnds, Goto, TypeOK
      <4>5. QED
        BY <4>2, <4>4
    <3>4. QED
      BY <2>2, <3>2, <3>3
  <2>3. QED
    BY <1>11, <2>1, <2>2 DEF Hook
<1>12. CASE Commit(p)
  <2> DEFINE Tx == [open : BOOLEAN, bound : BOOLEAN, over : BOOLEAN, conn : 0 .. PoolSize,
                    add : SUBSET Items, del : SUBSET Items]
  <2>1. tx' \in [Proc -> Tx]
    <3>1. tx \in [Proc -> Tx] /\ tx[p] \in Tx
      BY DEF TypeOK
    <3>2. NoTx \in Tx
      BY MigrationsAssumption DEF NoTx
    <3>3. QED
      BY <1>12, <3>1, <3>2 DEF Commit
  <2>2. View(p) \subseteq Items
    BY DEF View, TypeOK
  <2>3. CASE Throw(p) /\ UNCHANGED <<db, cmd>>
    <3>1. TypeOK' /\ PhaseInv'
      BY <1>12, <2>1, <2>3, ThrowTyped DEF Commit, TypeOK
    <3>2. LockInv'
      BY <1>12, <2>3, LockKept DEF Commit, Throw, Goto, TypeOK
    <3>3. QED
      BY <3>1, <3>2
  <2>4. CASE db' = View(p) /\ PhaseEnds(p) /\ UNCHANGED cut
    <3>1. pc[p] \in InPhase
      BY <1>12 DEF Commit, InPhase
    <3>2. TypeOK' /\ PhaseInv'
      BY <1>12, <2>1, <2>2, <2>4, <3>1, PhaseEndsTyped DEF Commit, TypeOK
    <3>3. \A q \in Proc : cmd'[q].cli = cmd[q].cli
      BY <2>4, <3>1, PhaseEndsTyped
    <3>4. LockInv'
      BY <1>12, <2>4, <3>3, LockKept DEF Commit, PhaseEnds, Goto, TypeOK
    <3>5. QED
      BY <3>2, <3>4
  <2>5. QED
    BY <1>12, <2>3, <2>4 DEF Commit
<1>13. CASE Rollback(p)
  <2>1. TypeOK'
    <3>1. NoTx \in [open : BOOLEAN, bound : BOOLEAN, over : BOOLEAN, conn : 0 .. PoolSize,
                    add : SUBSET Items, del : SUBSET Items]
      BY MigrationsAssumption DEF NoTx
    <3>2. QED
      BY <1>13, <3>1 DEF Rollback, Goto, TypeOK, Stages
  <2>2. PhaseInv'
    BY <1>13 DEF Rollback, Goto, TypeOK, PhaseInv, InPhase
  <2>3. LockInv'
    BY <1>13, LockKept DEF Rollback, Goto, TypeOK
  <2>4. QED
    BY <2>1, <2>2, <2>3
<1>14. CASE Unlock(p)
  <2>1. lock' \in {lock, NoLock}
    BY <1>14 DEF Unlock
  <2>2. pc' \in [Proc -> Stages]
    BY <1>14 DEF Unlock, Goto, TypeOK, Stages
  <2>3. TypeOK'
    BY <1>14, <2>1, <2>2, ForgetTyped DEF Unlock, TypeOK
  <2>4. PhaseInv'
    BY <1>14, ForgetTyped DEF Unlock, Goto, TypeOK, PhaseInv, InPhase
  <2>5. LockInv'
    <3>1. SUFFICES ASSUME NEW q \in Proc, Exclusive(q)'
                   PROVE  \E c \in Connection : lock' = <<q, c>>
      BY DEF LockInv, Connection
    <3>2. q # p
      BY <1>14, <3>1 DEF Unlock, Goto, Exclusive, TypeOK
    <3>3. Exclusive(q)
      BY <1>14, <3>1, <3>2, ForgetTyped DEF Unlock, Goto, Exclusive, TypeOK
    <3>4. PICK c \in Connection : lock = <<q, c>>
      BY <3>3 DEF LockInv
    <3>5. \A d \in Connection : lock # <<p, d>>
      BY <3>2, <3>4
    <3>6. lock' = lock
      BY <1>14, <3>5 DEF Unlock
    <3>7. QED
      BY <3>4, <3>6
  <2>6. QED
    BY <2>3, <2>4, <2>5
<1>15. CASE Close(p) \/ Crash(p)
  <2>1. lock' \in {lock, NoLock} /\ lock' \in {lock, Freed(p)}
    BY <1>15 DEF Close, Crash, Freed
  <2>2. pc' \in [Proc -> Stages]
    BY <1>15 DEF Close, Crash, Goto, TypeOK, Stages
  <2>3. cut' \subseteq File
    BY <1>15 DEF Close, Crash, At, TypeOK
  <2>4. TypeOK'
    <3>1. CASE Close(p)
      BY <2>1, <2>2, <3>1 DEF Close, TypeOK
    <3>2. CASE Crash(p)
      BY <2>1, <2>2, <2>3, <3>2, ForgetTyped DEF Crash, TypeOK
    <3>3. QED
      BY <1>15, <3>1, <3>2
  <2>5. PhaseInv'
    <3>1. CASE Close(p)
      BY <3>1 DEF Close, Goto, TypeOK, PhaseInv, InPhase
    <3>2. CASE Crash(p)
      BY <3>2, ForgetTyped DEF Crash, Goto, TypeOK, PhaseInv, InPhase
    <3>3. QED
      BY <1>15, <3>1, <3>2
  <2>6. LockInv'
    <3>1. SUFFICES ASSUME NEW q \in Proc, Exclusive(q)'
                   PROVE  \E c \in Connection : lock' = <<q, c>>
      BY DEF LockInv, Connection
    <3>2. q # p
      BY <1>15, <3>1 DEF Close, Crash, Goto, Exclusive, TypeOK
    <3>3. Exclusive(q)
      BY <1>15, <3>1, <3>2, ForgetTyped DEF Close, Crash, Goto, Exclusive, TypeOK
    <3>4. PICK c \in Connection : lock = <<q, c>>
      BY <3>3 DEF LockInv
    <3>5. ~\E d \in Connection : lock = <<p, d>>
      BY <3>2, <3>4
    <3>6. lock' = lock
      BY <2>1, <3>5 DEF Freed
    <3>7. QED
      BY <3>4, <3>6
  <2>7. QED
    BY <2>4, <2>5, <2>6
<1>16. QED
  BY <1>1, <1>2, <1>3, <1>4, <1>5, <1>6, <1>7, <1>8, <1>9, <1>10, <1>11, <1>12,
     <1>13, <1>14, <1>15 DEF Step, Continue

-----------------------------------------------------------------------------
LEMMA Inductive == TypeOK /\ PhaseInv /\ LockInv /\ [Next]_vars
                     => TypeOK' /\ PhaseInv' /\ LockInv'
<1> SUFFICES ASSUME TypeOK, PhaseInv, LockInv, [Next]_vars
             PROVE  TypeOK' /\ PhaseInv' /\ LockInv'
  OBVIOUS
<1>1. CASE Next
  <2>1. PICK p \in Proc : Step(p)
    BY <1>1 DEF Next, Step
  <2>2. QED
    BY <2>1, StepPreserves
<1>2. CASE UNCHANGED vars
  BY <1>2 DEF vars, TypeOK, PhaseInv, LockInv, Exclusive, Items, Connection, View
<1>3. QED
  BY <1>1, <1>2

\* A command at work holds the advisory lock in a session of its own, whatever
\* fails, and the variables keep their shape.
THEOREM LockInvariant == Spec => [](TypeOK /\ PhaseInv /\ LockInv)
<1>1. QED
  BY InitTyped, Inductive, PTL DEF Spec

\* No two commands of the CLI are at work at once.
THEOREM MutualExclusion == Spec => []OneAtATime
<1>1. LockInv => OneAtATime
  <2>1. SUFFICES ASSUME LockInv, NEW p \in Proc, NEW q \in Proc,
                        Exclusive(p), Exclusive(q)
                 PROVE  p = q
    BY DEF OneAtATime
  <2>2. PICK c \in Connection : lock = <<p, c>>
    BY <2>1 DEF LockInv
  <2>3. PICK d \in Connection : lock = <<q, d>>
    BY <2>1 DEF LockInv
  <2>4. QED
    BY <2>2, <2>3
<1>2. QED
  BY <1>1, LockInvariant, PTL

-----------------------------------------------------------------------------
(***************************************************************************)
(* The books.  Where no ClientMigrator runs beside another process, one    *)
(* process at most is at work, so what it has read, what it has begun and  *)
(* what it has left are about the database as it is.                       *)
(***************************************************************************)

\* At work: between the lock statements of a command, or in a ClientMigrator.
AtWork(p) == pc[p] \notin {"idle", "locking", "closing", "done", "dead"}

\* A ClientMigrator is alone.
ClientAlone ==
  \A p, q \in Proc : ~Over(p) /\ ~cmd[p].cli /\ ~Over(q) => p = q

\* What a process that is not at work has.
Quiet(p) == todo[p] = {} /\ tx[p] = NoTx

Migrating == {"beginning", "working", "hooking"}

Prepared(p) ==
  /\ pc[p] \in Migrating => Direction(p) \in {"up", "down"}
  /\ pc[p] \in {"reading", "dropping", "committing"} => todo[p] = {}
  /\ pc[p] = "dropping" => before[p] = db

\* The transaction of p holds writes that are not in the database.
Held(p) == tx[p].bound /\ ~tx[p].over

\* A transaction is open around the migrations only, and holds writes only if the
\* Migrator is bound to it and the server has not committed it.
TxShape(p) ==
  /\ ~tx[p].open => tx[p] = NoTx
  /\ tx[p].open => /\ pc[p] \in {"working", "hooking", "committing", "rollingback"}
                   /\ tx[p].bound <=> cmd[p].until # 0
  /\ pc[p] \in {"committing", "rollingback"} => tx[p].open
  /\ ~Held(p) => tx[p].add = {} /\ tx[p].del = {}
  /\ dialect = "postgres" => ~tx[p].over

\* The migrations with a row in items are the first m.
RowsTo(items, m) == Rows(items) = 1 .. m

Prefix(items) == \E m \in 0 .. FileCount : RowsTo(items, m)

\* The migrations left are those next to the recorded ones.
Ahead(p, m, n) ==
  IF Direction(p) = "up" THEN m < n /\ todo[p] = (m + 1) .. n
                         ELSE 0 < n /\ n <= m /\ todo[p] = n .. m

\* The same once the first of them is recorded, or its row deleted.
Behind(p, m, n) ==
  IF Direction(p) = "up"
    THEN 0 < m /\ m <= n /\ todo[p] = m .. n
    ELSE m < FileCount /\ 0 < n /\ n <= m + 1 /\ todo[p] = n .. (m + 1)

Spans(p) ==
  /\ pc[p] \in {"beginning", "working"} =>
       \E m, n \in 0 .. FileCount : RowsTo(View(p), m) /\ Ahead(p, m, n)
  /\ pc[p] = "hooking" =>
       \E m, n \in 0 .. FileCount : RowsTo(View(p), m) /\ Behind(p, m, n)
  /\ pc[p] = "committing" => Prefix(View(p))

Full(items, m) == \A i \in 0 .. Steps : <<m, i>> \in items
None(items, m) == \A i \in 0 .. Steps : <<m, i>> \notin items

\* Row and statements agree for every migration but those in but.
Agree(items, but) == \A m \in File \ but : Full(items, m) \/ None(items, m)

Books(p) ==
  /\ pc[p] \notin {"working", "hooking", "committing"} => Agree(db, cut)
  /\ pc[p] \in {"working", "hooking"} => Agree(View(p), cut \cup At(p))
  /\ pc[p] = "committing" => Agree(View(p), cut)
  /\ Held(p) => Agree(db, cut)

\* The items of a migration that ran k statements of a run, or of a rollback.
Ran(items, m, up, k) ==
  \A i \in 0 .. Steps :
    <<m, i>> \in items <=> IF up THEN 0 < i /\ i <= k ELSE i <= Steps - k

Progress(p) ==
  \A m \in At(p) \ cut :
    /\ pc[p] \in {"beginning", "working"} =>
         Ran(View(p), m, Direction(p) = "up", step[p])
    /\ pc[p] = "hooking" => IF Direction(p) = "up" THEN Full(View(p), m)
                                                   ELSE None(View(p), m)

\* A named run on postgres has written nothing that a rollback would not undo.
Pending(p) ==
  dialect = "postgres" /\ cmd[p].until # 0 /\ (pc[p] = "beginning" \/ tx[p].open)
    => db = before[p]

Work(p) == Prepared(p) /\ TxShape(p) /\ Spans(p) /\ Books(p) /\ Progress(p) /\ Pending(p)

BooksInv ==
  /\ ClientAlone
  /\ Prefix(db)
  /\ \A p \in Proc : IF AtWork(p) THEN Work(p) ELSE Quiet(p)
  /\ (\A p \in Proc : ~AtWork(p)) => Agree(db, cut)

LEMMA Alone ==
  ASSUME LockInv, ClientAlone, NEW p \in Proc, NEW q \in Proc, AtWork(p), AtWork(q)
  PROVE  p = q
<1>1. CASE cmd[p].cli /\ cmd[q].cli
  <2>1. PICK c \in Connection : lock = <<p, c>>
    BY <1>1 DEF LockInv, Exclusive, AtWork
  <2>2. PICK d \in Connection : lock = <<q, d>>
    BY <1>1 DEF LockInv, Exclusive, AtWork
  <2>3. QED
    BY <2>1, <2>2
<1>2. CASE ~(cmd[p].cli /\ cmd[q].cli)
  BY <1>2 DEF ClientAlone, AtWork, Over
<1>3. QED
  BY <1>1, <1>2

\* A phase that begins is one of the three kinds.
LEMMA DirectionTyped ==
  ASSUME TypeOK, PhaseInv, NEW p \in Proc, pc[p] \in InPhase
  PROVE  Direction(p) \in {"up", "down", "drop"}
BY DEF TypeOK, PhaseInv, Direction

\* A migration the books are right about is in the database or not as its row is.
LEMMA RowTells ==
  ASSUME NEW items, NEW but, Agree(items, but), NEW m \in File, m \notin but
  PROVE  IF m \in Rows(items) THEN Full(items, m) ELSE None(items, m)
<1>1. 0 \in 0 .. Steps
  BY MigrationsAssumption
<1>2. QED
  BY <1>1 DEF Agree, Full, None, Rows

\* The first of the migrations a run has left, the last of those a rollback has.
LEMMA Nearest ==
  ASSUME NEW up \in BOOLEAN, NEW left, NEW m \in 0 .. FileCount, NEW n \in 0 .. FileCount,
         IF up THEN m < n /\ left = (m + 1) .. n ELSE 0 < n /\ n <= m /\ left = n .. m
  PROVE  LET k == IF up THEN m + 1 ELSE m
         IN /\ {l \in left : \A r \in left : IF up THEN l <= r ELSE r <= l} = {k}
            /\ k \in File
<1>1. CASE up
  <2>1. {l \in (m + 1) .. n : \A r \in (m + 1) .. n : l <= r} = {m + 1}
    BY <1>1, MigrationsAssumption
  <2>2. QED
    BY <1>1, <2>1, MigrationsAssumption DEF File
<1>2. CASE ~up
  <2>1. {l \in n .. m : \A r \in n .. m : r <= l} = {m}
    BY <1>2, MigrationsAssumption
  <2>2. QED
    BY <1>2, <2>1, MigrationsAssumption DEF File
<1>3. QED
  BY <1>1, <1>2

\* The migration a process is at is the one next to the recorded ones.
LEMMA AtAhead ==
  ASSUME NEW p \in Proc, Direction(p) \in {"up", "down"}, NEW m \in 0 .. FileCount,
         NEW n \in 0 .. FileCount, Ahead(p, m, n)
  PROVE  /\ At(p) = {IF Direction(p) = "up" THEN m + 1 ELSE m}
         /\ At(p) \subseteq File
<1> DEFINE up == Direction(p) = "up"
           left == todo[p]
<1>1. IF up THEN m < n /\ left = (m + 1) .. n ELSE 0 < n /\ n <= m /\ left = n .. m
  BY DEF Ahead
<1>2. At(p) = {l \in left : \A r \in left : IF up THEN l <= r ELSE r <= l}
  BY DEF At
<1>3. up \in BOOLEAN
  OBVIOUS
<1> HIDE DEF up, left
<1>4. LET k == IF up THEN m + 1 ELSE m
      IN /\ {l \in left : \A r \in left : IF up THEN l <= r ELSE r <= l} = {k}
         /\ k \in File
  BY <1>1, <1>3, Nearest
<1>5. QED
  BY <1>2, <1>4 DEF up

LEMMA AtAheadNext ==
  ASSUME NEW p \in Proc, Direction(p)' \in {"up", "down"}, NEW m \in 0 .. FileCount,
         NEW n \in 0 .. FileCount, Ahead(p, m, n)'
  PROVE  /\ At(p)' = {IF Direction(p)' = "up" THEN m + 1 ELSE m}
         /\ At(p)' \subseteq File
<1> DEFINE up == Direction(p)' = "up"
           left == todo'[p]
<1>1. IF up THEN m < n /\ left = (m + 1) .. n ELSE 0 < n /\ n <= m /\ left = n .. m
  BY DEF Ahead
<1>2. At(p)' = {l \in left : \A r \in left : IF up THEN l <= r ELSE r <= l}
  BY DEF At
<1>3. up \in BOOLEAN
  OBVIOUS
<1> HIDE DEF up, left
<1>4. LET k == IF up THEN m + 1 ELSE m
      IN /\ {l \in left : \A r \in left : IF up THEN l <= r ELSE r <= l} = {k}
         /\ k \in File
  BY <1>1, <1>3, Nearest
<1>5. QED
  BY <1>2, <1>4 DEF up

LEMMA AtBehind ==
  ASSUME NEW p \in Proc, Direction(p) \in {"up", "down"}, NEW m \in 0 .. FileCount,
         NEW n \in 0 .. FileCount, Behind(p, m, n)
  PROVE  /\ At(p) = {IF Direction(p) = "up" THEN m ELSE m + 1}
         /\ At(p) \subseteq File
         /\ todo[p] # At(p) =>
              IF Direction(p) = "up" THEN m < n /\ todo[p] \ At(p) = (m + 1) .. n
                                     ELSE n <= m /\ todo[p] \ At(p) = n .. m
         /\ todo[p] = At(p) => todo[p] \ At(p) = {}
<1>1. CASE Direction(p) = "up"
  <2>1. 0 < m /\ m <= n /\ todo[p] = m .. n
    BY <1>1 DEF Behind
  <2>2. At(p) = {k \in m .. n : \A l \in m .. n : k <= l}
    BY <1>1, <2>1 DEF At
  <2>3. At(p) = {m}
    BY <2>1, <2>2, MigrationsAssumption
  <2>4. todo[p] # At(p) => m < n /\ todo[p] \ At(p) = (m + 1) .. n
    BY <2>1, <2>3, MigrationsAssumption
  <2>5. QED
    BY <1>1, <2>1, <2>3, <2>4, MigrationsAssumption DEF File
<1>2. CASE Direction(p) = "down"
  <2>1. m < FileCount /\ 0 < n /\ n <= m + 1 /\ todo[p] = n .. (m + 1)
    BY <1>2 DEF Behind
  <2>2. At(p) = {k \in n .. (m + 1) : \A l \in n .. (m + 1) : l <= k}
    BY <1>2, <2>1 DEF At
  <2>3. At(p) = {m + 1}
    BY <2>1, <2>2, MigrationsAssumption
  <2>4. todo[p] # At(p) => n <= m /\ todo[p] \ At(p) = n .. m
    BY <2>1, <2>3, MigrationsAssumption
  <2>5. QED
    BY <1>2, <2>1, <2>3, <2>4, MigrationsAssumption DEF File
<1>3. QED
  BY <1>1, <1>2

\* Statements that do not go to a transaction are in the database.
LEMMA ViewIs ==
  ASSUME NEW p \in Proc, TxShape(p), ~Held(p)
  PROVE  View(p) = db
BY DEF TxShape, View

\* What a process that fails or dies here leaves: its migration excepted, the
\* books are right.
LEMMA AgreeHere ==
  ASSUME TypeOK, NEW p \in Proc, Work(p)
  PROVE  Agree(db, cut \cup At(p))
<1>1. CASE Held(p) \/ pc[p] \notin {"working", "hooking", "committing"}
  BY <1>1 DEF Work, Books, Agree
<1>2. CASE ~Held(p) /\ pc[p] \in {"working", "hooking", "committing"}
  <2>1. View(p) = db
    BY <1>2, ViewIs DEF Work
  <2>2. QED
    BY <1>2, <2>1 DEF Work, Books, Agree
<1>3. QED
  BY <1>1, <1>2

\* A step of the process at work leaves the others where they were.
LEMMA OthersKept ==
  ASSUME TypeOK, TypeOK', LockInv, BooksInv, NEW p \in Proc, AtWork(p),
         \A q \in Proc \ {p} : /\ pc'[q] = pc[q] /\ cmd'[q].cli = cmd[q].cli
                               /\ todo'[q] = todo[q] /\ tx'[q] = tx[q],
         cmd'[p].cli = cmd[p].cli \/ Over(p)',
         Prefix(db)',
         AtWork(p)' => Work(p)',
         ~AtWork(p)' => Quiet(p)' /\ Agree(db, cut)'
  PROVE  BooksInv'
<1>1. \A q \in Proc \ {p} : ~AtWork(q) /\ Quiet(q)
  BY Alone DEF BooksInv
<1>2. \A q \in Proc \ {p} : ~AtWork(q)' /\ Quiet(q)'
  BY <1>1 DEF AtWork, Quiet
<1>3. ~Over(p)
  BY DEF AtWork, Over
<1>4. ClientAlone'
  BY <1>3 DEF BooksInv, ClientAlone, Over
<1>5. \A q \in Proc : IF AtWork(q)' THEN Work(q)' ELSE Quiet(q)'
  BY <1>2
<1>6. QED
  BY <1>4, <1>5 DEF BooksInv

\* A statement is seen by its process, and is in the database unless it is held.
LEMMA WriteSeen ==
  ASSUME TypeOK, NEW p \in Proc, NEW item, Direction(p) \in {"up", "down"},
         TxShape(p), tx[p].bound => tx[p].open,
         Write(p, item) \/ WriteSchema(p, item), dialect' = dialect
  PROVE  /\ View(p)' = IF Direction(p) = "up" THEN View(p) \cup {item}
                                              ELSE View(p) \ {item}
         /\ Held(p)' => db' = db /\ Held(p)
         /\ ~Held(p)' => db' = View(p)' /\ tx'[p].add = {} /\ tx'[p].del = {}
         /\ tx'[p].open = tx[p].open /\ tx'[p].bound = tx[p].bound
         /\ ~tx[p].open => tx'[p] = tx[p]
         /\ dialect = "postgres" => ~tx'[p].over
         /\ \A q \in Proc \ {p} : tx'[q] = tx[q]
<1> DEFINE Tx == [open : BOOLEAN, bound : BOOLEAN, over : BOOLEAN, conn : 0 .. PoolSize,
                  add : SUBSET Items, del : SUBSET Items]
<1>1. tx \in [Proc -> Tx] /\ tx[p] \in Tx
  BY DEF TypeOK
<1>2. ~Held(p) => View(p) = db
  BY ViewIs
<1>3. CASE tx[p].bound /\ dialect = "mysql" /\ WriteSchema(p, item)
  <2>1. /\ db' = IF Direction(p) = "up" THEN View(p) \cup {item} ELSE View(p) \ {item}
        /\ tx' = [tx EXCEPT ![p] = [tx[p] EXCEPT !.over = TRUE, !.add = {}, !.del = {}]]
    BY <1>3 DEF WriteSchema
  <2>2. tx'[p] = [tx[p] EXCEPT !.over = TRUE, !.add = {}, !.del = {}]
    BY <1>1, <2>1
  <2>3. /\ tx'[p].open = tx[p].open /\ tx'[p].bound = tx[p].bound /\ tx'[p].over
        /\ tx'[p].add = {} /\ tx'[p].del = {}
    BY <1>1, <2>2
  <2>4. View(p)' = db' /\ ~Held(p)'
    BY <2>3 DEF View, Held
  <2>5. \A q \in Proc \ {p} : tx'[q] = tx[q]
    BY <1>1, <2>1
  <2>6. QED
    BY <1>3, <2>1, <2>3, <2>4, <2>5
<1>4. CASE ~Held(p) /\ Write(p, item)
  <2>1. /\ db' = IF Direction(p) = "up" THEN db \cup {item} ELSE db \ {item}
        /\ tx' = tx
    BY <1>4 DEF Write, Held
  <2>2. View(p)' = db' /\ ~Held(p)'
    BY <1>4, <2>1 DEF View, Held, TxShape
  <2>3. QED
    BY <1>2, <1>4, <2>1, <2>2 DEF TxShape
<1>5. CASE Held(p) /\ Write(p, item)
  <2>1. CASE Direction(p) = "up"
    <3>1. /\ db' = db
          /\ tx' = [tx EXCEPT ![p] = [tx[p] EXCEPT !.add = tx[p].add \cup {item},
                                                   !.del = tx[p].del \ {item}]]
      BY <1>1, <1>5, <2>1 DEF Write, Held
    <3>2. tx'[p] = [tx[p] EXCEPT !.add = tx[p].add \cup {item}, !.del = tx[p].del \ {item}]
      BY <1>1, <3>1
    <3>3. /\ tx'[p].open = tx[p].open /\ tx'[p].bound = tx[p].bound
          /\ tx'[p].over = tx[p].over
          /\ tx'[p].add = tx[p].add \cup {item} /\ tx'[p].del = tx[p].del \ {item}
      BY <1>1, <3>2
    <3>4. View(p)' = View(p) \cup {item}
      BY <3>1, <3>3 DEF View
    <3>5. Held(p)' /\ (dialect = "postgres" => ~tx'[p].over)
      BY <1>5, <3>3 DEF Held
    <3>6. tx[p].open
      BY <1>5 DEF Held
    <3>7. \A q \in Proc \ {p} : tx'[q] = tx[q]
      BY <1>1, <3>1
    <3>8. QED
      BY <1>5, <2>1, <3>1, <3>3, <3>4, <3>5, <3>6, <3>7
  <2>2. CASE Direction(p) = "down"
    <3>1. /\ db' = db
          /\ tx' = [tx EXCEPT ![p] = [tx[p] EXCEPT !.del = tx[p].del \cup {item},
                                                   !.add = tx[p].add \ {item}]]
      BY <1>1, <1>5, <2>2 DEF Write, Held
    <3>2. tx'[p] = [tx[p] EXCEPT !.del = tx[p].del \cup {item}, !.add = tx[p].add \ {item}]
      BY <1>1, <3>1
    <3>3. /\ tx'[p].open = tx[p].open /\ tx'[p].bound = tx[p].bound
          /\ tx'[p].over = tx[p].over
          /\ tx'[p].add = tx[p].add \ {item} /\ tx'[p].del = tx[p].del \cup {item}
      BY <1>1, <3>2
    <3>4. View(p)' = View(p) \ {item}
      BY <3>1, <3>3 DEF View
    <3>5. Held(p)' /\ (dialect = "postgres" => ~tx'[p].over)
      BY <1>5, <3>3 DEF Held
    <3>6. tx[p].open
      BY <1>5 DEF Held
    <3>7. \A q \in Proc \ {p} : tx'[q] = tx[q]
      BY <1>1, <3>1
    <3>8. QED
      BY <1>5, <2>2, <3>1, <3>3, <3>4, <3>5, <3>6, <3>7
  <2>3. QED
    BY <2>1, <2>2
<1>6. QED
  BY <1>3, <1>4, <1>5 DEF WriteSchema

\* Where a phase is over the books are right, and nothing is left.
LEMMA PhaseEndsWork ==
  ASSUME TypeOK, PhaseInv, NEW p \in Proc, pc[p] \in InPhase, PhaseEnds(p),
         tx'[p] = NoTx, todo'[p] = {}, Agree(db, cut)'
  PROVE  AtWork(p)' /\ Work(p)'
<1>1. pc'[p] \in {"reading", "unlocking"}
  BY DEF PhaseEnds, Goto, TypeOK
<1>2. At(p)' = {} /\ ~Held(p)' /\ ~tx'[p].open
  BY DEF At, Held, NoTx
<1>3. Prepared(p)'
  BY <1>1 DEF Prepared, Migrating
<1>4. TxShape(p)'
  BY <1>1, <1>2 DEF TxShape, NoTx
<1>5. Spans(p)' /\ Books(p)' /\ Pending(p)'
  BY <1>1, <1>2 DEF Spans, Books, Pending
<1>6. Progress(p)'
  BY <1>2 DEF Progress
<1>7. QED
  BY <1>1, <1>3, <1>4, <1>5, <1>6 DEF Work, AtWork

\* An error leaves the books right but for the migration it met.
LEMMA ThrowWork ==
  ASSUME TypeOK, PhaseInv, NEW p \in Proc, pc[p] \in InPhase, AtWork(p), Work(p), Throw(p),
         UNCHANGED <<dialect, db, cmd, todo, tx, before>>
  PROVE  AtWork(p)' /\ Work(p)'
<1>1. pc'[p] = IF tx[p].open THEN "rollingback" ELSE "unlocking"
  BY DEF Throw, Goto, TypeOK
<1>2. cut' = cut \cup At(p)
  BY DEF Throw
<1>3. Agree(db, cut)'
  BY <1>2, AgreeHere DEF Agree, Full, None
<1>4. Prepared(p)'
  BY <1>1 DEF Prepared, Migrating
<1>5. TxShape(p)'
  BY <1>1 DEF Work, TxShape, Held, NoTx, InPhase
<1>6. Spans(p)' /\ Books(p)' /\ Progress(p)'
  BY <1>1, <1>3 DEF Spans, Books, Progress
<1>7. Pending(p)'
  BY <1>1 DEF Work, Pending
<1>8. QED
  BY <1>1, <1>4, <1>5, <1>6, <1>7 DEF Work, AtWork

\* What a step that touches neither the database nor another process leaves of it.
LEMMA Untouched ==
  ASSUME NEW q \in Proc, UNCHANGED <<dialect, db, cut>>,
         pc'[q] = pc[q], cmd'[q] = cmd[q], todo'[q] = todo[q], step'[q] = step[q],
         tx'[q] = tx[q], before'[q] = before[q],
         IF AtWork(q) THEN Work(q) ELSE Quiet(q)
  PROVE  IF AtWork(q)' THEN Work(q)' ELSE Quiet(q)'
<1>1. View(q)' = View(q) /\ At(q)' = At(q) /\ Direction(q)' = Direction(q)
      /\ Held(q)' = Held(q)
  BY DEF View, At, Direction, Held
<1>2. CASE AtWork(q)
  <2>1. Prepared(q)' /\ TxShape(q)' /\ Pending(q)'
    BY <1>1, <1>2 DEF Work, Prepared, TxShape, Pending
  <2>2. Spans(q)'
    BY <1>1, <1>2 DEF Work, Spans, Prefix, RowsTo, Rows, Ahead, Behind
  <2>3. Books(q)'
    BY <1>1, <1>2 DEF Work, Books, Agree, Full, None
  <2>4. Progress(q)'
    BY <1>1, <1>2 DEF Work, Progress, Ran, Full, None
  <2>5. QED
    BY <1>2, <2>1, <2>2, <2>3, <2>4 DEF Work, AtWork
<1>3. CASE ~AtWork(q)
  BY <1>3 DEF AtWork, Quiet
<1>4. QED
  BY <1>2, <1>3

\* A command is entered: a ClientMigrator finds the books right.
LEMMA StartsBooks ==
  ASSUME ~Overlap, TypeOK, BooksInv, NEW p \in Proc, NEW cli \in BOOLEAN,
         NEW phases, NEW untils, Starts(p, cli, phases, untils)
  PROVE  BooksInv'
<1>1. PICK until \in untils, transactional \in BOOLEAN :
        cmd' = [cmd EXCEPT ![p] = [cli |-> cli, phases |-> phases, until |-> until,
                                   transactional |-> transactional]]
  BY DEF Starts
<1>2. /\ pc[p] = "idle" /\ MayRun(cli)
      /\ pc'[p] = IF cli THEN "locking" ELSE "reading"
      /\ \A q \in Proc \ {p} : pc'[q] = pc[q] /\ cmd'[q] = cmd[q]
      /\ cmd'[p].cli = cli
      /\ UNCHANGED <<dialect, db, lock, todo, step, tx, before, cut>>
  BY <1>1 DEF Starts, Goto, TypeOK
<1>3. \A q \in Proc : Over(q) \/ (cli /\ cmd[q].cli)
  BY <1>2 DEF MayRun
<1>4. Quiet(p)
  BY <1>2 DEF BooksInv, AtWork
<1>5. ClientAlone'
  BY <1>2, <1>3 DEF BooksInv, ClientAlone, Over
<1>6. Prefix(db)'
  BY <1>2 DEF BooksInv, Prefix, RowsTo, Rows
<1>7. ASSUME NEW q \in Proc, q # p
      PROVE  IF AtWork(q)' THEN Work(q)' ELSE Quiet(q)'
  BY <1>2, <1>7, Untouched DEF BooksInv
<1>8. CASE cli
  <2>1. ~AtWork(p)' /\ Quiet(p)'
    BY <1>2, <1>4, <1>8 DEF AtWork, Quiet
  <2>2. (\A q \in Proc : ~AtWork(q)') => Agree(db, cut)'
    BY <1>2 DEF BooksInv, AtWork, Agree, Full, None
  <2>3. QED
    BY <1>5, <1>6, <1>7, <2>1, <2>2 DEF BooksInv
<1>9. CASE ~cli
  <2>1. Agree(db, cut)'
    BY <1>2, <1>3, <1>9 DEF BooksInv, AtWork, Over, Agree, Full, None
  <2>2. AtWork(p)' /\ pc'[p] = "reading"
    BY <1>2, <1>9 DEF AtWork
  <2>3. At(p)' = {} /\ tx'[p] = NoTx /\ todo'[p] = {}
    BY <1>2, <1>4 DEF Quiet, At
  <2>4. Work(p)'
    BY <2>1, <2>2, <2>3 DEF Work, Prepared, Migrating, TxShape, Held, NoTx, Spans,
       Books, Progress, Pending
  <2>5. QED
    BY <1>5, <1>6, <1>7, <2>2, <2>4 DEF BooksInv
<1>10. QED
  BY <1>8, <1>9

\* The lock is taken by a process that finds the books right, or the command is over.
LEMMA LockBooks ==
  ASSUME TypeOK, LockInv, LockInv', BooksInv, NEW p \in Proc, Lock(p)
  PROVE  BooksInv'
<1>1. /\ pc[p] = "locking" /\ pc'[p] \in {"reading", "closing"}
      /\ \A q \in Proc \ {p} : pc'[q] = pc[q]
      /\ UNCHANGED <<dialect, db, cmd, todo, step, tx, before, cut>>
  BY DEF Lock, Goto, TypeOK
<1>2. Quiet(p)
  BY <1>1 DEF BooksInv, AtWork
<1>3. ClientAlone'
  BY <1>1 DEF BooksInv, ClientAlone, Over
<1>4. Prefix(db)'
  BY <1>1 DEF BooksInv, Prefix, RowsTo, Rows
<1>5. ASSUME NEW q \in Proc, q # p
      PROVE  IF AtWork(q)' THEN Work(q)' ELSE Quiet(q)'
  BY <1>1, <1>5, Untouched DEF BooksInv
<1>6. CASE pc'[p] = "closing"
  <2>1. ~AtWork(p)' /\ Quiet(p)'
    BY <1>1, <1>2, <1>6 DEF AtWork, Quiet
  <2>2. (\A q \in Proc : ~AtWork(q)') => Agree(db, cut)'
    BY <1>1 DEF BooksInv, AtWork, Agree, Full, None
  <2>3. QED
    BY <1>3, <1>4, <1>5, <2>1, <2>2 DEF BooksInv
<1>7. CASE pc'[p] = "reading"
  <2>1. \A q \in Proc \ {p} : ~AtWork(q)'
    <3>1. AtWork(p)'
      BY <1>7 DEF AtWork
    <3>2. SUFFICES ASSUME NEW q \in Proc, q # p, AtWork(q)' PROVE FALSE
      OBVIOUS
    <3>3. CASE cmd[p].cli /\ cmd[q].cli
      <4>1. Exclusive(p)' /\ Exclusive(q)'
        BY <1>1, <3>1, <3>2, <3>3 DEF AtWork, Exclusive
      <4>2. (\E c \in Connection : lock' = <<p, c>>) /\ (\E c \in Connection : lock' = <<q, c>>)
        BY <4>1 DEF LockInv, Connection
      <4>3. QED
        BY <3>2, <4>2
    <3>4. CASE ~(cmd[p].cli /\ cmd[q].cli)
      <4>1. ~Over(p)' /\ ~Over(q)'
        BY <3>1, <3>2 DEF AtWork, Over
      <4>2. QED
        BY <1>1, <1>3, <3>2, <3>4, <4>1 DEF ClientAlone
    <3>5. QED
      BY <3>3, <3>4
  <2>2. Agree(db, cut)'
    BY <1>1, <2>1 DEF BooksInv, AtWork, Agree, Full, None
  <2>3. AtWork(p)'
    BY <1>7 DEF AtWork
  <2>4. At(p)' = {} /\ tx'[p] = NoTx /\ todo'[p] = {}
    BY <1>1, <1>2 DEF Quiet, At
  <2>5. Work(p)'
    BY <1>7, <2>2, <2>4 DEF Work, Prepared, Migrating, TxShape, Held, NoTx, Spans,
       Books, Progress, Pending
  <2>6. QED
    BY <1>3, <1>4, <1>5, <2>3, <2>5 DEF BooksInv
<1>8. QED
  BY <1>1, <1>6, <1>7

\* The process dies, or its pool is closed, and the books are right but for the
\* migration it was at.
LEMMA EndBooks ==
  ASSUME TypeOK, TypeOK', LockInv, BooksInv, NEW p \in Proc,
         Unlock(p) \/ Close(p) \/ Crash(p)
  PROVE  BooksInv'
<1>1. /\ pc'[p] \in {"closing", "done", "dead"}
      /\ \A q \in Proc \ {p} : /\ pc'[q] = pc[q] /\ cmd'[q] = cmd[q] /\ todo'[q] = todo[q]
                               /\ tx'[q] = tx[q] /\ step'[q] = step[q]
                               /\ before'[q] = before[q]
      /\ UNCHANGED <<dialect, db>>
      /\ \/ Forget(p)
         \/ pc[p] = "closing" /\ UNCHANGED <<todo, tx>>
      /\ cut' \in {cut, cut \cup At(p)}
  <2>1. CASE Unlock(p)
    BY <2>1 DEF Unlock, Goto, Forget, TypeOK
  <2>2. CASE Close(p)
    BY <2>2 DEF Close, Goto, TypeOK
  <2>3. CASE Crash(p)
    BY <2>3 DEF Crash, Goto, Forget, TypeOK
  <2>4. QED
    BY <2>1, <2>2, <2>3
<1>2. ~AtWork(p)' /\ Over(p)'
  BY <1>1 DEF AtWork, Over
<1>3. Quiet(p)'
  BY <1>1 DEF Forget, Quiet, TypeOK, BooksInv, AtWork
<1>4. Prefix(db)'
  BY <1>1 DEF BooksInv, Prefix, RowsTo, Rows
<1>5. CASE AtWork(p)
  <2>1. Agree(db, cut \cup At(p))
    BY <1>5, AgreeHere DEF BooksInv
  <2>2. Agree(db, cut)'
    <3>1. CASE Crash(p)
      BY <1>1, <2>1, <3>1 DEF Crash, Agree, Full, None
    <3>2. CASE Unlock(p)
      <4>1. Agree(db, cut)
        BY <1>5, <3>2 DEF BooksInv, Work, Books, Unlock
      <4>2. QED
        BY <3>2, <4>1 DEF Unlock, Agree, Full, None
    <3>3. QED
      BY <1>5, <3>1, <3>2 DEF Close, AtWork
  <2>3. QED
    BY <1>1, <1>2, <1>3, <1>4, <1>5, <2>2, OthersKept
<1>6. CASE ~AtWork(p)
  <2>1. At(p) = {}
    BY <1>6 DEF BooksInv, Quiet, At
  <2>2. cut' = cut
    BY <1>1, <2>1
  <2>3. \A q \in Proc \ {p} : IF AtWork(q)' THEN Work(q)' ELSE Quiet(q)'
    BY <1>1, <2>2, Untouched DEF BooksInv
  <2>4. ClientAlone'
    BY <1>1, <1>2 DEF BooksInv, ClientAlone, Over
  <2>5. (\A q \in Proc : ~AtWork(q)') => Agree(db, cut)'
    BY <1>1, <1>6, <2>2 DEF BooksInv, AtWork, Agree, Full, None
  <2>6. QED
    BY <1>2, <1>3, <1>4, <2>3, <2>4, <2>5 DEF BooksInv
<1>7. QED
  BY <1>5, <1>6

\* The migrations of a run or a rollback begin next to the recorded ones.
LEMMA PlanAhead ==
  ASSUME TypeOK, TypeOK', NEW p \in Proc, Prefix(db), Direction(p) \in {"up", "down"},
         Plan(p) # {}, todo'[p] = Plan(p), cmd'[p] = cmd[p]
  PROVE  \E m, n \in 0 .. FileCount : RowsTo(db, m) /\ Ahead(p, m, n)'
<1>1. PICK m \in 0 .. FileCount : Rows(db) = 1 .. m
  BY DEF Prefix, RowsTo
<1>2. Direction(p)' = Direction(p)
  BY DEF Direction
<1>3. cmd[p].until \in 0 .. FileCount
  BY DEF TypeOK
<1>4. CASE Direction(p) = "up"
  <2> DEFINE n == IF cmd[p].until = 0 THEN FileCount ELSE cmd[p].until
  <2>1. Plan(p) = (m + 1) .. n /\ n \in 0 .. FileCount
    BY <1>1, <1>3, <1>4, MigrationsAssumption DEF Plan, File
  <2>2. m < n
    BY <2>1, MigrationsAssumption
  <2>3. Ahead(p, m, n)'
    BY <1>2, <1>4, <2>1, <2>2 DEF Ahead
  <2>4. QED
    BY <1>1, <2>1, <2>3 DEF RowsTo
<1>5. CASE Direction(p) = "down"
  <2> DEFINE n == IF cmd[p].until = 0 THEN 1 ELSE cmd[p].until
  <2>1. Plan(p) = n .. m /\ n \in 0 .. FileCount /\ 0 < n
    BY <1>1, <1>3, <1>5, MigrationsAssumption DEF Plan, File
  <2>2. n <= m
    BY <2>1, MigrationsAssumption
  <2>3. Ahead(p, m, n)'
    BY <1>2, <1>5, <2>1, <2>2 DEF Ahead
  <2>4. QED
    BY <1>1, <2>1, <2>3 DEF RowsTo
<1>6. QED
  BY <1>4, <1>5

\* Before its first statement a migration next to the recorded ones is not in the
\* database at all, or is there as a whole.
LEMMA Fresh ==
  ASSUME NEW items, NEW but, NEW up \in BOOLEAN, NEW m \in 0 .. FileCount,
         RowsTo(items, m), Agree(items, but), NEW k \in File \ but,
         k = IF up THEN m + 1 ELSE m
  PROVE  Ran(items, k, up, 0)
<1>1. IF k \in Rows(items) THEN Full(items, k) ELSE None(items, k)
  BY RowTells
<1>2. CASE up
  <2>1. k \notin Rows(items)
    BY <1>2, MigrationsAssumption DEF RowsTo
  <2>2. QED
    BY <1>1, <1>2, <2>1, MigrationsAssumption DEF None, Ran
<1>3. CASE ~up
  <2>1. k \in Rows(items)
    BY <1>3, MigrationsAssumption DEF RowsTo, File
  <2>2. QED
    BY <1>1, <1>3, <2>1, MigrationsAssumption DEF Full, Ran
<1>4. QED
  BY <1>2, <1>3

LEMMA ReadBooks ==
  ASSUME TypeOK, TypeOK', PhaseInv, LockInv, BooksInv, NEW p \in Proc, Read(p)
  PROVE  BooksInv'
<1>1. /\ pc[p] = "reading" /\ pc[p] \in InPhase /\ AtWork(p) /\ Work(p) /\ Prefix(db)
      /\ Direction(p) \in {"up", "down"}
  BY DirectionTyped DEF Read, InPhase, AtWork, BooksInv
<1>2. /\ UNCHANGED <<dialect, db, lock, tx>>
      /\ Prefix(db)'
  BY <1>1 DEF Read, Prefix, RowsTo, Rows
<1>3. tx[p] = NoTx /\ todo[p] = {} /\ Agree(db, cut) /\ ~Held(p)
  BY <1>1 DEF Work, TxShape, Prepared, Books, Held, NoTx
<1>4. CASE PhaseEnds(p) /\ UNCHANGED <<todo, step, before, cut>>
  <2>1. AtWork(p)' /\ Work(p)'
    <3>1. Agree(db, cut)'
      BY <1>2, <1>3, <1>4 DEF Agree, Full, None
    <3>2. QED
      BY <1>1, <1>2, <1>3, <1>4, <3>1, PhaseEndsWork
  <2>2. QED
    BY <1>1, <1>2, <1>4, <2>1, PhaseEndsTyped, OthersKept DEF PhaseEnds, Goto, TypeOK
<1>5. CASE Throw(p) /\ UNCHANGED <<cmd, todo, step, before>>
  <2>1. AtWork(p)' /\ Work(p)'
    BY <1>1, <1>2, <1>5, ThrowWork
  <2>2. QED
    BY <1>1, <1>2, <1>5, <2>1, OthersKept DEF Throw, Goto, TypeOK
<1>6. CASE /\ Plan(p) # {} /\ Named(p)
           /\ todo' = [todo EXCEPT ![p] = Plan(p)]
           /\ step' = [step EXCEPT ![p] = 0]
           /\ before' = [before EXCEPT ![p] = db]
           /\ Goto(p, IF cmd[p].transactional THEN "beginning" ELSE "working")
           /\ UNCHANGED <<cmd, cut>>
  <2>1. /\ pc'[p] \in {"beginning", "working"}
        /\ todo'[p] = Plan(p) /\ step'[p] = 0 /\ before'[p] = db
        /\ Direction(p)' = Direction(p)
        /\ \A q \in Proc \ {p} : pc'[q] = pc[q] /\ todo'[q] = todo[q]
    BY <1>6 DEF Goto, TypeOK, Direction
  <2>2. View(p)' = db /\ ~Held(p)'
    BY <1>2, <1>3 DEF View, Held, NoTx
  <2>3. PICK m \in 0 .. FileCount, n \in 0 .. FileCount : RowsTo(db, m) /\ Ahead(p, m, n)'
    BY <1>1, <1>6, <2>1, PlanAhead
  <2>4. Prepared(p)' /\ TxShape(p)'
    BY <1>1, <1>2, <1>3, <1>6, <2>1, <2>2 DEF Prepared, TxShape, Migrating, NoTx
  <2>5. Spans(p)'
    BY <2>1, <2>2, <2>3 DEF Spans, RowsTo, Rows
  <2>6. Books(p)'
    BY <1>2, <1>3, <1>6, <2>1, <2>2 DEF Books, Agree, Full, None
  <2>7. Progress(p)'
    <3>1. todo'[p] = Plan(p) /\ Agree(db, cut)' /\ View(p)' = db
      BY <1>2, <1>3, <1>6, <2>1, <2>2 DEF Agree, Full, None
    <3>2. \A k \in (At(p) \ cut)' : Ran(db, k, Direction(p)' = "up", 0)
      <4>1. Direction(p)' \in {"up", "down"} /\ Agree(db, cut)
        BY <1>1, <1>3, <2>1
      <4>2. /\ At(p)' = {IF Direction(p)' = "up" THEN m + 1 ELSE m}
            /\ At(p)' \subseteq File
        BY <2>3, <4>1, AtAheadNext
      <4>3. cut' = cut
        BY <1>6
      <4>4. QED
        BY <2>3, <4>1, <4>2, <4>3, Fresh
    <3>3. QED
      BY <1>6, <2>1, <3>1, <3>2 DEF Progress
  <2>8. Pending(p)'
    BY <1>2, <2>1 DEF Pending
  <2>9. Work(p)' /\ AtWork(p)'
    BY <2>1, <2>4, <2>5, <2>6, <2>7, <2>8 DEF Work, AtWork
  <2>10. QED
    BY <1>1, <1>2, <1>6, <2>1, <2>9, OthersKept
<1>7. QED
  BY <1>4, <1>5, <1>6 DEF Read

LEMMA DropBooks ==
  ASSUME TypeOK, TypeOK', PhaseInv, LockInv, BooksInv, NEW p \in Proc,
         List(p) \/ Drop(p)
  PROVE  BooksInv'
<1>1. /\ pc[p] \in {"reading", "dropping"} /\ pc[p] \in InPhase /\ AtWork(p) /\ Work(p)
      /\ Prefix(db)
  BY DEF List, Drop, InPhase, AtWork, BooksInv
<1>2. tx[p] = NoTx /\ todo[p] = {} /\ Agree(db, cut) /\ ~Held(p)
  BY <1>1 DEF Work, TxShape, Prepared, Books, Held, NoTx
<1>3. CASE List(p)
  <2>1. /\ pc'[p] = "dropping" /\ before'[p] = db
        /\ \A q \in Proc \ {p} : pc'[q] = pc[q]
        /\ UNCHANGED <<dialect, db, lock, cmd, todo, step, tx, cut>>
    BY <1>3 DEF List, Goto, TypeOK
  <2>2. Agree(db, cut)' /\ Prefix(db)'
    BY <1>1, <1>2, <2>1 DEF Agree, Full, None, Prefix, RowsTo, Rows
  <2>3. At(p)' = {} /\ ~Held(p)'
    BY <1>2, <2>1 DEF At, Held
  <2>4. Work(p)' /\ AtWork(p)'
    BY <1>2, <2>1, <2>2, <2>3 DEF Work, Prepared, Migrating, TxShape, NoTx, Spans,
       Books, Progress, Pending, AtWork
  <2>5. QED
    BY <1>1, <2>1, <2>2, <2>4, OthersKept
<1>4. CASE Drop(p) /\ Throw(p) /\ UNCHANGED <<db, cmd>>
  <2>1. AtWork(p)' /\ Work(p)'
    BY <1>1, <1>4, ThrowWork DEF Drop
  <2>2. Prefix(db)'
    BY <1>1, <1>4 DEF Prefix, RowsTo, Rows
  <2>3. QED
    BY <1>1, <1>4, <2>1, <2>2, OthersKept DEF Drop, Throw, Goto, TypeOK
<1>5. CASE /\ Drop(p) /\ db' = {i \in db : i[2] # 0 /\ i \notin before[p]}
           /\ PhaseEnds(p) /\ UNCHANGED cut
  <2>1. db' = {}
    BY <1>1, <1>5 DEF Drop, Work, Prepared
  <2>2. Agree(db, cut)'
    BY <2>1 DEF Agree, Full, None
  <2>3. Prefix(db)'
    <3>1. Rows({}) = 1 .. 0 /\ 0 \in 0 .. FileCount
      BY MigrationsAssumption DEF Rows
    <3>2. QED
      BY <2>1, <3>1 DEF Prefix, RowsTo, Rows
  <2>4. AtWork(p)' /\ Work(p)'
    BY <1>1, <1>2, <1>5, <2>2, PhaseEndsWork DEF Drop
  <2>5. QED
    BY <1>1, <1>5, <2>3, <2>4, PhaseEndsTyped, OthersKept DEF Drop, PhaseEnds, Goto, TypeOK
<1>6. QED
  BY <1>3, <1>4, <1>5 DEF Drop

LEMMA BeginBooks ==
  ASSUME TypeOK, TypeOK', PhaseInv, LockInv, BooksInv, NEW p \in Proc, Begin(p)
  PROVE  BooksInv'
<1>1. /\ pc[p] = "beginning" /\ pc[p] \in InPhase /\ AtWork(p) /\ Work(p)
      /\ Direction(p) \in {"up", "down"} /\ Prefix(db)
      /\ UNCHANGED <<dialect, db, lock, cmd, todo, step, before>>
  BY DEF Begin, InPhase, AtWork, BooksInv, Work, Prepared, Migrating
<1>2. Prefix(db)' /\ Agree(db, cut) /\ tx[p] = NoTx /\ ~Held(p) /\ View(p) = db
  BY <1>1 DEF Prefix, RowsTo, Rows, Work, Books, TxShape, Held, NoTx, View
<1>3. CASE Throw(p) /\ UNCHANGED tx
  <2>1. AtWork(p)' /\ Work(p)'
    BY <1>1, <1>3, ThrowWork
  <2>2. QED
    BY <1>1, <1>2, <1>3, <2>1, OthersKept DEF Throw, Goto, TypeOK
<1>4. ASSUME NEW c \in Connection, NEW bound \in BOOLEAN, bound <=> cmd[p].until # 0,
             tx' = [tx EXCEPT ![p] = [NoTx EXCEPT !.open = TRUE, !.conn = c,
                                        !.bound = bound]],
             Goto(p, "working"), UNCHANGED <<stray, cut>>
      PROVE  BooksInv'
  <2>1. /\ pc'[p] = "working"
        /\ \A q \in Proc \ {p} : pc'[q] = pc[q] /\ tx'[q] = tx[q]
        /\ tx'[p] = [NoTx EXCEPT !.open = TRUE, !.conn = c, !.bound = bound]
    BY <1>4 DEF Goto, TypeOK
  <2>2. /\ tx'[p].open /\ tx'[p].bound = bound /\ ~tx'[p].over
        /\ tx'[p].add = {} /\ tx'[p].del = {}
    BY <2>1 DEF NoTx
  <2>3. /\ View(p)' = db /\ At(p)' = At(p) /\ Direction(p)' = Direction(p)
    BY <1>1, <2>2 DEF View, At, Direction
  <2>4. PICK m \in 0 .. FileCount, n \in 0 .. FileCount : RowsTo(db, m) /\ Ahead(p, m, n)
    BY <1>1, <1>2 DEF Work, Spans
  <2>5. Prepared(p)' /\ TxShape(p)'
    BY <1>1, <1>4, <2>1, <2>2, <2>3 DEF Prepared, Migrating, TxShape
  <2>6. Spans(p)'
    BY <1>1, <2>1, <2>3, <2>4 DEF Spans, RowsTo, Rows, Ahead
  <2>7. Books(p)'
    BY <1>1, <1>2, <1>4, <2>1, <2>3 DEF Books, Agree, Full, None
  <2>8. Pending(p)'
    BY <1>1 DEF Work, Pending
  <2>9. Progress(p)'
    <3>1. \A k \in At(p) \ cut : Ran(db, k, Direction(p) = "up", step[p])
      BY <1>1, <1>2 DEF Work, Progress
    <3>2. QED
      BY <1>1, <1>4, <2>1, <2>3, <3>1 DEF Progress, Ran
  <2>10. Work(p)' /\ AtWork(p)'
    BY <2>1, <2>5, <2>6, <2>7, <2>8, <2>9 DEF Work, AtWork
  <2>11. QED
    BY <1>1, <1>2, <2>1, <2>10, OthersKept
<1>5. QED
  BY <1>1, <1>3, <1>4 DEF Begin

\* The statements and the row of a migration change what the process sees by one
\* item of it.
LEMMA StatementBooks ==
  ASSUME TypeOK, TypeOK', PhaseInv, LockInv, BooksInv, NEW p \in Proc, Statement(p)
  PROVE  BooksInv'
<1>1. /\ pc[p] = "working" /\ pc[p] \in InPhase /\ AtWork(p) /\ Work(p)
      /\ Direction(p) \in {"up", "down"} /\ Prefix(db)
      /\ step[p] \in 0 .. Steps /\ step[p] < Steps
      /\ UNCHANGED <<dialect, lock, cmd, todo, before>>
  BY DEF Statement, InPhase, AtWork, BooksInv, Work, Prepared, Migrating, TypeOK
<1>2. CASE Throw(p) /\ UNCHANGED <<db, tx, step>>
  <2>1. AtWork(p)' /\ Work(p)'
    BY <1>1, <1>2, ThrowWork
  <2>2. Prefix(db)'
    BY <1>1, <1>2 DEF Prefix, RowsTo, Rows
  <2>3. QED
    BY <1>1, <1>2, <2>1, <2>2, OthersKept DEF Throw, Goto, TypeOK
<1>3. ASSUME NEW k \in At(p), WriteSchema(p, NextItem(p, k)),
             step' = [step EXCEPT ![p] = @ + 1], UNCHANGED <<pc, cut>>
      PROVE  BooksInv'
  <2> DEFINE i == IF Direction(p) = "up" THEN step[p] + 1 ELSE Steps - step[p]
  <2>1. NextItem(p, k) = <<k, i>> /\ i \in Nat \ {0} /\ i \in 0 .. Steps
    BY <1>1, MigrationsAssumption DEF NextItem
  <2>2. PICK m \in 0 .. FileCount, n \in 0 .. FileCount :
          RowsTo(View(p), m) /\ Ahead(p, m, n)
    BY <1>1 DEF Work, Spans
  <2>3. At(p) = {k} /\ k \in File
    BY <1>1, <1>3, <2>2, AtAhead
  <2> HIDE DEF i
  <2>4. TxShape(p) /\ (tx[p].bound => tx[p].open)
    BY <1>1 DEF Work, TxShape, NoTx
  <2>5. /\ View(p)' = IF Direction(p) = "up" THEN View(p) \cup {<<k, i>>}
                                             ELSE View(p) \ {<<k, i>>}
        /\ Held(p)' => db' = db /\ Held(p)
        /\ ~Held(p)' => db' = View(p)' /\ tx'[p].add = {} /\ tx'[p].del = {}
        /\ tx'[p].open = tx[p].open /\ tx'[p].bound = tx[p].bound
        /\ ~tx[p].open => tx'[p] = tx[p]
        /\ dialect = "postgres" => ~tx'[p].over
        /\ \A q \in Proc \ {p} : tx'[q] = tx[q]
    BY <1>1, <1>3, <2>1, <2>4, WriteSeen
  <2>6. /\ At(p)' = {k} /\ Direction(p)' = Direction(p)
        /\ step'[p] = step[p] + 1 /\ pc' = pc
    BY <1>1, <1>3, <2>3 DEF At, Direction, TypeOK
  <2>7. Rows(View(p)') = Rows(View(p))
    BY <2>1, <2>3, <2>5 DEF Rows
  <2>8. Prepared(p)' /\ TxShape(p)'
    BY <1>1, <2>4, <2>5, <2>6 DEF Work, Prepared, Migrating, TxShape
  <2>9. Spans(p)'
    BY <1>1, <2>2, <2>6, <2>7 DEF Spans, RowsTo, Rows, Ahead
  <2>10. Books(p)'
    <3>1. Agree(View(p), cut \cup {k})
      BY <1>1, <2>3 DEF Work, Books
    <3>2. Agree(View(p)', cut \cup {k})
      BY <2>5, <3>1 DEF Agree, Full, None
    <3>3. Held(p)' => Agree(db', cut)
      BY <1>1, <2>5 DEF Work, Books
    <3>4. QED
      BY <1>1, <1>3, <2>6, <3>2, <3>3 DEF Books, Agree, Full, None
  <2>11. Progress(p)'
    <3>1. k \notin cut => Ran(View(p), k, Direction(p) = "up", step[p])
      BY <1>1, <2>3 DEF Work, Progress
    <3>2. k \notin cut => Ran(View(p)', k, Direction(p) = "up", step[p] + 1)
      <4>1. CASE Direction(p) = "up"
        BY <1>1, <2>5, <3>1, <4>1, MigrationsAssumption DEF Ran, i
      <4>2. CASE Direction(p) = "down"
        BY <1>1, <2>5, <3>1, <4>2, MigrationsAssumption DEF Ran, i
      <4>3. QED
        BY <1>1, <4>1, <4>2
    <3>3. QED
      BY <1>1, <1>3, <2>6, <3>2 DEF Progress, Ran
  <2>12. Pending(p)'
    BY <1>1, <1>3, <2>4, <2>5 DEF Work, Pending, Held, TxShape
  <2>13. Work(p)' /\ AtWork(p)'
    BY <1>1, <2>6, <2>8, <2>9, <2>10, <2>11, <2>12 DEF Work, AtWork
  <2>14. Prefix(db)'
    BY <1>1, <2>2, <2>5, <2>7 DEF Prefix, RowsTo, Rows
  <2>15. QED
    BY <1>1, <1>3, <2>5, <2>13, <2>14, OthersKept
<1>4. QED
  BY <1>1, <1>2, <1>3 DEF Statement

LEMMA RecordBooks ==
  ASSUME TypeOK, TypeOK', PhaseInv, LockInv, BooksInv, NEW p \in Proc, Record(p)
  PROVE  BooksInv'
<1>1. /\ pc[p] = "working" /\ pc[p] \in InPhase /\ AtWork(p) /\ Work(p)
      /\ Direction(p) \in {"up", "down"} /\ Prefix(db) /\ step[p] = Steps
      /\ UNCHANGED <<dialect, lock, cmd, todo, step, before>>
  BY DEF Record, InPhase, AtWork, BooksInv, Work, Prepared, Migrating
<1>2. CASE Throw(p) /\ UNCHANGED <<db, tx>>
  <2>1. AtWork(p)' /\ Work(p)'
    BY <1>1, <1>2, ThrowWork
  <2>2. Prefix(db)'
    BY <1>1, <1>2 DEF Prefix, RowsTo, Rows
  <2>3. QED
    BY <1>1, <1>2, <2>1, <2>2, OthersKept DEF Throw, Goto, TypeOK
<1>3. ASSUME NEW k \in At(p), Write(p, <<k, 0>>), Goto(p, "hooking"), UNCHANGED cut
      PROVE  BooksInv'
  <2>1. PICK m \in 0 .. FileCount, n \in 0 .. FileCount :
          RowsTo(View(p), m) /\ Ahead(p, m, n)
    BY <1>1 DEF Work, Spans
  <2>2. At(p) = {k} /\ k \in File /\ k = IF Direction(p) = "up" THEN m + 1 ELSE m
    BY <1>1, <1>3, <2>1, AtAhead
  <2>3. TxShape(p) /\ (tx[p].bound => tx[p].open)
    BY <1>1 DEF Work, TxShape, NoTx
  <2>4. /\ View(p)' = IF Direction(p) = "up" THEN View(p) \cup {<<k, 0>>}
                                             ELSE View(p) \ {<<k, 0>>}
        /\ Held(p)' => db' = db /\ Held(p)
        /\ ~Held(p)' => db' = View(p)' /\ tx'[p].add = {} /\ tx'[p].del = {}
        /\ tx'[p].open = tx[p].open /\ tx'[p].bound = tx[p].bound
        /\ ~tx[p].open => tx'[p] = tx[p]
        /\ dialect = "postgres" => ~tx'[p].over
        /\ \A q \in Proc \ {p} : tx'[q] = tx[q]
    BY <1>1, <1>3, <2>3, WriteSeen
  <2>5. /\ At(p)' = {k} /\ Direction(p)' = Direction(p)
        /\ pc'[p] = "hooking"
        /\ \A q \in Proc \ {p} : pc'[q] = pc[q]
    BY <1>1, <1>3, <2>2 DEF At, Direction, Goto, TypeOK
  <2>6. \E l \in 0 .. FileCount : Rows(View(p)') = 1 .. l /\ Behind(p, l, n)'
    <3>1. CASE Direction(p) = "up"
      <4>1. Rows(View(p)') = (1 .. m) \cup {m + 1}
        BY <2>1, <2>2, <2>4, <3>1, MigrationsAssumption DEF RowsTo, Rows
      <4>2. m + 1 \in 0 .. FileCount /\ Rows(View(p)') = 1 .. (m + 1)
        BY <2>1, <3>1, <4>1, MigrationsAssumption DEF Ahead
      <4>3. Behind(p, m + 1, n)'
        BY <1>1, <2>1, <2>5, <3>1, MigrationsAssumption DEF Ahead, Behind
      <4>4. QED
        BY <4>2, <4>3
    <3>2. CASE Direction(p) = "down"
      <4>1. Rows(View(p)') = (1 .. m) \ {m}
        BY <2>1, <2>2, <2>4, <3>2, MigrationsAssumption DEF RowsTo, Rows
      <4>2. m - 1 \in 0 .. FileCount /\ Rows(View(p)') = 1 .. (m - 1)
        BY <2>1, <3>2, <4>1, MigrationsAssumption DEF Ahead
      <4>3. Behind(p, m - 1, n)'
        BY <1>1, <2>1, <2>5, <3>2, MigrationsAssumption DEF Ahead, Behind
      <4>4. QED
        BY <4>2, <4>3
    <3>3. QED
      BY <1>1, <3>1, <3>2
  <2>7. Prepared(p)' /\ TxShape(p)'
    BY <1>1, <2>3, <2>4, <2>5 DEF Work, Prepared, Migrating, TxShape
  <2>8. Spans(p)'
    BY <2>5, <2>6 DEF Spans, RowsTo, Rows
  <2>9. Books(p)'
    <3>1. Agree(View(p), cut \cup {k})
      BY <1>1, <2>2 DEF Work, Books
    <3>2. Agree(View(p)', cut \cup {k})
      BY <2>4, <3>1 DEF Agree, Full, None
    <3>3. Held(p)' => Agree(db', cut)
      BY <1>1, <2>4 DEF Work, Books
    <3>4. QED
      BY <1>3, <2>5, <3>2, <3>3 DEF Books, Agree, Full, None
  <2>10. Progress(p)'
    <3>1. k \notin cut => Ran(View(p), k, Direction(p) = "up", Steps)
      BY <1>1, <2>2 DEF Work, Progress
    <3>2. k \notin cut => IF Direction(p) = "up" THEN Full(View(p)', k)
                                                 ELSE None(View(p)', k)
      <4>1. CASE Direction(p) = "up"
        BY <1>1, <2>4, <3>1, <4>1, MigrationsAssumption DEF Ran, Full
      <4>2. CASE Direction(p) = "down"
        BY <1>1, <2>4, <3>1, <4>2, MigrationsAssumption DEF Ran, None
      <4>3. QED
        BY <1>1, <4>1, <4>2
    <3>3. QED
      BY <1>3, <2>5, <3>2 DEF Progress, Full, None
  <2>11. Pending(p)'
    BY <1>1, <1>3, <2>3, <2>4, <2>5 DEF Work, Pending, Held, TxShape
  <2>12. Work(p)' /\ AtWork(p)'
    BY <2>5, <2>7, <2>8, <2>9, <2>10, <2>11 DEF Work, AtWork
  <2>13. Prefix(db)'
    BY <1>1, <2>4, <2>6 DEF Prefix, RowsTo, Rows
  <2>14. QED
    BY <1>1, <1>3, <2>4, <2>5, <2>12, <2>13, OthersKept
<1>4. QED
  BY <1>1, <1>2, <1>3 DEF Record

LEMMA HookBooks ==
  ASSUME TypeOK, TypeOK', PhaseInv, LockInv, BooksInv, NEW p \in Proc, Hook(p)
  PROVE  BooksInv'
<1>1. /\ pc[p] = "hooking" /\ pc[p] \in InPhase /\ AtWork(p) /\ Work(p)
      /\ Direction(p) \in {"up", "down"} /\ Prefix(db)
      /\ UNCHANGED <<dialect, db, lock, tx, before>>
  BY DEF Hook, InPhase, AtWork, BooksInv, Work, Prepared, Migrating
<1>2. Prefix(db)'
  BY <1>1 DEF Prefix, RowsTo, Rows
<1>3. CASE Throw(p) /\ UNCHANGED <<cmd, todo, step>>
  <2>1. AtWork(p)' /\ Work(p)'
    BY <1>1, <1>3, ThrowWork
  <2>2. QED
    BY <1>1, <1>2, <1>3, <2>1, OthersKept DEF Throw, Goto, TypeOK
<1>4. CASE /\ todo' = [todo EXCEPT ![p] = @ \ At(p)]
           /\ step' = [step EXCEPT ![p] = 0]
           /\ IF todo[p] # At(p)
                THEN Goto(p, "working") /\ UNCHANGED cmd
                ELSE IF tx[p].open THEN Goto(p, "committing") /\ UNCHANGED cmd
                                   ELSE PhaseEnds(p)
           /\ UNCHANGED cut
  <2>1. PICK m \in 0 .. FileCount, n \in 0 .. FileCount :
          RowsTo(View(p), m) /\ Behind(p, m, n)
    BY <1>1 DEF Work, Spans
  <2>2. /\ At(p) = {IF Direction(p) = "up" THEN m ELSE m + 1}
        /\ At(p) \subseteq File
        /\ todo[p] # At(p) =>
             IF Direction(p) = "up" THEN m < n /\ todo[p] \ At(p) = (m + 1) .. n
                                    ELSE n <= m /\ todo[p] \ At(p) = n .. m
        /\ todo[p] = At(p) => todo[p] \ At(p) = {}
    BY <1>1, <2>1, AtBehind
  <2>3. Agree(View(p), cut)
    <3>1. Agree(View(p), cut \cup At(p))
      BY <1>1 DEF Work, Books
    <3>2. \A k \in At(p) \ cut : Full(View(p), k) \/ None(View(p), k)
      BY <1>1 DEF Work, Progress
    <3>3. QED
      BY <3>1, <3>2 DEF Agree
  <2>4. /\ View(p)' = View(p) /\ TxShape(p) /\ (Held(p)' <=> Held(p))
        /\ todo'[p] = todo[p] \ At(p) /\ step'[p] = 0
        /\ \A q \in Proc \ {p} : todo'[q] = todo[q]
        /\ Held(p) => Agree(db, cut)
    BY <1>1, <1>4 DEF View, Work, Books, Held, TypeOK
  <2>5. CASE todo[p] # At(p)
    <3>1. /\ pc'[p] = "working" /\ cmd' = cmd
          /\ \A q \in Proc \ {p} : pc'[q] = pc[q]
          /\ Direction(p)' = Direction(p)
      BY <1>4, <2>5 DEF Goto, TypeOK, Direction
    <3>2. Ahead(p, m, n)'
      BY <1>1, <2>1, <2>2, <2>4, <2>5, <3>1 DEF Ahead, Behind
    <3>3. Prepared(p)' /\ TxShape(p)' /\ Pending(p)'
      BY <1>1, <2>4, <3>1 DEF Prepared, Migrating, TxShape, Held, Pending, Work
    <3>4. Spans(p)'
      BY <2>1, <2>4, <3>1, <3>2 DEF Spans, RowsTo, Rows
    <3>5. Books(p)'
      BY <1>1, <1>4, <2>3, <2>4, <3>1 DEF Books, Agree, Full, None
    <3>6. Progress(p)'
      <4>1. /\ At(p)' = {IF Direction(p) = "up" THEN m + 1 ELSE m}
            /\ At(p)' \subseteq File
        BY <1>1, <3>1, <3>2, AtAheadNext
      <4>2. \A k \in At(p)' \ cut : Ran(View(p), k, Direction(p) = "up", 0)
        BY <1>1, <2>1, <2>3, <4>1, Fresh
      <4>3. QED
        BY <1>4, <2>4, <3>1, <4>2 DEF Progress, Ran
    <3>7. Work(p)' /\ AtWork(p)'
      BY <3>1, <3>3, <3>4, <3>5, <3>6 DEF Work, AtWork
    <3>8. QED
      BY <1>1, <1>2, <2>4, <3>1, <3>7, OthersKept
  <2>6. CASE todo[p] = At(p) /\ tx[p].open
    <3>1. /\ pc'[p] = "committing" /\ cmd' = cmd /\ todo'[p] = {}
          /\ \A q \in Proc \ {p} : pc'[q] = pc[q]
      BY <1>4, <2>2, <2>4, <2>6 DEF Goto, TypeOK
    <3>2. At(p)' = {}
      BY <3>1 DEF At
    <3>3. Prepared(p)' /\ TxShape(p)' /\ Pending(p)'
      BY <1>1, <2>4, <2>6, <3>1 DEF Prepared, Migrating, TxShape, Held, Pending, Work
    <3>4. Spans(p)'
      BY <2>1, <2>4, <3>1 DEF Spans, Prefix, RowsTo, Rows
    <3>5. Books(p)'
      BY <1>1, <1>4, <2>3, <2>4, <3>1 DEF Books, Agree, Full, None
    <3>6. Progress(p)'
      BY <3>2 DEF Progress
    <3>7. Work(p)' /\ AtWork(p)'
      BY <3>1, <3>3, <3>4, <3>5, <3>6 DEF Work, AtWork
    <3>8. QED
      BY <1>1, <1>2, <2>4, <3>1, <3>7, OthersKept
  <2>7. CASE todo[p] = At(p) /\ ~tx[p].open
    <3>1. PhaseEnds(p) /\ todo'[p] = {}
      BY <1>4, <2>2, <2>4, <2>7
    <3>2. tx[p] = NoTx /\ tx'[p] = NoTx /\ View(p) = db
      BY <1>1, <2>4, <2>7 DEF TxShape, View, NoTx
    <3>3. Agree(db, cut)'
      BY <1>1, <1>4, <2>3, <3>2 DEF Agree, Full, None
    <3>4. AtWork(p)' /\ Work(p)'
      BY <1>1, <3>1, <3>2, <3>3, PhaseEndsWork
    <3>5. QED
      BY <1>1, <1>2, <2>4, <3>1, <3>4, PhaseEndsTyped, OthersKept
         DEF PhaseEnds, Goto, TypeOK
  <2>8. QED
    BY <2>5, <2>6, <2>7
<1>5. QED
  BY <1>3, <1>4 DEF Hook

\* The transaction ends: what it held is in the database, or is not.
LEMMA CommitBooks ==
  ASSUME TypeOK, TypeOK', PhaseInv, LockInv, BooksInv, NEW p \in Proc,
         Commit(p) \/ Rollback(p)
  PROVE  BooksInv'
<1>1. AtWork(p) /\ Work(p) /\ Prefix(db)
  BY DEF Commit, Rollback, AtWork, BooksInv
<1>2. CASE Commit(p) /\ Throw(p) /\ UNCHANGED <<db, cmd>>
  <2>1. pc[p] = "committing" /\ pc[p] \in InPhase /\ tx[p].open
    BY <1>1, <1>2 DEF Commit, InPhase, Work, TxShape
  <2>2. pc'[p] = "rollingback"
    BY <1>2, <2>1 DEF Throw, Goto, TypeOK
  <2>3. tx' = tx
    BY <1>2, <2>2 DEF Commit, TypeOK
  <2>4. AtWork(p)' /\ Work(p)'
    BY <1>1, <1>2, <2>1, <2>3, ThrowWork DEF Commit
  <2>5. Prefix(db)'
    BY <1>1, <1>2 DEF Prefix, RowsTo, Rows
  <2>6. QED
    BY <1>1, <1>2, <2>3, <2>4, <2>5, OthersKept DEF Commit, Throw, Goto, TypeOK
<1>3. CASE Commit(p) /\ db' = View(p) /\ PhaseEnds(p) /\ UNCHANGED cut
  <2>1. pc[p] = "committing" /\ pc[p] \in InPhase
    BY <1>3 DEF Commit, InPhase
  <2>2. pc'[p] # "rollingback"
    BY <1>3 DEF PhaseEnds, Goto, TypeOK
  <2>3. /\ tx' = [tx EXCEPT ![p] = NoTx] /\ todo' = todo
        /\ UNCHANGED <<dialect, lock, step, before>>
    BY <1>3, <2>2 DEF Commit
  <2>4. tx'[p] = NoTx /\ todo'[p] = {} /\ \A q \in Proc \ {p} : tx'[q] = tx[q]
    BY <1>1, <2>1, <2>3 DEF Work, Prepared, TypeOK
  <2>5. Agree(db, cut)' /\ Prefix(db)'
    BY <1>1, <1>3, <2>1 DEF Work, Books, Spans, Agree, Full, None, Prefix, RowsTo, Rows
  <2>6. AtWork(p)' /\ Work(p)'
    BY <1>3, <2>1, <2>4, <2>5, PhaseEndsWork
  <2>7. QED
    BY <1>1, <1>3, <2>1, <2>3, <2>4, <2>5, <2>6, PhaseEndsTyped, OthersKept
       DEF PhaseEnds, Goto, TypeOK
<1>4. CASE Rollback(p)
  <2>1. /\ pc[p] = "rollingback" /\ pc'[p] = "unlocking" /\ tx'[p] = NoTx
        /\ \A q \in Proc \ {p} : pc'[q] = pc[q] /\ tx'[q] = tx[q]
        /\ UNCHANGED <<dialect, db, lock, cmd, todo, step, before, cut>>
    BY <1>4 DEF Rollback, Goto, TypeOK
  <2>2. Agree(db, cut)' /\ Prefix(db)'
    BY <1>1, <2>1 DEF Work, Books, Agree, Full, None, Prefix, RowsTo, Rows
  <2>3. AtWork(p)' /\ Work(p)'
    BY <2>1, <2>2 DEF Work, Prepared, Migrating, TxShape, Held, NoTx, Spans, Books,
       Progress, Pending, AtWork
  <2>4. QED
    BY <1>1, <2>1, <2>2, <2>3, OthersKept
<1>5. QED
  BY <1>2, <1>3, <1>4 DEF Commit

LEMMA InitBooks == Init => BooksInv
<1> SUFFICES ASSUME Init PROVE BooksInv
  OBVIOUS
<1>1. PICK m \in 0 .. FileCount : db = (1 .. m) \X (0 .. Steps)
  BY DEF Init
<1>2. Rows(db) = 1 .. m
  BY <1>1, MigrationsAssumption DEF Rows, File
<1>3. Agree(db, cut)
  BY <1>1 DEF Agree, Full, None
<1>4. QED
  BY <1>2, <1>3 DEF Init, BooksInv, ClientAlone, Over, Prefix, RowsTo, AtWork, Quiet

LEMMA BooksStep ==
  ASSUME ~Overlap, TypeOK, PhaseInv, LockInv, BooksInv, [Next]_vars
  PROVE  BooksInv'
<1>1. TypeOK' /\ LockInv'
  BY Inductive
<1>2. CASE UNCHANGED vars
  <2>1. /\ UNCHANGED <<dialect, db, lock, pc, cmd, todo, step, tx, stray, before, cut>>
    BY <1>2 DEF vars
  <2>2. \A q \in Proc : IF AtWork(q)' THEN Work(q)' ELSE Quiet(q)'
    BY <2>1, Untouched DEF BooksInv
  <2>3. ClientAlone' /\ Prefix(db)'
    BY <2>1 DEF BooksInv, ClientAlone, Over, Prefix, RowsTo, Rows
  <2>4. (\A q \in Proc : ~AtWork(q)') => Agree(db, cut)'
    BY <2>1 DEF BooksInv, AtWork, Agree, Full, None
  <2>5. QED
    BY <2>2, <2>3, <2>4 DEF BooksInv
<1>3. ASSUME NEW p \in Proc, Step(p) PROVE BooksInv'
  <2>1. CASE Migrate(p) \/ RollbackCommand(p) \/ Refresh(p) \/ ClientMigrate(p)
    BY <2>1, StartsBooks DEF Migrate, RollbackCommand, Refresh, ClientMigrate
  <2>2. CASE Lock(p)
    BY <1>1, <2>2, LockBooks
  <2>3. CASE Read(p)
    BY <1>1, <2>3, ReadBooks
  <2>4. CASE List(p) \/ Drop(p)
    BY <1>1, <2>4, DropBooks
  <2>5. CASE Begin(p)
    BY <1>1, <2>5, BeginBooks
  <2>6. CASE Statement(p)
    BY <1>1, <2>6, StatementBooks
  <2>7. CASE Record(p)
    BY <1>1, <2>7, RecordBooks
  <2>8. CASE Hook(p)
    BY <1>1, <2>8, HookBooks
  <2>9. CASE Commit(p) \/ Rollback(p)
    BY <1>1, <2>9, CommitBooks
  <2>10. CASE Unlock(p) \/ Close(p) \/ Crash(p)
    BY <1>1, <2>10, EndBooks
  <2>11. QED
    BY <1>3, <2>1, <2>2, <2>3, <2>4, <2>5, <2>6, <2>7, <2>8, <2>9, <2>10
       DEF Step, Continue
<1>4. QED
  BY <1>2, <1>3 DEF Next, Step

\* The strengthening, for applications that run a ClientMigrator on its own only.
THEOREM BooksInvariant == ASSUME ~Overlap PROVE Spec => []BooksInv
<1>1. TypeOK /\ PhaseInv /\ LockInv /\ BooksInv /\ [Next]_vars => BooksInv'
  BY BooksStep
<1>2. QED
  BY <1>1, InitBooks, LockInvariant, PTL DEF Spec

\* The migrations with a row are the first files, in order, whatever fails or dies.
THEOREM RecordedInOrder == ASSUME ~Overlap PROVE Spec => []PrefixRecorded
<1>1. BooksInv => PrefixRecorded
  BY DEF BooksInv, Prefix, RowsTo, PrefixRecorded
<1>2. QED
  BY <1>1, BooksInvariant, PTL

\* Row and statements of a migration agree, but for the migrations somebody is at or
\* failed or died at.
THEOREM RowsMatchSchema == ASSUME ~Overlap PROVE Spec => []BooksAgree
<1>1. TypeOK /\ BooksInv => BooksAgree
  <2>1. SUFFICES ASSUME TypeOK, BooksInv PROVE BooksAgree
    OBVIOUS
  <2>2. CASE \E p \in Proc : AtWork(p)
    <3>1. PICK p \in Proc : AtWork(p)
      BY <2>2
    <3>2. Agree(db, cut \cup At(p))
      BY <2>1, <3>1, AgreeHere DEF BooksInv
    <3>3. QED
      BY <3>2 DEF Agree, Full, None, BooksAgree
  <2>3. CASE \A p \in Proc : ~AtWork(p)
    BY <2>1, <2>3 DEF BooksInv, Agree, Full, None, BooksAgree
  <2>4. QED
    BY <2>2, <2>3
<1>2. QED
  BY <1>1, BooksInvariant, LockInvariant, PTL

\* A named run or rollback that fails on postgres leaves the database as it found it.
THEOREM NamedRunsUndone == ASSUME ~Overlap PROVE Spec => []FailureUndone
<1>1. BooksInv => FailureUndone
  BY DEF BooksInv, AtWork, Work, TxShape, Pending, FailureUndone
<1>2. QED
  BY <1>1, BooksInvariant, PTL
=============================================================================
