----------------------- MODULE GlobalTransactionProofs -----------------------
(***************************************************************************)
(* What holds of GlobalTransaction for every number of tasks, whatever     *)
(* fails. That no two global transactions are active needs ends and        *)
(* disconnect() not to overlap each other or a start (~Overlap): the run   *)
(* global_overlap shows why.                                               *)
(***************************************************************************)
EXTENDS GlobalTransaction, TLAPS

\* Every variable keeps its shape under every action of the data source.
THEOREM TypeCorrect == Spec => []TypeOK
<1>1. Init => TypeOK
  BY DEF Init, TypeOK
<1>2. TypeOK /\ [Next]_vars => TypeOK'
  <2> SUFFICES ASSUME TypeOK, [Next]_vars
               PROVE  TypeOK'
    OBVIOUS
  <2>1. ASSUME NEW a \in Starter,
               WaitForLock(a) \/ Check(a) \/ Connected(a) \/ ConnectFails(a)
                 \/ Began(a) \/ BeginFails(a) \/ EndObject(a)
        PROVE  TypeOK'
    BY <2>1 DEF TypeOK, WaitForLock, Check, Connected, ConnectFails, Began, BeginFails,
                EndObject, Over
  <2>2. ASSUME NEW e \in Ender, EndGlobal(e)
        PROVE  TypeOK'
    BY <2>2 DEF TypeOK, EndGlobal
  <2>3. ASSUME NEW e \in Ender, EndAnswered(e)
        PROVE  TypeOK'
    <3>1. end[e] \in [stage : {"idle", "sent", "settled"}, on : Starter \cup {None}]
      BY DEF TypeOK
    <3>2. [end[e] EXCEPT !.stage = "settled"]
            \in [stage : {"idle", "sent", "settled"}, on : Starter \cup {None}]
      BY <3>1
    <3>3. QED
      BY <2>3, <3>2 DEF TypeOK, EndAnswered, Over
  <2>4. CASE Disconnect \/ RolledBack \/ Ended
    BY <2>4 DEF TypeOK, Disconnect, RolledBack, Ended, Over
  <2>5. CASE UNCHANGED vars
    BY <2>5 DEF TypeOK, vars
  <2>6. QED
    BY <2>1, <2>2, <2>3, <2>4, <2>5 DEF Next
<1>3. QED
  BY <1>1, <1>2, PTL DEF Spec

\* The steps of startGlobalTransaction() keep the lock, the reference and the
\* transactions in agreement.
LEMMA StartStep ==
  ASSUME TypeOK, GlobalInv, NEW a \in Starter,
         \/ WaitForLock(a) \/ Check(a) \/ Connected(a) \/ ConnectFails(a)
         \/ Began(a) \/ BeginFails(a)
  PROVE  GlobalInv'
<1> USE NoStarterAssumption
<1>1. CASE WaitForLock(a)
  BY <1>1 DEF TypeOK, GlobalInv, StartsLocked, LockExcludes, EndsTheGlobal, GlobalIsActive,
              WaitForLock
<1>2. CASE Check(a)
  <2>1. CASE GlobalIsActive
    BY <1>2, <2>1 DEF TypeOK, GlobalInv, StartsLocked, LockExcludes, EndsTheGlobal,
                      GlobalIsActive, Check
  <2>2. CASE ~GlobalIsActive
    <3>1. \A b \in Starter : ~active[b]
      BY <2>2 DEF TypeOK, GlobalInv, StartsLocked, GlobalIsActive
    <3>2. (\A e \in Ender : end[e].stage # "sent") /\ closing # "rollingback"
      BY <2>2 DEF GlobalInv, EndsTheGlobal
    <3>3. QED
      BY <1>2, <2>2, <3>1, <3>2 DEF TypeOK, GlobalInv, StartsLocked, LockExcludes,
                                    EndsTheGlobal, GlobalIsActive, Check
  <2>3. QED
    BY <2>1, <2>2
<1>3. CASE Connected(a)
  <2>1. lock = a
    BY <1>3 DEF GlobalInv, StartsLocked, Connected
  <2>2. QED
    BY <1>3, <2>1 DEF TypeOK, GlobalInv, StartsLocked, LockExcludes, EndsTheGlobal,
                      GlobalIsActive, Connected
<1>4. CASE ConnectFails(a)
  BY <1>4 DEF TypeOK, GlobalInv, StartsLocked, LockExcludes, EndsTheGlobal, GlobalIsActive,
              ConnectFails
<1>5. CASE Began(a)
  <2>1. lock = a /\ gt = a
    BY <1>5 DEF GlobalInv, StartsLocked, Began
  <2>2. QED
    BY <1>5, <2>1 DEF TypeOK, GlobalInv, StartsLocked, LockExcludes, EndsTheGlobal,
                      GlobalIsActive, Began
<1>6. CASE BeginFails(a)
  BY <1>6 DEF TypeOK, GlobalInv, StartsLocked, LockExcludes, EndsTheGlobal, GlobalIsActive,
              BeginFails
<1>7. QED
  BY <1>1, <1>2, <1>3, <1>4, <1>5, <1>6

\* When nothing overlaps, an end takes away the only active global transaction,
\* and only that one.
LEMMA EndStep ==
  ASSUME ~Overlap, TypeOK, GlobalInv,
         \/ \E a \in Starter : EndObject(a)
         \/ \E e \in Ender : EndGlobal(e) \/ EndAnswered(e)
  PROVE  GlobalInv'
<1> USE NoStarterAssumption
<1>1. ASSUME NEW a \in Starter, EndObject(a)
      PROVE  GlobalInv'
  BY <1>1 DEF TypeOK, GlobalInv, StartsLocked, LockExcludes, EndsTheGlobal, GlobalIsActive,
              EndObject, Over, Alone
<1>2. ASSUME NEW e \in Ender, EndGlobal(e)
      PROVE  GlobalInv'
  <2>1. CASE GlobalIsActive
    BY <1>2, <2>1 DEF TypeOK, GlobalInv, StartsLocked, LockExcludes, EndsTheGlobal,
                      GlobalIsActive, EndGlobal, Alone
  <2>2. CASE ~GlobalIsActive
    <3>1. \A b \in Starter : ~active[b]
      BY <2>2 DEF TypeOK, GlobalInv, StartsLocked, GlobalIsActive
    <3>2. QED
      BY <1>2, <2>2, <3>1 DEF TypeOK, GlobalInv, StartsLocked, LockExcludes, EndsTheGlobal,
                              GlobalIsActive, EndGlobal, Alone
  <2>3. QED
    BY <2>1, <2>2
<1>3. ASSUME NEW e \in Ender, EndAnswered(e)
      PROVE  GlobalInv'
  <2>1. end[e].on = gt /\ GlobalIsActive /\ closing = "idle"
        /\ \A f \in Ender : end[f].stage = "sent" => f = e
    BY <1>3 DEF GlobalInv, EndsTheGlobal, EndAnswered
  <2>2. lock = None
    BY <2>1 DEF TypeOK, GlobalInv, LockExcludes, GlobalIsActive
  <2>3. \A f \in Ender : end'[f].stage # "sent"
    BY <1>3, <2>1 DEF TypeOK, EndAnswered
  <2>4. \A b \in Starter : ~active'[b]
    BY <1>3, <2>1 DEF TypeOK, GlobalInv, StartsLocked, EndAnswered, Over
  <2>5. QED
    BY <1>3, <2>1, <2>2, <2>3, <2>4 DEF TypeOK, GlobalInv, StartsLocked, LockExcludes,
                      EndsTheGlobal, GlobalIsActive, EndAnswered, Over
<1>4. QED
  BY <1>1, <1>2, <1>3

\* disconnect() rolls back the active global transaction and no other.
LEMMA CloseStep ==
  ASSUME ~Overlap, TypeOK, GlobalInv, Disconnect \/ RolledBack \/ Ended
  PROVE  GlobalInv'
<1> USE NoStarterAssumption
<1>1. CASE Disconnect
  BY <1>1 DEF TypeOK, GlobalInv, StartsLocked, LockExcludes, EndsTheGlobal, GlobalIsActive,
              Disconnect, Alone
<1>2. CASE RolledBack
  <2>1. closes = gt /\ GlobalIsActive /\ lock = None
        /\ \A f \in Ender : end[f].stage # "sent"
    BY <1>2 DEF TypeOK, GlobalInv, LockExcludes, EndsTheGlobal, GlobalIsActive, RolledBack
  <2>2. QED
    BY <1>2, <2>1 DEF TypeOK, GlobalInv, StartsLocked, LockExcludes, EndsTheGlobal,
                      GlobalIsActive, RolledBack, Over
<1>3. CASE Ended
  BY <1>3 DEF TypeOK, GlobalInv, StartsLocked, LockExcludes, EndsTheGlobal, GlobalIsActive,
              Ended
<1>4. QED
  BY <1>1, <1>2, <1>3

\* When ends and disconnect() do not overlap anything, lock, reference and
\* transactions agree at every moment.
THEOREM GlobalInvariant ==
  ASSUME ~Overlap
  PROVE  Spec => []GlobalInv
<1>1. Init => GlobalInv
  BY NoStarterAssumption DEF Init, GlobalInv, StartsLocked, LockExcludes, EndsTheGlobal,
                             GlobalIsActive
<1>2. TypeOK /\ GlobalInv /\ [Next]_vars => GlobalInv'
  <2> SUFFICES ASSUME TypeOK, GlobalInv, [Next]_vars
               PROVE  GlobalInv'
    OBVIOUS
  <2>1. CASE UNCHANGED vars
    BY <2>1 DEF vars, GlobalInv, StartsLocked, LockExcludes, EndsTheGlobal, GlobalIsActive
  <2>2. CASE Next
    BY <2>2, StartStep, EndStep, CloseStep DEF Next
  <2>3. QED
    BY <2>1, <2>2
<1>3. QED
  BY <1>1, <1>2, TypeCorrect, PTL DEF Spec

\* startGlobalTransaction() never yields a second active global transaction.
THEOREM OneGlobalTransaction ==
  ASSUME ~Overlap
  PROVE  Spec => []AtMostOneActive
<1>1. GlobalInv => AtMostOneActive
  BY DEF GlobalInv, StartsLocked, AtMostOneActive
<1>2. QED
  BY <1>1, GlobalInvariant, PTL

\* The active global transaction is the one the data source refers to.
THEOREM ActiveStaysGlobal ==
  ASSUME ~Overlap
  PROVE  Spec => []ActiveIsGlobal
<1>1. GlobalInv => ActiveIsGlobal
  BY DEF GlobalInv, StartsLocked, ActiveIsGlobal
<1>2. QED
  BY <1>1, GlobalInvariant, PTL

\* Whatever fails, a connection that is out of the pool without a transaction
\* that is active or about to be can only be one whose BEGIN was rejected.
THEOREM NoLeakUnlessRejected ==
  ASSUME ~Overlap
  PROVE  Spec => []NothingLeaked
<1>1. TypeOK /\ GlobalInv => NothingLeaked
  BY DEF TypeOK, GlobalInv, StartsLocked, NothingLeaked
<1>2. QED
  BY <1>1, TypeCorrect, GlobalInvariant, PTL
==============================================================================
