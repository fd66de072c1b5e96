----------------------- MODULE ConnectionLifecycleProofs -----------------------
(***************************************************************************)
(* What holds of ConnectionLifecycle for every number of tasks, whatever   *)
(* is rejected, when disconnect() and the application's own connect() do   *)
(* not overlap a call under way (~Overlap). Statements connect lazily as   *)
(* they like.                                                              *)
(***************************************************************************)
EXTENDS ConnectionLifecycle, TLAPS

USE DEF Pool

\* Every variable keeps its shape under every step of connect() and disconnect().
THEOREM TypeCorrect == Spec => []TypeOK
<1>1. Init => TypeOK
  BY DEF Init, TypeOK
<1>2. TypeOK /\ [Next]_vars => TypeOK'
  <2> SUFFICES ASSUME TypeOK, [Next]_vars
               PROVE  TypeOK'
    OBVIOUS
  <2> USE LifecycleAssumption
  <2>1. ASSUME NEW c \in Caller, Connect(c) \/ Ensure(c)
        PROVE  TypeOK'
    BY <2>1 DEF TypeOK, Connect, Ensure, Starts, Settles, closeVars
  <2>2. ASSUME NEW c \in Caller, MasterUp(c)
        PROVE  TypeOK'
    BY <2>2 DEF TypeOK, MasterUp, closeVars
  <2>3. ASSUME NEW c \in Caller, MasterFails(c)
        PROVE  TypeOK'
    BY <2>3 DEF TypeOK, MasterFails, Cleanup, closeVars
  <2>4. ASSUME NEW c \in Caller, Resume(c)
        PROVE  TypeOK'
    BY <2>4 DEF TypeOK, Resume, Settles, closeVars
  <2>5. ASSUME NEW c \in Caller, NEW r \in Replica, ReplicaUp(c, r)
        PROVE  TypeOK'
    <3>1. attempt' \in [Caller -> {"none", "master", "slaves", "connected", "failed"}]
      BY <2>5 DEF TypeOK, ReplicaUp
    <3>2. spool' \in [Replica -> Pool \cup {None}]
          /\ \A q \in Replica : spool'[q] \in (Caller \X {q}) \cup {None}
      BY <2>5 DEF TypeOK, ReplicaUp
    <3>3. QED
      BY <2>5, <3>1, <3>2 DEF TypeOK, ReplicaUp, closeVars
  <2>6. ASSUME NEW c \in Caller, NEW r \in Replica, ReplicaFails(c, r)
        PROVE  TypeOK'
    BY <2>6 DEF TypeOK, ReplicaFails, Cleanup, closeVars
  <2>7. CASE Forget
    BY <2>7 DEF TypeOK, Forget, closeVars
  <2>8. ASSUME NEW d \in Closer,
               \/ Disconnect(d) \/ CacheClosed(d) \/ CacheFails(d)
               \/ EndPool(d) \/ PoolEnded(d) \/ PoolEndFails(d)
        PROVE  TypeOK'
    BY <2>8 DEF TypeOK, Disconnect, CacheClosed, CacheFails, EndPool, Ends, PoolEnded,
                PoolEndFails, GoesOn, callVars
  <2>9. ASSUME NEW d \in Closer, NEW r \in Replica,
               ReplicaClosed(d, r) \/ ReplicaCloseFails(d, r)
        PROVE  TypeOK'
    BY <2>9 DEF TypeOK, ReplicaClosed, ReplicaCloseFails, callVars
  <2>10. CASE UNCHANGED vars
    BY <2>10 DEF TypeOK, vars
  <2>11. QED
    BY <2>1, <2>2, <2>3, <2>4, <2>5, <2>6, <2>7, <2>8, <2>9, <2>10 DEF Next
<1>3. QED
  BY <1>1, <1>2, PTL DEF Spec

\* The steps of connect(): a call starts only where nothing else is under way.
LEMMA ConnectStep ==
  ASSUME ~Overlap, TypeOK, LifecycleInv, NEW c \in Caller,
         \/ Connect(c) \/ Ensure(c) \/ MasterUp(c) \/ MasterFails(c) \/ Resume(c)
         \/ \E r \in Replica : ReplicaUp(c, r) \/ ReplicaFails(c, r)
  PROVE  LifecycleInv'
<1> USE LifecycleAssumption, NoPoolAssumption
<1>1. CASE Connect(c)
  BY <1>1 DEF Connect, Starts, Settles, Quiet, closeVars, IsConnected,
              TypeOK, LifecycleInv, OneAtATime, NoDeadPool, InFlight, Closing
<1>2. CASE Ensure(c)
  BY <1>2 DEF Ensure, Starts, Settles, closeVars, IsConnected,
              TypeOK, LifecycleInv, OneAtATime, NoDeadPool, InFlight, Closing
<1>3. CASE MasterUp(c)
  BY <1>3 DEF MasterUp, closeVars,
              TypeOK, LifecycleInv, OneAtATime, NoDeadPool, InFlight, Closing
<1>4. CASE MasterFails(c)
  BY <1>4 DEF MasterFails, Cleanup, closeVars,
              TypeOK, LifecycleInv, OneAtATime, NoDeadPool, InFlight, Closing
<1>5. CASE Resume(c)
  BY <1>5 DEF Resume, Settles, closeVars,
              TypeOK, LifecycleInv, OneAtATime, NoDeadPool, InFlight, Closing
<1>6. ASSUME NEW r \in Replica, ReplicaUp(c, r)
      PROVE  LifecycleInv'
  <2>1. \A b \in Caller : InFlight(b)' => InFlight(b)
    BY <1>6 DEF ReplicaUp, TypeOK, InFlight
  <2>2. OneAtATime'
    BY <1>6, <2>1 DEF ReplicaUp, closeVars, LifecycleInv, OneAtATime, Closing
  <2>3. NoDeadPool'
    BY <1>6 DEF ReplicaUp, TypeOK, LifecycleInv, NoDeadPool
  <2>4. QED
    BY <2>2, <2>3 DEF LifecycleInv
<1>7. ASSUME NEW r \in Replica, ReplicaFails(c, r)
      PROVE  LifecycleInv'
  <2>1. CASE attempt[c] = "slaves"
    BY <1>7, <2>1 DEF ReplicaFails, Cleanup, closeVars,
                      TypeOK, LifecycleInv, OneAtATime, NoDeadPool, InFlight, Closing
  <2>2. CASE attempt[c] # "slaves"
    BY <1>7, <2>2 DEF ReplicaFails, closeVars,
                      TypeOK, LifecycleInv, OneAtATime, NoDeadPool, InFlight, Closing
  <2>3. QED
    BY <2>1, <2>2
<1>8. QED
  BY <1>1, <1>2, <1>3, <1>4, <1>5, <1>6, <1>7

\* The steps of disconnect(): it closes the pools it found and no other.
LEMMA DisconnectStep ==
  ASSUME ~Overlap, TypeOK, LifecycleInv, NEW d \in Closer,
         \/ Disconnect(d) \/ CacheClosed(d) \/ CacheFails(d)
         \/ EndPool(d) \/ PoolEnded(d) \/ PoolEndFails(d)
         \/ \E r \in Replica : ReplicaClosed(d, r) \/ ReplicaCloseFails(d, r)
  PROVE  LifecycleInv'
<1> USE LifecycleAssumption, NoPoolAssumption
<1>1. CASE Disconnect(d)
  BY <1>1 DEF Disconnect, GoesOn, Quiet, IsConnected, callVars,
              TypeOK, LifecycleInv, OneAtATime, NoDeadPool, InFlight, Closing
<1>2. CASE CacheClosed(d) \/ CacheFails(d) \/ PoolEndFails(d)
  BY <1>2 DEF CacheClosed, CacheFails, PoolEndFails, GoesOn, callVars,
              TypeOK, LifecycleInv, OneAtATime, NoDeadPool, InFlight, Closing
<1>3. CASE EndPool(d)
  BY <1>3 DEF EndPool, Ends, GoesOn, callVars,
              TypeOK, LifecycleInv, OneAtATime, NoDeadPool, InFlight, Closing
<1>4. CASE PoolEnded(d)
  <2>1. ending[d] = pool /\ \A e \in Closer : Closing(e) => e = d
    BY <1>4 DEF PoolEnded, LifecycleInv, OneAtATime, Closing
  <2>2. \A e \in Closer : ~Closing(e)'
    BY <1>4, <2>1 DEF PoolEnded, GoesOn, TypeOK, Closing
  <2>3. OneAtATime'
    BY <1>4, <2>2 DEF PoolEnded, callVars, LifecycleInv, OneAtATime, InFlight
  <2>4. NoDeadPool'
    <3>1. \A r \in Replica : spool[r] # None => spool[r] # pool
      BY DEF TypeOK
    <3>2. QED
      BY <1>4, <2>1, <3>1 DEF PoolEnded, LifecycleInv, NoDeadPool
  <2>5. QED
    BY <2>3, <2>4 DEF LifecycleInv
<1>5. ASSUME NEW r \in Replica, ReplicaClosed(d, r)
      PROVE  LifecycleInv'
  <2>1. pool # None => pool # spool[r]
    BY <1>5 DEF TypeOK
  <2>2. \A q \in Replica \ {r} : spool[q] # None => spool[q] # spool[r]
    BY <1>5 DEF TypeOK
  <2>3. NoDeadPool'
    BY <1>5, <2>1, <2>2 DEF ReplicaClosed, TypeOK, LifecycleInv, NoDeadPool
  <2>4. OneAtATime'
    BY <1>5 DEF ReplicaClosed, callVars, LifecycleInv, OneAtATime, InFlight, Closing
  <2>5. QED
    BY <2>3, <2>4 DEF LifecycleInv
<1>6. ASSUME NEW r \in Replica, ReplicaCloseFails(d, r)
      PROVE  LifecycleInv'
  BY <1>6 DEF ReplicaCloseFails, callVars,
              LifecycleInv, OneAtATime, NoDeadPool, InFlight, Closing
<1>7. QED
  BY <1>1, <1>2, <1>3, <1>4, <1>5, <1>6

\* Connecting and disconnecting exclude each other, and no reference outlives
\* the pool it points to.
THEOREM LifecycleInvariant ==
  ASSUME ~Overlap
  PROVE  Spec => []LifecycleInv
<1>1. Init => LifecycleInv
  BY DEF Init, LifecycleInv, OneAtATime, NoDeadPool, InFlight, Closing
<1>2. TypeOK /\ LifecycleInv /\ [Next]_vars => LifecycleInv'
  <2> SUFFICES ASSUME TypeOK, LifecycleInv, [Next]_vars
               PROVE  LifecycleInv'
    OBVIOUS
  <2>1. CASE Forget
    BY <2>1 DEF Forget, closeVars, LifecycleInv, OneAtATime, NoDeadPool, InFlight, Closing
  <2>2. CASE UNCHANGED vars
    BY <2>2 DEF vars, LifecycleInv, OneAtATime, NoDeadPool, InFlight, Closing
  <2>3. QED
    BY <2>1, <2>2, ConnectStep, DisconnectStep DEF Next
<1>3. QED
  BY <1>1, <1>2, TypeCorrect, PTL DEF Spec

\* One connect() call runs at a time.
THEOREM OneAttempt ==
  ASSUME ~Overlap
  PROVE  Spec => []SingleAttempt
<1>1. LifecycleInv => SingleAttempt
  BY DEF LifecycleInv, OneAtATime, SingleAttempt
<1>2. QED
  BY <1>1, LifecycleInvariant, PTL

\* The data source never refers to a pool that was ended.
THEOREM NeverDeadPool ==
  ASSUME ~Overlap
  PROVE  Spec => []NoDeadPool
<1>1. LifecycleInv => NoDeadPool
  BY DEF LifecycleInv
<1>2. QED
  BY <1>1, LifecycleInvariant, PTL

-----------------------------------------------------------------------------
(* With one replica, what is open is referred to or was given up.          *)

OneReplica == \A q, r \in Replica : q = r

\* The catch block of connect() gives up every pool it forgets.
LEMMA CleanupAccounts ==
  ASSUME TypeOK, LifecycleInv, AccountInv, NEW c \in Caller, InFlight(c), Cleanup(c),
         pending' \in [Caller -> SUBSET Replica], pending'[c] = {},
         \A b \in Caller \ {c} : pending'[b] = pending[b],
         UNCHANGED <<close, todo, live>>
  PROVE  AccountInv'
<1>1. PoolsAccounted'
  <2>1. live \subseteq lost'
    BY DEF Cleanup, AccountInv, PoolsAccounted
  <2>2. QED
    BY <2>1 DEF PoolsAccounted
<1>2. \A r \in Replica : Free(r)'
  BY DEF Cleanup, Free
<1>3. \A b \in Caller : attempt'[b] \notin {"master", "slaves"} /\ pending'[b] = {}
  BY DEF Cleanup, TypeOK, LifecycleInv, OneAtATime, AccountInv, NothingLate, InFlight
<1>4. NothingLate'
  BY <1>2, <1>3 DEF TypeOK, AccountInv, NothingLate, Free
<1>5. QED
  BY <1>1, <1>4 DEF AccountInv

\* connect() finds no pool and leaves none behind that it does not refer to.
LEMMA ConnectAccounts ==
  ASSUME OneReplica, ~Overlap, TypeOK, LifecycleInv, AccountInv, NEW c \in Caller,
         \/ Connect(c) \/ Ensure(c) \/ MasterUp(c) \/ MasterFails(c) \/ Resume(c)
         \/ \E r \in Replica : ReplicaUp(c, r) \/ ReplicaFails(c, r)
  PROVE  AccountInv'
<1> USE LifecycleAssumption, NoPoolAssumption
<1>1. CASE Connect(c)
  BY <1>1 DEF Connect, Starts, Settles, closeVars, IsConnected,
              TypeOK, AccountInv, NothingLate, PoolsAccounted, Free, Quiet, InFlight
<1>2. CASE Ensure(c)
  BY <1>2 DEF Ensure, Starts, Settles, closeVars, IsConnected,
              TypeOK, AccountInv, NothingLate, PoolsAccounted, Free, LifecycleInv, OneAtATime,
              InFlight
<1>3. CASE MasterUp(c)
  <2>1. pool = None /\ \A r \in Replica : Free(r)
    BY <1>3 DEF MasterUp, AccountInv, NothingLate
  <2>2. \A d \in Closer : ~Closing(d)
    BY <1>3 DEF MasterUp, LifecycleInv, OneAtATime, InFlight
  <2>3. \A b \in Caller : attempt[b] = "master" => b = c
    BY <1>3 DEF MasterUp, LifecycleInv, OneAtATime, InFlight
  <2>4. pool' # None
    BY <1>3 DEF MasterUp
  <2>5. \A b \in Caller : /\ pending'[b] # {} => attempt'[b] = "slaves"
                          /\ attempt'[b] # "master"
    BY <1>3, <2>3 DEF MasterUp, TypeOK, AccountInv, NothingLate
  <2>6. NothingLate'
    <3>1. \A r \in Replica : Free(r)'
      BY <1>3, <2>1 DEF MasterUp, Free
    <3>2. \A b \in Caller : pending'[b] \subseteq Replica
      BY <1>3 DEF MasterUp, TypeOK
    <3>3. \A d \in Closer : todo'[d] # {} => close'[d] = "slaves"
      BY <1>3 DEF MasterUp, closeVars, AccountInv, NothingLate
    <3>4. \A b \in Caller : \A r \in pending'[b] : Free(r)'
      BY <3>1, <3>2
    <3>5. \A d \in Closer : close'[d] \notin {"slaves", "pool"}
      BY <1>3, <2>2 DEF MasterUp, closeVars, Closing
    <3>6. QED
      BY <2>4, <2>5, <3>3, <3>4, <3>5 DEF NothingLate
  <2>7. PoolsAccounted'
    BY <1>3, <2>1 DEF MasterUp, TypeOK, AccountInv, PoolsAccounted
  <2>8. QED
    BY <2>6, <2>7 DEF AccountInv
<1>4. CASE MasterFails(c)
  <2>1. pending[c] = {}
    BY <1>4 DEF MasterFails, AccountInv, NothingLate
  <2>2. QED
    <3>1. pending' = pending /\ pending \in [Caller -> SUBSET Replica]
      BY <1>4 DEF MasterFails, TypeOK
    <3>2. Cleanup(c) /\ InFlight(c) /\ UNCHANGED <<close, todo, live>>
      BY <1>4 DEF MasterFails, closeVars, InFlight
    <3>3. QED
      BY <2>1, <3>1, <3>2, CleanupAccounts
<1>5. CASE Resume(c)
  BY <1>5 DEF Resume, Settles, closeVars, AccountInv, NothingLate, PoolsAccounted, Free
<1>6. ASSUME NEW r \in Replica, ReplicaUp(c, r)
      PROVE  AccountInv'
  <2>1. attempt[c] = "slaves" /\ Free(r) /\ Replica = {r} /\ pending[c] = {r}
    BY <1>6 DEF ReplicaUp, AccountInv, NothingLate, OneReplica, TypeOK
  <2>2. \A d \in Closer : ~Closing(d)
    BY <2>1 DEF LifecycleInv, OneAtATime, InFlight
  <2>3. \A b \in Caller : InFlight(b) => b = c
    BY <2>1 DEF LifecycleInv, OneAtATime, InFlight
  <2>4. PoolsAccounted'
    BY <1>6, <2>1 DEF ReplicaUp, TypeOK, AccountInv, PoolsAccounted, Free
  <2>5. pool' # None
    BY <1>6, <2>1 DEF ReplicaUp, AccountInv, NothingLate
  <2>6. \A b \in Caller : pending'[b] = {} /\ attempt'[b] # "master"
    BY <1>6, <2>1, <2>3 DEF ReplicaUp, TypeOK, AccountInv, NothingLate, InFlight
  <2>7. \A d \in Closer : close'[d] \notin {"slaves", "pool"} /\ todo'[d] = {}
    BY <1>6, <2>2 DEF ReplicaUp, closeVars, AccountInv, NothingLate, Closing
  <2>8. NothingLate'
    BY <2>5, <2>6, <2>7 DEF NothingLate, Free
  <2>9. QED
    BY <2>4, <2>8 DEF AccountInv
<1>7. ASSUME NEW r \in Replica, ReplicaFails(c, r)
      PROVE  AccountInv'
  <2>1. attempt[c] = "slaves" /\ pending[c] = {r}
    BY <1>7 DEF ReplicaFails, TypeOK, AccountInv, NothingLate, OneReplica
  <2>2. QED
    BY <1>7, <2>1, CleanupAccounts DEF ReplicaFails, closeVars, TypeOK, InFlight
<1>8. QED
  BY <1>1, <1>2, <1>3, <1>4, <1>5, <1>6, <1>7

\* disconnect() closes what it found, or leaves it referred to.
LEMMA DisconnectAccounts ==
  ASSUME OneReplica, TypeOK, LifecycleInv, AccountInv, NEW d \in Closer,
         \/ Disconnect(d) \/ CacheClosed(d) \/ CacheFails(d)
         \/ EndPool(d) \/ PoolEnded(d) \/ PoolEndFails(d)
         \/ \E r \in Replica : ReplicaClosed(d, r) \/ ReplicaCloseFails(d, r)
  PROVE  AccountInv'
<1> USE LifecycleAssumption, NoPoolAssumption
<1>1. CASE Disconnect(d)
  BY <1>1 DEF Disconnect, GoesOn, callVars, TypeOK, AccountInv, NothingLate, PoolsAccounted,
              Free
<1>2. CASE CacheClosed(d) \/ CacheFails(d) \/ PoolEndFails(d)
  BY <1>2 DEF CacheClosed, CacheFails, PoolEndFails, GoesOn, callVars,
              TypeOK, AccountInv, NothingLate, PoolsAccounted, Free
<1>3. CASE EndPool(d)
  BY <1>3 DEF EndPool, Ends, GoesOn, callVars,
              TypeOK, AccountInv, NothingLate, PoolsAccounted, Free
<1>4. CASE PoolEnded(d)
  <2>1. ending[d] = pool /\ Closing(d) /\ \A c \in Caller : ~InFlight(c)
    BY <1>4 DEF PoolEnded, LifecycleInv, OneAtATime, Closing
  <2>2. QED
    BY <1>4, <2>1 DEF PoolEnded, GoesOn, callVars, InFlight,
                      TypeOK, AccountInv, NothingLate, PoolsAccounted, Free
<1>5. ASSUME NEW r \in Replica, ReplicaClosed(d, r)
      PROVE  AccountInv'
  <2>1. close[d] = "slaves" /\ Replica = {r}
    BY <1>5 DEF ReplicaClosed, AccountInv, NothingLate, OneReplica
  <2>2. spool' = [q \in Replica |-> None]
    BY <1>5, <2>1 DEF ReplicaClosed, TypeOK
  <2>3. PoolsAccounted'
    BY <1>5, <2>1, <2>2 DEF ReplicaClosed, TypeOK, AccountInv, PoolsAccounted
  <2>4. NothingLate'
    BY <1>5, <2>1, <2>2 DEF ReplicaClosed, callVars, TypeOK, AccountInv, NothingLate, Free
  <2>5. QED
    BY <2>3, <2>4 DEF AccountInv
<1>6. ASSUME NEW r \in Replica, ReplicaCloseFails(d, r)
      PROVE  AccountInv'
  <2>1. close[d] = "slaves" /\ Replica = {r}
    BY <1>6 DEF ReplicaCloseFails, AccountInv, NothingLate, OneReplica
  <2>2. Free(r)'
    BY <1>6 DEF ReplicaCloseFails, TypeOK, LifecycleInv, NoDeadPool, Free
  <2>3. PoolsAccounted'
    BY <1>6 DEF ReplicaCloseFails, callVars, AccountInv, PoolsAccounted
  <2>4. NothingLate'
    BY <1>6, <2>1, <2>2 DEF ReplicaCloseFails, callVars, TypeOK, AccountInv, NothingLate, Free
  <2>5. QED
    BY <2>3, <2>4 DEF AccountInv
<1>7. QED
  BY <1>1, <1>2, <1>3, <1>4, <1>5, <1>6

\* With one replica nothing arrives after its connect() failed, and every open
\* pool is accounted for.
THEOREM AccountInvariant ==
  ASSUME OneReplica, ~Overlap
  PROVE  Spec => []AccountInv
<1>1. Init => AccountInv
  BY DEF Init, AccountInv, NothingLate, PoolsAccounted, Free
<1>2. TypeOK /\ LifecycleInv /\ AccountInv /\ [Next]_vars => AccountInv'
  <2> SUFFICES ASSUME TypeOK, LifecycleInv, AccountInv, [Next]_vars
               PROVE  AccountInv'
    OBVIOUS
  <2>1. CASE Forget
    BY <2>1 DEF Forget, closeVars, AccountInv, NothingLate, PoolsAccounted, Free
  <2>2. CASE UNCHANGED vars
    BY <2>2 DEF vars, AccountInv, NothingLate, PoolsAccounted, Free
  <2>3. QED
    BY <2>1, <2>2, ConnectAccounts, DisconnectAccounts DEF Next
<1>3. QED
  BY <1>1, <1>2, TypeCorrect, LifecycleInvariant, PTL DEF Spec

\* No pool is overwritten by a later connect().
THEOREM NoPoolForgotten ==
  ASSUME OneReplica, ~Overlap
  PROVE  Spec => []PoolsAccounted
<1>1. AccountInv => PoolsAccounted
  BY DEF AccountInv
<1>2. QED
  BY <1>1, AccountInvariant, PTL

\* Whatever failed, an unconnected data source has no replica connected.
THEOREM AlwaysCleanSlate ==
  ASSUME OneReplica, ~Overlap
  PROVE  Spec => []CleanSlate
<1>1. AccountInv => CleanSlate
  BY DEF AccountInv, NothingLate, CleanSlate, IsConnected, Free
<1>2. QED
  BY <1>1, AccountInvariant, PTL
================================================================================
