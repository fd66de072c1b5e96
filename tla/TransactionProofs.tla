-------------------------- MODULE TransactionProofs --------------------------
(***************************************************************************)
(* What holds of Transaction for every number of transactions, connections *)
(* statements and concurrent commit()/rollback() calls, and every driver   *)
(* family.                                                                 *)
(***************************************************************************)
EXTENDS Transaction, FiniteSetTheorems, TLAPS

\* Ending a lease, once or twice, leaves the pool's records well formed.
LEMMA LendType ==
  ASSUME NEW p \in Pool, NEW c \in Conn
  PROVE  Lend(p, c) \in Pool
<1>1. CASE p.waiters = <<>>
  BY <1>1 DEF Lend, Pool
<1>2. CASE p.waiters # <<>>
  <2>1. p.waiters \in Seq(Trx) /\ p.holder \in [Conn -> Trx \cup {NoTrx}]
        /\ p.grant \in [Trx -> Conn \cup {NoConn}]
    BY DEF Pool
  <2>2. Head(p.waiters) \in Trx /\ Tail(p.waiters) \in Seq(Trx)
    BY <1>2, <2>1
  <2>3. QED
    BY <1>2, <2>1, <2>2 DEF Lend, Pool
<1>3. QED
  BY <1>1, <1>2

\* One release() keeps the pool's records well formed, whoever holds c by then.
LEMMA GiveBackType ==
  ASSUME NEW p \in Pool, NEW t \in Trx, NEW c \in Conn
  PROVE  GiveBack(p, t, c) \in Pool
BY LendType DEF GiveBack

\* A statement or an end command is sent through the transaction it is called
\* on, or through the active transaction of the callback it is called in.
LEMMA ResolveType ==
  ASSUME NEW t \in Trx, NEW x
  PROVE  Resolve(t, x) \in Trx
BY CallbackAssumption DEF Resolve

\* Moving a commit()/rollback() call along keeps the record of it well formed.
LEMMA CallUpdate ==
  ASSUME NEW old \in Call, NEW stage \in Stage,
         NEW kind \in {"commit", "rollback"}, NEW relErr \in BOOLEAN
  PROVE  /\ [old EXCEPT !.stage = stage] \in Call
         /\ [old EXCEPT !.kind = kind] \in Call
         /\ [old EXCEPT !.stage = stage, !.kind = kind] \in Call
         /\ [old EXCEPT !.stage = stage, !.relErr = relErr] \in Call
BY DEF Call

\* The record of one call stays well formed, and so does the table of calls.
LEMMA CallType ==
  ASSUME TypeOK, NEW t \in Trx, NEW e \in Ender, NEW new \in Call,
         call' = [call EXCEPT ![t][e] = new]
  PROVE  call' \in [Trx -> [Ender -> Call]]
BY DEF TypeOK

\* The server's answer to COMMIT or ROLLBACK keeps the sessions well formed.
LEMMA SendType ==
  ASSUME TypeOK, NEW t \in Trx, NEW e \in Ender,
         NEW kind \in {"commit", "rollback"}, NEW x, Send(t, e, kind, x)
  PROVE  /\ call' \in [Trx -> [Ender -> Call]]
         /\ inTx' \in [Conn -> BOOLEAN]
         /\ buf' \in [Conn -> SUBSET Stmt]
         /\ db' \subseteq Stmt
<1> DEFINE r == IF Dialect = "postgres" THEN Resolve(t, x) ELSE t
<1> DEFINE Sent(ok) == call' = [call EXCEPT ![t][e] =
                    [stage |-> "sent", kind |-> kind, ok |-> ok, relErr |-> FALSE]]
<1>1. r \in Trx
  BY ResolveType
<1>2. Target(r) \subseteq Conn
  BY <1>1 DEF Target, TypeOK, Idle
<1>3. ASSUME NEW ok \in BOOLEAN, Sent(ok)
      PROVE  call' \in [Trx -> [Ender -> Call]]
  BY <1>3 DEF TypeOK, Call, Stage
<1>4. ASSUME NEW c \in Conn, NEW ok \in BOOLEAN, ServerEnds(c, kind, ok)
      PROVE  /\ inTx' \in [Conn -> BOOLEAN]
             /\ buf' \in [Conn -> SUBSET Stmt]
             /\ db' \subseteq Stmt
  BY <1>4 DEF TypeOK, ServerEnds
<1>5. \/ \E c \in Target(r), ok \in BOOLEAN : ServerEnds(c, kind, ok) /\ Sent(ok)
      \/ Sent(FALSE) /\ UNCHANGED serverVars
  BY DEF Send
<1>6. CASE \E c \in Target(r), ok \in BOOLEAN : ServerEnds(c, kind, ok) /\ Sent(ok)
  BY <1>2, <1>3, <1>4, <1>6
<1>7. CASE Sent(FALSE) /\ UNCHANGED serverVars
  BY <1>3, <1>7 DEF serverVars, TypeOK
<1>8. QED
  BY <1>5, <1>6, <1>7

\* Sending COMMIT or ROLLBACK records the call as sent and touches no other.
LEMMA SendStage ==
  ASSUME NEW t \in Trx, NEW e \in Ender,
         NEW kind \in {"commit", "rollback"}, NEW x, Send(t, e, kind, x)
  PROVE  \E new \in Call : /\ new.stage = "sent"
                           /\ call' = [call EXCEPT ![t][e] = new]
<1> DEFINE new(ok) ==
      [stage |-> "sent", kind |-> kind, ok |-> ok, relErr |-> FALSE]
<1>1. \A ok \in BOOLEAN : new(ok) \in Call /\ new(ok).stage = "sent"
  BY DEF Call, Stage
<1>2. \E ok \in BOOLEAN : call' = [call EXCEPT ![t][e] = new(ok)]
  BY DEF Send
<1>3. QED
  BY <1>1, <1>2

\* Every variable of the specification stays within its declared shape.
THEOREM TypeCorrect == Spec => []TypeOK
<1>1. Init => TypeOK
  BY DEF Init, TypeOK, Pool, Call, NoCall, Stage, Statement
<1>2. TypeOK /\ [Next]_vars => TypeOK'
  <2> SUFFICES ASSUME TypeOK, [Next]_vars
               PROVE  TypeOK'
    OBVIOUS
  <2>1. ASSUME NEW t \in Trx, GetConnection(t)
        PROVE  TypeOK'
    <3>1. pool' \in Pool
      <4>1. pool \in Pool
        BY DEF TypeOK
      <4>2. ASSUME NEW c \in Idle,
                   pool' = [pool EXCEPT !.holder[c] = t, !.grant[t] = c]
            PROVE  pool' \in Pool
        BY <4>1, <4>2 DEF Idle, Pool
      <4>3. CASE pool' = [pool EXCEPT !.waiters = Append(@, t)]
        <5>1. pool.waiters \in Seq(Trx)
          BY <4>1 DEF Pool
        <5>2. Append(pool.waiters, t) \in Seq(Trx)
          BY <5>1
        <5>3. QED
          BY <4>1, <4>3, <5>2 DEF Pool
      <4>4. QED
        BY <2>1, <4>2, <4>3 DEF GetConnection
    <3>2. QED
      BY <2>1, <3>1 DEF GetConnection, TypeOK, serverVars
  <2>2. ASSUME NEW t \in Trx, Begin(t)
        PROVE  TypeOK'
    <3>1. pool.grant[t] \in Conn
      BY <2>2 DEF Begin, TypeOK, Pool
    <3>2. QED
      BY <2>2, <3>1 DEF Begin, TypeOK
  <2>3. ASSUME NEW t \in Trx, BeginFails(t)
        PROVE  TypeOK'
    <3>1. pool.grant[t] \in Conn
      BY <2>3 DEF BeginFails, TypeOK, Pool
    <3>2. QED
      BY <2>3, <3>1 DEF BeginFails, TypeOK
  <2>4. ASSUME NEW s \in Stmt, NEW t \in Trx, NEW x, Issue(s, t, x)
        PROVE  TypeOK'
    BY <2>4, ResolveType DEF Issue, TypeOK, Statement, trxVars, serverVars
  <2>5. ASSUME NEW s \in Stmt, Execute(s)
        PROVE  TypeOK'
    <3> DEFINE r == stmt[s].via
    <3>1. /\ stmt' \in [Stmt -> Statement]
          /\ UNCHANGED <<trxVars, call, pool, inTx>>
      <4>1. \E ran \in {"tx", "auto", "failed"} : stmt' = [stmt EXCEPT ![s].ran = ran]
        BY <2>5 DEF Execute
      <4>2. stmt[s] \in Statement /\ stmt \in [Stmt -> Statement]
        BY DEF TypeOK
      <4>3. \A ran \in {"tx", "auto", "failed"} :
              [stmt[s] EXCEPT !.ran = ran] \in Statement
        BY <4>2 DEF Statement
      <4>4. QED
        BY <2>5, <4>1, <4>2, <4>3 DEF Execute
    <3>2. \A c \in Target(r) : r \in Trx => c \in Conn
      BY DEF Target, TypeOK, Idle
    <3>3. r \in Trx \cup {NoTrx}
      BY DEF TypeOK, Statement
    <3>4. buf' \in [Conn -> SUBSET Stmt] /\ db' \subseteq Stmt
      BY <2>5, <3>2, <3>3 DEF Execute, TypeOK, Target, Idle
    <3>5. QED
      BY <3>1, <3>4 DEF TypeOK, trxVars
  <2>6. ASSUME NEW t \in Trx, NEW e \in Ender, NEW kind \in {"commit", "rollback"},
               NEW x, End(t, e, kind, x)
        PROVE  TypeOK'
    <3>1. /\ call' \in [Trx -> [Ender -> Call]]
          /\ inTx' \in [Conn -> BOOLEAN]
          /\ buf' \in [Conn -> SUBSET Stmt]
          /\ db' \subseteq Stmt
      <4>0. call[t][e] \in Call /\ "ignored" \in Stage
        BY DEF TypeOK, Stage
      <4>1. CASE Send(t, e, kind, x)
        BY <4>1, SendType
      <4>2. CASE /\ call' = [call EXCEPT ![t][e] = [@ EXCEPT !.stage = "ignored", !.kind = kind]]
                 /\ UNCHANGED serverVars
        <5>1. [call[t][e] EXCEPT !.stage = "ignored", !.kind = kind] \in Call
          BY <4>0, CallUpdate
        <5>2. QED
          BY <4>2, <5>1, CallType DEF TypeOK, serverVars
      <4>3. QED
        BY <2>6, <4>1, <4>2 DEF End
    <3>2. QED
      BY <2>6, <3>1 DEF End, TypeOK, trxVars
  <2>7. ASSUME NEW t \in Trx, NEW e \in Ender, CatchRollsBack(t, e)
        PROVE  TypeOK'
    <3>1. /\ call' \in [Trx -> [Ender -> Call]]
          /\ inTx' \in [Conn -> BOOLEAN]
          /\ buf' \in [Conn -> SUBSET Stmt]
          /\ db' \subseteq Stmt
      <4>0. call[t][e] \in Call
        BY DEF TypeOK
      <4>1. CASE Send(t, e, "rollback", NoTrx)
        BY <4>1, SendType
      <4>2. CASE /\ call' = [call EXCEPT ![t][e] = [@ EXCEPT !.kind = "rollback"]]
                 /\ UNCHANGED serverVars
        <5>1. [call[t][e] EXCEPT !.kind = "rollback"] \in Call
          BY <4>0 DEF Call
        <5>2. QED
          BY <4>2, <5>1, CallType DEF TypeOK, serverVars
      <4>3. QED
        BY <2>7, <4>1, <4>2 DEF CatchRollsBack
    <3>2. QED
      BY <2>7, <3>1 DEF CatchRollsBack, TypeOK, trxVars
  <2>8. ASSUME NEW t \in Trx, NEW e \in Ender, Release(t, e)
        PROVE  TypeOK'
    <3>1. \A c \in Conn : /\ GiveBack(pool, t, c) \in Pool
                          /\ GiveBack(GiveBack(pool, t, c), t, c) \in Pool
      BY GiveBackType DEF TypeOK
    <3>2. sqlConn[t] # NoConn => sqlConn[t] \in Conn
      BY DEF TypeOK
    <3>3. pool' \in Pool
      BY <2>8, <3>1, <3>2 DEF Release, TypeOK
    <3>4. call' \in [Trx -> [Ender -> Call]]
      <4>1. \E stage \in {"clearing", "released", "closing"}, relErr \in BOOLEAN :
              call' = [call EXCEPT ![t][e] =
                         [@ EXCEPT !.stage = stage, !.relErr = relErr]]
        BY <2>8 DEF Release
      <4>2. \A stage \in {"clearing", "released", "closing"}, relErr \in BOOLEAN :
              [call[t][e] EXCEPT !.stage = stage, !.relErr = relErr] \in Call
        <5>1. call[t][e] \in Call /\ {"clearing", "released", "closing"} \subseteq Stage
          BY DEF TypeOK, Stage
        <5>2. QED
          BY <5>1, CallUpdate
      <4>3. QED
        BY <4>1, <4>2, CallType
    <3>5. /\ sqlConn' \in [Trx -> Conn \cup {NoConn}]
          /\ inTx' \in [Conn -> BOOLEAN]
          /\ buf' \in [Conn -> SUBSET Stmt]
      BY <2>8 DEF Release, DropConnection, TypeOK
    <3>6. QED
      BY <2>8, <3>3, <3>4, <3>5 DEF Release, TypeOK
  <2>9. ASSUME NEW t \in Trx, NEW e \in Ender,
               Closed(t, e) \/ MarkReleased(t, e) \/ Clear(t, e)
        PROVE  TypeOK'
    <3>1. \E stage \in Stage :
            call' = [call EXCEPT ![t][e] = [@ EXCEPT !.stage = stage]]
      BY <2>9 DEF Closed, MarkReleased, Clear, Stage
    <3>2. \A stage \in Stage : [call[t][e] EXCEPT !.stage = stage] \in Call
      <4>1. call[t][e] \in Call
        BY DEF TypeOK
      <4>2. QED
        BY <4>1 DEF Call
    <3>3. call' \in [Trx -> [Ender -> Call]]
      BY <3>1, <3>2, CallType
    <3>4. QED
      BY <2>9, <3>3 DEF Closed, MarkReleased, Clear, DropConnection, TypeOK, serverVars
  <2>10. CASE UNCHANGED vars
    BY <2>10 DEF vars, TypeOK
  <2>11. QED
    BY <2>1, <2>2, <2>3, <2>4, <2>5, <2>6, <2>7, <2>8, <2>9, <2>10 DEF Next
<1>3. QED
  BY <1>1, <1>2, PTL DEF Spec

-----------------------------------------------------------------------------
(* Leases.                                                                 *)

\* Ending the lease of c takes the connection from t and gives it to nobody or
\* to a waiting transaction that holds nothing; all other leases are untouched.
LEMMA LendEffect ==
  ASSUME TypeOK, LeaseInv, NEW c \in Conn
  PROVE  LET p == Lend(pool, c) IN
         /\ \A d \in Conn : d # c => p.holder[d] = pool.holder[d]
         /\ \/ /\ p.holder[c] = NoTrx
               /\ p.grant = pool.grant
               /\ p.waiters = pool.waiters
            \/ /\ pool.waiters # <<>>
               /\ p.holder[c] \in Trx
               /\ pc[p.holder[c]] = "waiting"
               /\ pool.grant[p.holder[c]] = NoConn
               /\ p.grant = [pool.grant EXCEPT ![p.holder[c]] = c]
               /\ Len(p.waiters) \in Nat
               /\ \A i \in 1..Len(p.waiters) :
                    /\ i + 1 \in 1..Len(pool.waiters)
                    /\ p.waiters[i] = pool.waiters[i + 1]
                    /\ p.waiters[i] # p.holder[c]
<1>1. /\ pool.waiters \in Seq(Trx)
      /\ pool.holder \in [Conn -> Trx \cup {NoTrx}]
      /\ pool.grant \in [Trx -> Conn \cup {NoConn}]
  BY DEF TypeOK, Pool
<1>2. CASE pool.waiters = <<>>
  BY <1>1, <1>2 DEF Lend, TypeOK, Pool
<1>3. CASE pool.waiters # <<>>
  <2> DEFINE q == pool.waiters
             w == Head(q)
  <2>1. /\ 1 \in 1..Len(q) /\ w = q[1] /\ w \in Trx
        /\ Len(Tail(q)) = Len(q) - 1 /\ Len(q) \in Nat
        /\ \A i \in 1..Len(Tail(q)) : i + 1 \in 1..Len(q) /\ Tail(q)[i] = q[i + 1]
    BY <1>1, <1>3
  <2>2. pc[w] = "waiting" /\ pool.grant[w] = NoConn
    BY <2>1 DEF LeaseInv, ClonesLease, LeasesHeld, WaitersHoldNothing, GivenBackForGood
  <2>3. \A i \in 1..Len(Tail(q)) : Tail(q)[i] # w
    <3>1. ASSUME NEW i \in 1..Len(Tail(q)), Tail(q)[i] = w
          PROVE  FALSE
      <4>1. i + 1 \in 1..Len(q) /\ q[i + 1] = q[1]
        BY <2>1, <3>1
      <4>2. i + 1 = 1
        BY <2>1, <4>1 DEF LeaseInv, ClonesLease, LeasesHeld, WaitersHoldNothing, GivenBackForGood
      <4>3. QED
        BY <4>2
    <3>2. QED
      BY <3>1
  <2>4. /\ Lend(pool, c).holder = [pool.holder EXCEPT ![c] = w]
        /\ Lend(pool, c).waiters = Tail(q)
        /\ Lend(pool, c).grant = [pool.grant EXCEPT ![w] = c]
    BY <1>3 DEF Lend
  <2>5. Lend(pool, c).holder[c] = w
    BY <1>1, <2>4
  <2>6. \A d \in Conn : d # c => Lend(pool, c).holder[d] = pool.holder[d]
    BY <1>1, <2>4
  <2>7. Len(Tail(q)) \in Nat
    BY <2>1
  <2>8. QED
    BY <1>3, <2>1, <2>2, <2>3, <2>4, <2>5, <2>6, <2>7
<1>4. QED
  BY <1>2, <1>3

\* The leases are untouched by a step that changes neither the pool nor what a
\* clone holds nor how far a call is in giving its connection back.
LEMMA LeaseFrame ==
  ASSUME LeaseInv, UNCHANGED <<pc, released, sqlConn, pool>>,
         \A t \in Trx, e \in Ender :
           \/ call'[t][e].stage = call[t][e].stage
           \/ pc[t] = "open" /\ call'[t][e].stage \notin {"closing", "released"}
  PROVE  LeaseInv'
BY DEF LeaseInv, ClonesLease, LeasesHeld, WaitersHoldNothing, GivenBackForGood, Borrowed

\* A connection is lent to a transaction that held none, or that now waits.
LEMMA LeaseGetConnection ==
  ASSUME TypeOK, LeaseInv, NEW t \in Trx, GetConnection(t)
  PROVE  LeaseInv'
<1>1. /\ pool.waiters \in Seq(Trx)
      /\ pool.holder \in [Conn -> Trx \cup {NoTrx}]
      /\ pool.grant \in [Trx -> Conn \cup {NoConn}]
      /\ pc \in [Trx -> {"new", "waiting", "open", "failed"}]
      /\ pool \in Pool
  BY DEF TypeOK, Pool
<1>2. /\ pc[t] = "new" /\ pc' = [pc EXCEPT ![t] = "waiting"]
      /\ UNCHANGED <<released, sqlConn, call>>
  BY DEF GetConnection
<1>3. ASSUME NEW c \in Idle,
             pool' = [pool EXCEPT !.holder[c] = t, !.grant[t] = c]
      PROVE  LeaseInv'
  <2>1. /\ pool'.holder = [pool.holder EXCEPT ![c] = t]
        /\ pool'.grant = [pool.grant EXCEPT ![t] = c]
        /\ pool'.waiters = pool.waiters
        /\ c \in Conn /\ pool.holder[c] = NoTrx
    BY <1>1, <1>3 DEF Idle, Pool
  <2>2. QED
    BY <1>1, <1>2, <2>1, NoneAssumption DEF LeaseInv, ClonesLease, LeasesHeld, WaitersHoldNothing, GivenBackForGood, Borrowed
<1>4. CASE pool' = [pool EXCEPT !.waiters = Append(@, t)]
  <2> DEFINE q == pool.waiters
  <2>1. /\ pool'.holder = pool.holder
        /\ pool'.grant = pool.grant
        /\ pool'.waiters = Append(q, t)
    BY <1>1, <1>4 DEF Pool
  <2>2. /\ Len(q) \in Nat /\ Len(Append(q, t)) = Len(q) + 1
        /\ \A i \in 1..Len(Append(q, t)) :
             \/ i \in 1..Len(q) /\ Append(q, t)[i] = q[i] /\ q[i] \in Trx
             \/ i = Len(q) + 1 /\ Append(q, t)[i] = t
    BY <1>1
  <2>3. \A i \in 1..Len(q) : q[i] # t
    BY <1>2 DEF LeaseInv, ClonesLease, LeasesHeld, WaitersHoldNothing, GivenBackForGood
  <2>4. /\ \A i \in 1..Len(pool'.waiters) :
             /\ pc'[pool'.waiters[i]] = "waiting"
             /\ pool'.grant[pool'.waiters[i]] = NoConn
    BY <1>1, <1>2, <2>1, <2>2, <2>3 DEF LeaseInv, ClonesLease, LeasesHeld, WaitersHoldNothing, GivenBackForGood
  <2>5. \A i, j \in 1..Len(pool'.waiters) :
          pool'.waiters[i] = pool'.waiters[j] => i = j
    BY <2>1, <2>2, <2>3 DEF LeaseInv, ClonesLease, LeasesHeld, WaitersHoldNothing, GivenBackForGood
  <2>6. QED
    BY <1>1, <1>2, <2>1, <2>4, <2>5 DEF LeaseInv, ClonesLease, LeasesHeld, WaitersHoldNothing, GivenBackForGood, Borrowed
<1>5. QED
  BY <1>3, <1>4 DEF GetConnection

\* transaction() turns the delivered lease into the clone's connection.
LEMMA LeaseBegin ==
  ASSUME TypeOK, LeaseInv, NEW t \in Trx, Begin(t) \/ BeginFails(t)
  PROVE  LeaseInv'
<1>1. /\ pc[t] = "waiting" /\ pool.grant[t] # NoConn /\ pool.grant[t] \in Conn
      /\ \E new \in {"open", "failed"} : pc' = [pc EXCEPT ![t] = new]
      /\ sqlConn' = [sqlConn EXCEPT ![t] = pool.grant[t]]
      /\ UNCHANGED <<released, call, pool>>
  BY DEF Begin, BeginFails, TypeOK, Pool
<1>2. /\ pc \in [Trx -> {"new", "waiting", "open", "failed"}]
      /\ sqlConn \in [Trx -> Conn \cup {NoConn}]
  BY DEF TypeOK
<1>3. \A i \in 1..Len(pool.waiters) : pool.waiters[i] # t
  BY <1>1 DEF LeaseInv, ClonesLease, LeasesHeld, WaitersHoldNothing, GivenBackForGood
<1>4. QED
  BY <1>1, <1>2, <1>3 DEF LeaseInv, ClonesLease, LeasesHeld, WaitersHoldNothing, GivenBackForGood, Borrowed

\* disconnect() of the clone drops a handle whose lease is already over.
LEMMA LeaseDrop ==
  ASSUME TypeOK, LeaseInv, NEW t \in Trx, NEW e \in Ender,
         Closed(t, e) \/ MarkReleased(t, e)
  PROVE  LeaseInv'
<1>1. /\ call[t][e].stage \in {"closing", "released"}
      /\ sqlConn' = [sqlConn EXCEPT ![t] = NoConn]
      /\ \A u \in Trx : u # t => released'[u] = released[u]
      /\ UNCHANGED <<pc, pool>>
      /\ \A u \in Trx, f \in Ender :
           u # t \/ f # e => call'[u][f].stage = call[u][f].stage
  BY DEF Closed, MarkReleased, DropConnection, TypeOK
<1>2. \A c \in Conn : pool.holder[c] # t
  BY <1>1 DEF LeaseInv, ClonesLease, LeasesHeld, WaitersHoldNothing, GivenBackForGood
<1>3. pc[t] = "open"
  BY <1>1 DEF LeaseInv, ClonesLease, LeasesHeld, WaitersHoldNothing, GivenBackForGood
<1>4. sqlConn \in [Trx -> Conn \cup {NoConn}]
  BY DEF TypeOK
<1>5. QED
  BY <1>1, <1>2, <1>3, <1>4 DEF LeaseInv, ClonesLease, LeasesHeld, WaitersHoldNothing, GivenBackForGood, Borrowed

\* A release records itself in its own call and touches no other.
LEMMA ReleaseStage ==
  ASSUME TypeOK, NEW t \in Trx, NEW e \in Ender, Release(t, e)
  PROVE  \A u \in Trx, f \in Ender :
           u # t \/ f # e => call'[u][f].stage = call[u][f].stage
<1>1. \E new \in Call : call' = [call EXCEPT ![t][e] = new]
  <2>1. \E stage \in {"clearing", "released", "closing"}, relErr \in BOOLEAN :
          call' = [call EXCEPT ![t][e] =
                     [@ EXCEPT !.stage = stage, !.relErr = relErr]]
    BY DEF Release
  <2>2. call[t][e] \in Call /\ {"clearing", "released", "closing"} \subseteq Stage
    BY DEF TypeOK, Stage
  <2>3. \A stage \in {"clearing", "released", "closing"}, relErr \in BOOLEAN :
          [call[t][e] EXCEPT !.stage = stage, !.relErr = relErr] \in Call
    BY <2>2, CallUpdate
  <2>4. QED
    BY <2>1, <2>3
<1>2. QED
  BY <1>1 DEF TypeOK

\* Giving the connection back ends exactly the lease of the caller: the second
\* release() finds the connection idle, because nobody was waiting for it.
LEMMA LeaseRelease ==
  ASSUME TypeOK, LeaseInv, NoQueue, NEW t \in Trx, NEW e \in Ender, Release(t, e)
  PROVE  LeaseInv'
<1> DEFINE c == sqlConn[t]
<1>1. /\ pool.holder \in [Conn -> Trx \cup {NoTrx}]
      /\ pool.grant \in [Trx -> Conn \cup {NoConn}]
      /\ pool.waiters \in Seq(Trx)
      /\ sqlConn \in [Trx -> Conn \cup {NoConn}]
      /\ pc \in [Trx -> {"new", "waiting", "open", "failed"}]
  BY DEF TypeOK, Pool
<1>2. /\ call[t][e].stage = "sent"
      /\ UNCHANGED <<pc, released>>
      /\ \A u \in Trx, f \in Ender :
           u # t \/ f # e => call'[u][f].stage = call[u][f].stage
  BY ReleaseStage DEF Release
<1>3. pc[t] = "open"
  BY <1>2 DEF LeaseInv, ClonesLease, LeasesHeld, WaitersHoldNothing, GivenBackForGood
<1>4. CASE released[t]
  <2>1. call'[t][e].stage = "clearing" /\ UNCHANGED <<pool, sqlConn>>
    <3>1. /\ UNCHANGED <<pool, sqlConn>>
          /\ call' = [call EXCEPT ![t][e] =
                        [@ EXCEPT !.stage = "clearing", !.relErr = FALSE]]
      BY <1>4 DEF Release
    <3>2. call \in [Trx -> [Ender -> Call]] /\ call[t][e] \in Call
      BY DEF TypeOK
    <3>3. [call[t][e] EXCEPT !.stage = "clearing", !.relErr = FALSE].stage = "clearing"
      BY <3>2 DEF Call
    <3>4. QED
      BY <3>1, <3>2, <3>3
  <2>2. QED
    BY <1>2, <1>3, <2>1, LeaseFrame
<1>5. CASE ~released[t] /\ c = NoConn
  <2>1. UNCHANGED <<pool, sqlConn>>
    BY <1>5 DEF Release
  <2>2. \A d \in Conn : pool.holder[d] # t
    BY <1>3, <1>5, NoneAssumption DEF LeaseInv, ClonesLease, LeasesHeld, WaitersHoldNothing, GivenBackForGood, Borrowed
  <2>3. QED
    BY <1>2, <1>3, <2>1, <2>2 DEF LeaseInv, ClonesLease, LeasesHeld, WaitersHoldNothing, GivenBackForGood, Borrowed
<1>6. CASE ~released[t] /\ c # NoConn /\ SharedHandle
  <2>1. c \in Conn /\ pool.holder[c] = t /\ pool.waiters = <<>> /\ t # NoTrx
    BY <1>1, <1>6, NoneAssumption DEF LeaseInv, ClonesLease, LeasesHeld, WaitersHoldNothing, GivenBackForGood, NoQueue
  <2>2. Lend(pool, c) = [pool EXCEPT !.holder[c] = NoTrx]
    BY <2>1 DEF Lend
  <2>3. GiveBack(pool, t, c) = Lend(pool, c)
    BY <2>1 DEF GiveBack
  <2>4. Lend(pool, c).holder[c] = NoTrx
    BY <1>1, <2>1, <2>2 DEF TypeOK, Pool
  <2>5. GiveBack(GiveBack(pool, t, c), t, c) = Lend(pool, c)
    BY <2>1, <2>3, <2>4 DEF GiveBack
  <2>6. /\ pool' = [pool EXCEPT !.holder[c] = NoTrx]
        /\ sqlConn' = [sqlConn EXCEPT ![t] = NoConn]
    BY <1>6, <2>2, <2>5 DEF Release, DropConnection
  <2>7. /\ pool'.holder = [pool.holder EXCEPT ![c] = NoTrx]
        /\ pool'.grant = pool.grant
        /\ pool'.waiters = pool.waiters
    BY <2>6 DEF TypeOK, Pool
  <2>8. \A d \in Conn : pool'.holder[d] # t
    BY <1>1, <1>3, <2>1, <2>7 DEF LeaseInv, ClonesLease, LeasesHeld, WaitersHoldNothing, GivenBackForGood, Borrowed
  <2>9. QED
    BY <1>1, <1>2, <1>3, <2>1, <2>6, <2>7, <2>8, NoneAssumption DEF LeaseInv, ClonesLease, LeasesHeld, WaitersHoldNothing, GivenBackForGood, Borrowed
<1>7. CASE ~released[t] /\ c # NoConn /\ ~SharedHandle
  <2> DEFINE p == Lend(pool, c)
  <2>1. /\ c \in Conn /\ pool' = GiveBack(pool, t, c) /\ UNCHANGED sqlConn
        /\ t # NoTrx
    BY <1>1, <1>7, NoneAssumption DEF Release
  <2>2. CASE pool.holder[c] # t
    <3>1. pool' = pool
      BY <1>7, <2>1, <2>2 DEF GiveBack
    <3>2. \A d \in Conn : pool.holder[d] # t
      BY <1>3, <2>2, NoneAssumption DEF LeaseInv, ClonesLease, LeasesHeld, WaitersHoldNothing, GivenBackForGood, Borrowed
    <3>3. QED
      BY <1>2, <1>3, <2>1, <3>1, <3>2 DEF LeaseInv, ClonesLease, LeasesHeld, WaitersHoldNothing, GivenBackForGood, Borrowed
  <2>3. CASE pool.holder[c] = t
    <3>1. pool' = p
      BY <2>1, <2>3 DEF GiveBack
    <3>0. /\ \A d \in Conn : d # c => p.holder[d] = pool.holder[d]
          /\ \/ /\ p.holder[c] = NoTrx
                /\ p.grant = pool.grant
                /\ p.waiters = pool.waiters
             \/ /\ pool.waiters # <<>>
                /\ p.holder[c] \in Trx
                /\ pc[p.holder[c]] = "waiting"
                /\ pool.grant[p.holder[c]] = NoConn
                /\ p.grant = [pool.grant EXCEPT ![p.holder[c]] = c]
                /\ Len(p.waiters) \in Nat
                /\ \A i \in 1..Len(p.waiters) :
                     /\ i + 1 \in 1..Len(pool.waiters)
                     /\ p.waiters[i] = pool.waiters[i + 1]
                     /\ p.waiters[i] # p.holder[c]
      <4> DEFINE cc == c
      <4>1. cc \in Conn
        BY <2>1
      <4> HIDE DEF cc
      <4>2. QED
        BY <4>1, LendEffect DEF cc
    <3> HIDE DEF p
    <3>2. \A d \in Conn : d # c => pool.holder[d] # t
      BY <1>3, NoneAssumption DEF LeaseInv, ClonesLease, LeasesHeld, WaitersHoldNothing, GivenBackForGood, Borrowed
    <3>3. \A d \in Conn : d # c => pool'.holder[d] = pool.holder[d]
      BY <2>1, <3>1, <3>0
    <3>4. CASE /\ p.holder[c] = NoTrx
               /\ p.grant = pool.grant
               /\ p.waiters = pool.waiters
      <4>1. \A d \in Conn : pool'.holder[d] # t
        BY <2>1, <3>1, <3>2, <3>3, <3>4
      <4>2. \A d \in Conn, u \in Trx :
              u # t /\ pool.holder[d] = u => pool'.holder[d] = u
        BY <2>3, <3>3
      <4>3. ClonesLease'
        <5> SUFFICES ASSUME NEW u \in Trx
                     PROVE  /\ pc'[u] = "new" => pool'.grant[u] = NoConn
                            /\ pc'[u] \in {"new", "waiting"} => sqlConn'[u] = NoConn
                            /\ pc'[u] = "waiting" /\ pool'.grant[u] # NoConn
                                 => pool'.holder[pool'.grant[u]] = u
                            /\ pc'[u] # "open" =>
                                 /\ ~released'[u]
                                 /\ \A f \in Ender : call'[u][f].stage = "idle"
          BY <1>7 DEF ClonesLease
        <5>1. pc'[u] = pc[u] /\ released'[u] = released[u] /\ sqlConn'[u] = sqlConn[u]
              /\ pool'.grant[u] = pool.grant[u]
          BY <1>2, <2>1, <3>1, <3>4
        <5>2. pc[u] = "waiting" /\ pool.grant[u] # NoConn
                => pool'.holder[pool.grant[u]] = u
          <6>1. pool.grant[u] # NoConn => pool.grant[u] \in Conn
            BY <1>1
          <6>2. QED
            BY <1>3, <4>2, <6>1 DEF LeaseInv, ClonesLease
        <5>3. pc[u] # "open" => \A f \in Ender : call'[u][f].stage = "idle"
          BY <1>2, <1>3 DEF LeaseInv, ClonesLease
        <5>4. QED
          BY <5>1, <5>2, <5>3 DEF LeaseInv, ClonesLease
      <4>4. LeasesHeld'
        BY <1>1, <1>2, <2>1, <2>3, <3>1, <3>2, <3>3, <3>4
           DEF LeaseInv, LeasesHeld, Borrowed
      <4>5. WaitersHoldNothing'
        BY <1>2, <3>1, <3>4 DEF LeaseInv, WaitersHoldNothing
      <4>6. GivenBackForGood'
        <5>1. \A d \in Conn, u \in Trx : pool'.holder[d] = u => pool.holder[d] = u
          BY <2>1, <3>1, <3>3, <3>4, NoneAssumption
        <5>2. QED
          BY <1>2, <1>3, <4>1, <5>1 DEF LeaseInv, GivenBackForGood
      <4>7. QED
        BY <4>3, <4>4, <4>5, <4>6 DEF LeaseInv
    <3>5. CASE /\ pool.waiters # <<>>
               /\ p.holder[c] \in Trx
               /\ pc[p.holder[c]] = "waiting"
               /\ pool.grant[p.holder[c]] = NoConn
               /\ p.grant = [pool.grant EXCEPT ![p.holder[c]] = c]
               /\ Len(p.waiters) \in Nat
               /\ \A i \in 1..Len(p.waiters) :
                    /\ i + 1 \in 1..Len(pool.waiters)
                    /\ p.waiters[i] = pool.waiters[i + 1]
                    /\ p.waiters[i] # p.holder[c]
      <4> DEFINE w == p.holder[c]
      <4>1. w # t /\ (\A d \in Conn : pool.holder[d] # w)
        BY <1>3, <3>5, NoneAssumption DEF LeaseInv, ClonesLease, LeasesHeld, WaitersHoldNothing, GivenBackForGood, Borrowed
      <4>2. \A u \in Trx : u # w => pool'.grant[u] = pool.grant[u]
        BY <1>1, <3>1, <3>5
      <4>3. pool'.grant[w] = c
        BY <1>1, <3>1, <3>5
      <4>4. \A i \in 1..Len(pool'.waiters) :
              /\ pc[pool'.waiters[i]] = "waiting"
              /\ pool'.grant[pool'.waiters[i]] = NoConn
        BY <1>1, <3>1, <3>5, <4>2 DEF LeaseInv, ClonesLease, LeasesHeld, WaitersHoldNothing, GivenBackForGood
      <4>5. \A i, j \in 1..Len(pool'.waiters) :
              pool'.waiters[i] = pool'.waiters[j] => i = j
        BY <3>1, <3>5 DEF LeaseInv, ClonesLease, LeasesHeld, WaitersHoldNothing, GivenBackForGood
      <4>6. \A d \in Conn : pool'.holder[d] # t
        BY <3>1, <3>2, <3>3, <4>1
      <4>7. ClonesLease'
        BY <1>1, <1>2, <1>3, <1>7, <2>1, <2>3, <3>1, <3>3, <3>5, <4>1, <4>2, <4>3
           DEF LeaseInv, ClonesLease
      <4>8. LeasesHeld'
        BY <1>1, <1>2, <2>1, <3>1, <3>3, <3>5, <4>1, <4>2, <4>3
           DEF LeaseInv, LeasesHeld, Borrowed
      <4>9. WaitersHoldNothing'
        BY <1>2, <4>4, <4>5 DEF WaitersHoldNothing
      <4>10. GivenBackForGood'
        BY <1>2, <1>3, <2>1, <3>1, <3>3, <3>5, <4>1, <4>6
           DEF LeaseInv, GivenBackForGood, ClonesLease
      <4>11. QED
        BY <4>7, <4>8, <4>9, <4>10 DEF LeaseInv
    <3>6. QED
      BY <3>0, <3>4, <3>5
  <2>4. QED
    BY <2>2, <2>3
<1>8. QED
  BY <1>4, <1>5, <1>6, <1>7

\* Every step keeps the leases in order while nobody queues.
LEMMA LeaseStep ==
  ASSUME TypeOK, NoQueue, LeaseInv, [Next]_vars
  PROVE  LeaseInv'
<1>1. ASSUME NEW t \in Trx, GetConnection(t) \/ Begin(t) \/ BeginFails(t)
      PROVE  LeaseInv'
  BY <1>1, LeaseGetConnection, LeaseBegin
<1>2. ASSUME NEW s \in Stmt, NEW t \in Trx, NEW x, Issue(s, t, x)
      PROVE  LeaseInv'
  BY <1>2, LeaseFrame DEF Issue, trxVars
<1>3. ASSUME NEW s \in Stmt, Execute(s)
      PROVE  LeaseInv'
  BY <1>3, LeaseFrame DEF Execute, trxVars
<1>4. ASSUME NEW t \in Trx, NEW e \in Ender, NEW kind \in {"commit", "rollback"},
             NEW x, End(t, e, kind, x)
      PROVE  LeaseInv'
  <2>1. pc[t] = "open" /\ UNCHANGED <<pc, released, sqlConn, pool>>
    BY <1>4 DEF End, trxVars
  <2>2. \E new \in Call : /\ new.stage \in {"sent", "ignored"}
                          /\ call' = [call EXCEPT ![t][e] = new]
    <3>1. CASE Send(t, e, kind, x)
      BY <3>1, SendStage
    <3>2. CASE call' = [call EXCEPT ![t][e] = [@ EXCEPT !.stage = "ignored", !.kind = kind]]
      <4>1. call[t][e] \in Call /\ "ignored" \in Stage
        BY DEF TypeOK, Stage
      <4>2. /\ [call[t][e] EXCEPT !.stage = "ignored", !.kind = kind] \in Call
            /\ [call[t][e] EXCEPT !.stage = "ignored", !.kind = kind].stage = "ignored"
        BY <4>1, CallUpdate DEF Call
      <4>3. QED
        BY <3>2, <4>2
    <3>3. QED
      BY <1>4, <3>1, <3>2 DEF End
  <2>3. call \in [Trx -> [Ender -> Call]]
    BY DEF TypeOK
  <2>4. QED
    BY <2>1, <2>2, <2>3, LeaseFrame
<1>5. ASSUME NEW t \in Trx, NEW e \in Ender, CatchRollsBack(t, e)
      PROVE  LeaseInv'
  <2>1. call[t][e].stage = "rejected" /\ UNCHANGED <<pc, released, sqlConn, pool>>
    BY <1>5 DEF CatchRollsBack, trxVars
  <2>2. pc[t] = "open"
    BY <2>1 DEF LeaseInv, ClonesLease
  <2>3. \E new \in Call : /\ new.stage \in {"sent", "rejected"}
                          /\ call' = [call EXCEPT ![t][e] = new]
    <3>1. CASE Send(t, e, "rollback", NoTrx)
      BY <3>1, SendStage
    <3>2. CASE call' = [call EXCEPT ![t][e] = [@ EXCEPT !.kind = "rollback"]]
      <4>1. call[t][e] \in Call
        BY DEF TypeOK
      <4>2. /\ [call[t][e] EXCEPT !.kind = "rollback"] \in Call
            /\ [call[t][e] EXCEPT !.kind = "rollback"].stage = "rejected"
        BY <2>1, <4>1 DEF Call
      <4>3. QED
        BY <3>2, <4>2
    <3>3. QED
      BY <1>5, <3>1, <3>2 DEF CatchRollsBack
  <2>4. call \in [Trx -> [Ender -> Call]]
    BY DEF TypeOK
  <2>5. QED
    BY <2>1, <2>2, <2>3, <2>4, LeaseFrame
<1>6. ASSUME NEW t \in Trx, NEW e \in Ender,
             Release(t, e) \/ Closed(t, e) \/ MarkReleased(t, e)
      PROVE  LeaseInv'
  BY <1>6, LeaseRelease, LeaseDrop
<1>7. ASSUME NEW t \in Trx, NEW e \in Ender, Clear(t, e)
      PROVE  LeaseInv'
  <2>1. /\ call[t][e].stage = "clearing"
        /\ UNCHANGED <<pc, released, sqlConn, pool>>
        /\ call \in [Trx -> [Ender -> Call]]
    BY <1>7 DEF Clear, TypeOK
  <2>2. pc[t] = "open"
    BY <2>1 DEF LeaseInv, ClonesLease
  <2>3. \E stage \in {"resolved", "rejected"} :
          call' = [call EXCEPT ![t][e] = [@ EXCEPT !.stage = stage]]
    BY <1>7 DEF Clear
  <2>4. \A stage \in {"resolved", "rejected"} :
          /\ [call[t][e] EXCEPT !.stage = stage] \in Call
          /\ [call[t][e] EXCEPT !.stage = stage].stage = stage
    <3>1. call[t][e] \in Call /\ {"resolved", "rejected"} \subseteq Stage
      BY <2>1 DEF Stage
    <3>2. \A stage \in {"resolved", "rejected"} :
            [call[t][e] EXCEPT !.stage = stage] \in Call
      BY <3>1, CallUpdate
    <3>3. \A stage \in {"resolved", "rejected"} :
            [call[t][e] EXCEPT !.stage = stage].stage = stage
      BY <3>1 DEF Call
    <3>4. QED
      BY <3>2, <3>3
  <2>5. QED
    BY <2>1, <2>2, <2>3, <2>4, LeaseFrame
<1>8. CASE UNCHANGED vars
  BY <1>8, LeaseFrame DEF vars
<1>9. QED
  BY <1>1, <1>2, <1>3, <1>4, <1>5, <1>6, <1>7, <1>8 DEF Next

\* At the start nothing is lent.
LEMMA LeaseInit == Init => LeaseInv
BY NoneAssumption
   DEF Init, NoCall, LeaseInv, ClonesLease, LeasesHeld, WaitersHoldNothing,
       GivenBackForGood

\* The pool lends each connection to at most one transaction, which knows it.
THEOREM LeaseInvariant == Spec /\ []NoQueue => []LeaseInv
BY LeaseInit, LeaseStep, TypeCorrect, PTL DEF Spec

\* With a connection for every transaction nobody ever queues: a transaction()
\* call that found no idle connection would be one too many.
THEOREM RoomForAll ==
  ASSUME IsFiniteSet(Trx), IsFiniteSet(Conn), Cardinality(Trx) <= Cardinality(Conn)
  PROVE  Spec => []NoQueue
<1> DEFINE Inv == LeaseInv /\ pool.waiters = <<>>
<1>1. Init => Inv
  BY LeaseInit DEF Init
<1>2. TypeOK /\ Inv /\ [Next]_vars => Inv'
  <2> SUFFICES ASSUME TypeOK, Inv, [Next]_vars
               PROVE  Inv'
    OBVIOUS
  <2>1. LeaseInv'
    BY LeaseStep DEF NoQueue
  <2>2. ASSUME NEW t \in Trx, GetConnection(t)
        PROVE  pool'.waiters = <<>>
    <3>1. Idle # {}
      <4>1. SUFFICES ASSUME Idle = {}
                     PROVE  FALSE
        OBVIOUS
      <4>2. pool.holder \in [Conn -> Trx \cup {NoTrx}]
        BY DEF TypeOK, Pool
      <4>3. \A c \in Conn : pool.holder[c] \in Trx \ {t}
        BY <2>2, <4>1, <4>2, NoneAssumption
           DEF GetConnection, Idle, LeaseInv, ClonesLease, LeasesHeld, Borrowed
      <4>4. pool.holder \in [Conn -> Trx \ {t}]
        BY <4>2, <4>3
      <4>5. /\ IsFiniteSet(Trx \ {t})
            /\ Cardinality(Trx \ {t}) = Cardinality(Trx) - 1
        BY FS_RemoveElement
      <4>6. Cardinality(Trx) \in Nat /\ Cardinality(Conn) \in Nat
        BY FS_CardinalityType
      <4>7. Cardinality(Trx \ {t}) < Cardinality(Conn)
        BY <4>5, <4>6
      <4>8. \E c, d \in Conn : c # d /\ pool.holder[c] = pool.holder[d]
        BY <4>4, <4>5, <4>7, FS_PigeonHole
      <4>9. QED
        BY <4>3, <4>8, NoneAssumption DEF LeaseInv, LeasesHeld
    <3>2. \E c \in Idle : pool' = [pool EXCEPT !.holder[c] = t, !.grant[t] = c]
      BY <2>2, <3>1 DEF GetConnection
    <3>3. QED
      BY <3>2 DEF TypeOK, Pool
  <2>3. ASSUME NEW t \in Trx, NEW e \in Ender, Release(t, e)
        PROVE  pool'.waiters = <<>>
    <3>1. ASSUME NEW p \in Pool, p.waiters = <<>>, NEW c \in Conn
          PROVE  GiveBack(p, t, c) \in Pool /\ GiveBack(p, t, c).waiters = <<>>
      <4>1. [p EXCEPT !.holder[c] = NoTrx].waiters = <<>>
        BY <3>1 DEF Pool
      <4>2. QED
        BY <3>1, <4>1, GiveBackType DEF GiveBack, Lend
    <3>2. sqlConn[t] # NoConn => sqlConn[t] \in Conn
      BY DEF TypeOK
    <3>3. pool \in Pool
      BY DEF TypeOK
    <3>4. CASE UNCHANGED pool
      BY <3>4
    <3>5. CASE /\ sqlConn[t] # NoConn
               /\ \/ pool' = GiveBack(pool, t, sqlConn[t])
                  \/ pool' = GiveBack(GiveBack(pool, t, sqlConn[t]), t, sqlConn[t])
      <4>1. /\ GiveBack(pool, t, sqlConn[t]) \in Pool
            /\ GiveBack(pool, t, sqlConn[t]).waiters = <<>>
        BY <3>1, <3>2, <3>3, <3>5
      <4>2. GiveBack(GiveBack(pool, t, sqlConn[t]), t, sqlConn[t]).waiters = <<>>
        BY <3>1, <3>2, <3>5, <4>1
      <4>3. QED
        BY <3>5, <4>1, <4>2
    <3>6. QED
      BY <2>3, <3>4, <3>5 DEF Release
  <2>4. pool' = pool \/ pool'.waiters = <<>>
    <3>1. CASE \E t \in Trx : GetConnection(t)
      BY <2>2, <3>1
    <3>2. CASE \E t \in Trx, e \in Ender : Release(t, e)
      BY <2>3, <3>2
    <3>3. QED
      BY <3>1, <3>2
         DEF Next, Begin, BeginFails, Issue, Execute, End, CatchRollsBack,
             Closed, MarkReleased, Clear, vars
  <2>5. QED
    BY <2>1, <2>4
<1>3. Inv => NoQueue
  BY DEF NoQueue
<1>4. QED
  BY <1>1, <1>2, <1>3, TypeCorrect, PTL DEF Spec

\* As long as no transaction() call has to queue for a connection of a driver
\* with shared client objects, no two transactions hold one connection.
THEOREM DedicatedConnection == Spec /\ []NoQueue => []Dedicated
<1>1. TypeOK /\ LeaseInv => Dedicated
  BY DEF TypeOK, LeaseInv, ClonesLease, Dedicated, Holds, HandleClosed
<1>2. QED
  BY <1>1, TypeCorrect, LeaseInvariant, PTL

\* Under the same condition an ended transaction keeps no connection, whatever
\* its concurrent commit() and rollback() calls were and whether they failed.
THEOREM NoLeakedConnection == Spec /\ []NoQueue => []NoLeak
<1>1. LeaseInv => NoLeak
  BY DEF LeaseInv, GivenBackForGood, NoLeak
<1>2. QED
  BY <1>1, LeaseInvariant, PTL

-----------------------------------------------------------------------------
(* Sessions.                                                               *)

\* Without one transaction being used inside the callback of another, what is
\* sent through a transaction goes to its own connection.
LEMMA ResolveOwn ==
  ASSUME ~CrossContext, NEW t \in Trx, NEW x \in Contexts(t) \cup {NoTrx}
  PROVE  Resolve(t, x) = t
BY NoneAssumption, CallbackAssumption DEF Resolve, Contexts

\* A COMMIT or ROLLBACK leaves its session out of any transaction (or, on
\* oracledb, in one that only the leaseholder can use).
LEMMA SessionSend ==
  ASSUME TypeOK, LeaseInv, SessionInv, ~CrossContext, UNCHANGED <<sqlConn, pool>>,
         NEW t \in Trx, NEW e \in Ender, NEW kind \in {"commit", "rollback"},
         NEW x \in Contexts(t) \cup {NoTrx}, Send(t, e, kind, x)
  PROVE  SessionInv'
<1>1. Resolve(t, x) = t
  BY ResolveOwn
<1>2. PICK new \in Call : call' = [call EXCEPT ![t][e] = new]
  BY SendStage
<1>3. \A u \in Trx, f \in Ender :
        u # t \/ f # e => call'[u][f].stage = call[u][f].stage
  BY <1>2 DEF TypeOK
<1>4. \/ \E c \in Target(t), ok \in BOOLEAN :
           ServerEnds(c, kind, ok) /\ ~HandleClosed(t)
           /\ (sqlConn[t] # NoConn \/ Dialect = "postgres")
      \/ /\ HandleClosed(t) \/ (sqlConn[t] = NoConn /\ Dialect # "postgres")
         /\ UNCHANGED serverVars
  BY <1>1 DEF Send
<1>5. /\ inTx \in [Conn -> BOOLEAN] /\ buf \in [Conn -> SUBSET Stmt]
      /\ sqlConn \in [Trx -> Conn \cup {NoConn}]
      /\ pool.holder \in [Conn -> Trx \cup {NoTrx}]
  BY DEF TypeOK, Pool
<1>6. ASSUME NEW c \in Target(t), NEW ok \in BOOLEAN, ServerEnds(c, kind, ok),
             ~HandleClosed(t), sqlConn[t] # NoConn \/ Dialect = "postgres"
      PROVE  SessionInv'
  <2>1. c \in Conn /\ (sqlConn[t] # NoConn => c = sqlConn[t])
    BY <1>5 DEF Target, Idle
  <2>2. /\ inTx' = [inTx EXCEPT ![c] = Dialect = "oracledb"]
        /\ buf' = [buf EXCEPT ![c] = {}]
    BY <1>6 DEF ServerEnds
  <2>3. \A d \in Conn : d # c => inTx'[d] = inTx[d] /\ buf'[d] = buf[d]
    BY <1>5, <2>2
  <2>4. buf'[c] = {}
    BY <1>5, <2>1, <2>2
  <2>5. CASE SharedHandle
    <3>1. ~inTx'[c]
      BY <1>5, <2>1, <2>2, <2>5 DEF SharedHandle
    <3>2. \A d \in Conn : /\ inTx'[d] => pool'.holder[d] # NoTrx
                          /\ buf'[d] # {} => inTx'[d]
      BY <2>3, <2>4, <3>1 DEF SessionInv
    <3>3. ASSUME NEW u \in Trx, NEW f \in Ender,
                 call'[u][f].stage = "sent", sqlConn[u] # NoConn
          PROVE  ~inTx'[sqlConn[u]]
      <4>1. CASE sqlConn[u] = c
        BY <3>1, <4>1
      <4>2. CASE sqlConn[u] # c
        <5>1. u # t /\ sqlConn[u] \in Conn
          BY <1>5, <2>1, <3>3, <4>2
        <5>2. ~inTx[sqlConn[u]]
          BY <1>3, <2>5, <3>3, <5>1 DEF SessionInv
        <5>3. QED
          BY <2>3, <4>2, <5>1, <5>2
      <4>3. QED
        BY <4>1, <4>2
    <3>4. QED
      BY <3>2, <3>3 DEF SessionInv
  <2>6. CASE ~SharedHandle
    <3>1. sqlConn[t] # NoConn /\ pool.holder[c] = t
      BY <1>6, <2>1, <2>6 DEF HandleClosed, SharedHandle
    <3>2. pool'.holder[c] # NoTrx
      BY <3>1, NoneAssumption
    <3>3. QED
      BY <2>3, <2>4, <2>6, <3>2 DEF SessionInv
  <2>7. QED
    BY <2>5, <2>6
<1>7. CASE /\ HandleClosed(t) \/ (sqlConn[t] = NoConn /\ Dialect # "postgres")
           /\ UNCHANGED serverVars
  <2>1. SharedHandle => sqlConn[t] = NoConn
    BY <1>7 DEF HandleClosed
  <2>2. QED
    BY <1>3, <1>7, <2>1 DEF SessionInv, serverVars
<1>8. QED
  BY <1>4, <1>6, <1>7

\* Sessions are untouched by a step that sends nothing and lends nothing.
LEMMA SessionFrame ==
  ASSUME SessionInv, UNCHANGED <<inTx, buf, pool>>,
         \A t \in Trx : sqlConn'[t] = sqlConn[t] \/ sqlConn'[t] = NoConn,
         \A t \in Trx, e \in Ender :
           call'[t][e].stage = "sent" => call[t][e].stage = "sent"
  PROVE  SessionInv'
BY DEF SessionInv

\* A connection goes back to the pool only with its session out of any
\* transaction.
LEMMA SessionRelease ==
  ASSUME TypeOK, LeaseInv, SessionInv, NoQueue,
         NEW t \in Trx, NEW e \in Ender, Release(t, e)
  PROVE  SessionInv'
<1> DEFINE c == sqlConn[t]
<1>1. /\ inTx \in [Conn -> BOOLEAN] /\ buf \in [Conn -> SUBSET Stmt]
      /\ sqlConn \in [Trx -> Conn \cup {NoConn}]
      /\ pool.holder \in [Conn -> Trx \cup {NoTrx}]
  BY DEF TypeOK, Pool
<1>2. call[t][e].stage = "sent"
  BY DEF Release
<1>3. \A u \in Trx, f \in Ender :
        call'[u][f].stage = "sent" => call[u][f].stage = "sent"
  BY <1>1, <1>2, ReleaseStage
<1>4. CASE released[t] \/ c = NoConn
  <2>1. UNCHANGED <<inTx, buf, pool, sqlConn>>
    BY <1>4 DEF Release
  <2>2. QED
    BY <1>3, <2>1, SessionFrame
<1>5. CASE ~released[t] /\ c # NoConn /\ SharedHandle
  <2>1. /\ c \in Conn /\ pool.holder[c] = t /\ pool.waiters = <<>> /\ ~inTx[c]
        /\ buf[c] = {} /\ t # NoTrx
    BY <1>1, <1>2, <1>5, NoneAssumption DEF LeaseInv, ClonesLease, NoQueue, SessionInv
  <2>2. Lend(pool, c) = [pool EXCEPT !.holder[c] = NoTrx]
    BY <2>1 DEF Lend
  <2>3. Lend(pool, c).holder = [pool.holder EXCEPT ![c] = NoTrx]
    BY <2>2 DEF TypeOK, Pool
  <2>4. GiveBack(GiveBack(pool, t, c), t, c) = Lend(pool, c)
    BY <1>1, <2>1, <2>3 DEF GiveBack
  <2>5. /\ pool'.holder = [pool.holder EXCEPT ![c] = NoTrx]
        /\ sqlConn' = [sqlConn EXCEPT ![t] = NoConn]
        /\ UNCHANGED <<inTx, buf>>
    BY <1>5, <2>3, <2>4 DEF Release, DropConnection
  <2>6. QED
    BY <1>1, <1>3, <2>1, <2>5 DEF SessionInv
<1>6. CASE ~released[t] /\ c # NoConn /\ ~SharedHandle
  <2>1. /\ c \in Conn /\ pool' = GiveBack(pool, t, c)
        /\ IF HandleClosed(t)
             THEN UNCHANGED <<inTx, buf>>
             ELSE /\ inTx' = [inTx EXCEPT ![c] = FALSE]
                  /\ buf' = [buf EXCEPT ![c] = {}]
    BY <1>1, <1>6 DEF Release
  <2>2. CASE HandleClosed(t)
    <3>1. pool' = pool
      BY <1>6, <2>1, <2>2 DEF HandleClosed, GiveBack
    <3>2. QED
      BY <1>6, <2>1, <2>2, <3>1 DEF SessionInv
  <2>3. CASE ~HandleClosed(t)
    <3>1. pool.holder[c] = t
      BY <1>6, <2>3 DEF HandleClosed
    <3>2. pool' = Lend(pool, c)
      BY <2>1, <3>1 DEF GiveBack
    <3>3. \A d \in Conn : d # c => pool'.holder[d] = pool.holder[d]
      <4> DEFINE cc == c
      <4>1. cc \in Conn /\ pool' = Lend(pool, cc)
        BY <2>1, <3>2
      <4> HIDE DEF cc
      <4>2. \A d \in Conn : d # cc => pool'.holder[d] = pool.holder[d]
        BY <4>1, LendEffect
      <4>3. QED
        BY <4>2 DEF cc
    <3>4. /\ ~inTx'[c] /\ buf'[c] = {}
          /\ \A d \in Conn : d # c => inTx'[d] = inTx[d] /\ buf'[d] = buf[d]
      BY <1>1, <2>1, <2>3
    <3>5. QED
      BY <1>6, <2>1, <3>3, <3>4 DEF SessionInv
  <2>4. QED
    BY <2>2, <2>3
<1>7. QED
  BY <1>4, <1>5, <1>6

\* A session is in a transaction only while a transaction leases it.
THEOREM SessionInvariant ==
  ASSUME ~CrossContext
  PROVE  Spec /\ []NoQueue => []SessionInv
<1>1. Init => SessionInv
  BY DEF Init, NoCall, SessionInv
<1>2. TypeOK /\ NoQueue /\ LeaseInv /\ SessionInv /\ [Next]_vars => SessionInv'
  <2> SUFFICES ASSUME TypeOK, NoQueue, LeaseInv, SessionInv, [Next]_vars
               PROVE  SessionInv'
    OBVIOUS
  <2>1. ASSUME NEW t \in Trx, GetConnection(t)
        PROVE  SessionInv'
    <3>1. /\ UNCHANGED <<inTx, buf, sqlConn, call>>
          /\ \/ \E c \in Idle :
                  pool' = [pool EXCEPT !.holder[c] = t, !.grant[t] = c]
             \/ pool' = [pool EXCEPT !.waiters = Append(@, t)]
      BY <2>1 DEF GetConnection, serverVars
    <3>2. \A d \in Conn : pool.holder[d] # NoTrx => pool'.holder[d] # NoTrx
      <4>1. pool \in Pool /\ pool.holder \in [Conn -> Trx \cup {NoTrx}]
        BY DEF TypeOK, Pool
      <4>2. ASSUME NEW c \in Idle,
                   pool' = [pool EXCEPT !.holder[c] = t, !.grant[t] = c]
            PROVE  pool'.holder = [pool.holder EXCEPT ![c] = t]
        BY <4>1, <4>2 DEF Pool
      <4>3. CASE pool' = [pool EXCEPT !.waiters = Append(@, t)]
        BY <4>1, <4>3 DEF Pool
      <4>4. QED
        BY <3>1, <4>1, <4>2, <4>3, NoneAssumption
    <3>3. QED
      BY <3>1, <3>2 DEF SessionInv
  <2>2. ASSUME NEW t \in Trx, Begin(t) \/ BeginFails(t)
        PROVE  SessionInv'
    <3> DEFINE c == pool.grant[t]
    <3>1. /\ pc[t] = "waiting" /\ c \in Conn
          /\ sqlConn' = [sqlConn EXCEPT ![t] = c]
          /\ UNCHANGED <<pool, call>>
          /\ \E b \in BOOLEAN : inTx' = [inTx EXCEPT ![c] = b]
          /\ inTx[c] => inTx'[c]
          /\ buf' = buf \/ (inTx'[c] /\ buf' = [buf EXCEPT ![c] = {}])
      BY <2>2 DEF Begin, BeginFails, TypeOK, Pool
    <3>2. pool.holder[c] = t /\ t # NoTrx
      BY <3>1, NoneAssumption DEF LeaseInv, ClonesLease
    <3>3. \A e \in Ender : call[t][e].stage # "sent"
      BY <3>1 DEF LeaseInv, ClonesLease
    <3>4. \A u \in Trx : SharedHandle /\ u # t => sqlConn[u] # c
      BY <3>1, <3>2, NoneAssumption DEF LeaseInv, ClonesLease, TypeOK
    <3>5. \A d \in Conn : /\ d # c => inTx'[d] = inTx[d] /\ buf'[d] = buf[d]
                          /\ buf'[d] = buf[d] \/ buf'[d] = {}
      BY <3>1 DEF TypeOK
    <3>6. \A u \in Trx : u # t => sqlConn'[u] = sqlConn[u]
      BY <3>1 DEF TypeOK
    <3>7. /\ \A d \in Conn :
               /\ inTx'[d] => pool'.holder[d] # NoTrx
               /\ buf'[d] # {} => inTx'[d]
      BY <3>1, <3>2, <3>5 DEF SessionInv
    <3>8. \A u \in Trx, e \in Ender :
            SharedHandle /\ call'[u][e].stage = "sent" /\ sqlConn'[u] # NoConn
              => ~inTx'[sqlConn'[u]]
      BY <3>1, <3>3, <3>4, <3>5, <3>6 DEF SessionInv, TypeOK
    <3>9. QED
      BY <3>7, <3>8 DEF SessionInv
  <2>3. ASSUME NEW s \in Stmt, NEW t \in Trx, NEW x, Issue(s, t, x)
        PROVE  SessionInv'
    BY <2>3, SessionFrame DEF Issue, trxVars, serverVars
  <2>4. ASSUME NEW s \in Stmt, Execute(s)
        PROVE  SessionInv'
    <3>1. UNCHANGED <<sqlConn, call, pool, inTx>>
      BY <2>4 DEF Execute, trxVars
    <3>2. \A c \in Conn : buf'[c] # buf[c] => inTx[c]
      BY <2>4 DEF Execute, TypeOK
    <3>3. QED
      BY <3>1, <3>2 DEF SessionInv
  <2>5. ASSUME NEW t \in Trx, NEW e \in Ender, NEW kind \in {"commit", "rollback"},
               NEW x \in Contexts(t), End(t, e, kind, x)
        PROVE  SessionInv'
    <3>1. UNCHANGED <<sqlConn, pool>>
      BY <2>5 DEF End, trxVars
    <3>2. CASE Send(t, e, kind, x)
      BY <3>1, <3>2, SessionSend
    <3>3. CASE /\ call' = [call EXCEPT ![t][e] = [@ EXCEPT !.stage = "ignored", !.kind = kind]]
               /\ UNCHANGED serverVars
      <4>1. call[t][e] \in Call /\ call \in [Trx -> [Ender -> Call]]
        BY DEF TypeOK
      <4>2. [call[t][e] EXCEPT !.stage = "ignored", !.kind = kind].stage = "ignored"
        BY <4>1 DEF Call
      <4>3. QED
        BY <3>1, <3>3, <4>1, <4>2, SessionFrame DEF serverVars
    <3>4. QED
      BY <2>5, <3>2, <3>3 DEF End
  <2>6. ASSUME NEW t \in Trx, NEW e \in Ender, CatchRollsBack(t, e)
        PROVE  SessionInv'
    <3>1. UNCHANGED <<sqlConn, pool>>
      BY <2>6 DEF CatchRollsBack, trxVars
    <3>2. CASE Send(t, e, "rollback", NoTrx)
      BY <3>1, <3>2, SessionSend
    <3>3. CASE /\ call' = [call EXCEPT ![t][e] = [@ EXCEPT !.kind = "rollback"]]
               /\ UNCHANGED serverVars
      <4>1. call[t][e] \in Call /\ call \in [Trx -> [Ender -> Call]]
        BY DEF TypeOK
      <4>2. [call[t][e] EXCEPT !.kind = "rollback"].stage = call[t][e].stage
        BY <4>1 DEF Call
      <4>3. QED
        BY <3>1, <3>3, <4>1, <4>2, SessionFrame DEF serverVars
    <3>4. QED
      BY <2>6, <3>2, <3>3 DEF CatchRollsBack
  <2>7. ASSUME NEW t \in Trx, NEW e \in Ender, Release(t, e)
        PROVE  SessionInv'
    BY <2>7, SessionRelease
  <2>8. ASSUME NEW t \in Trx, NEW e \in Ender,
               Closed(t, e) \/ MarkReleased(t, e) \/ Clear(t, e)
        PROVE  SessionInv'
    <3>1. /\ UNCHANGED <<inTx, buf, pool>>
          /\ \A u \in Trx : sqlConn'[u] = sqlConn[u] \/ sqlConn'[u] = NoConn
          /\ \E stage \in {"released", "rejected", "clearing", "resolved"} :
               call' = [call EXCEPT ![t][e] = [@ EXCEPT !.stage = stage]]
      BY <2>8 DEF Closed, MarkReleased, Clear, DropConnection, serverVars, TypeOK
    <3>2. call[t][e] \in Call /\ call \in [Trx -> [Ender -> Call]]
      BY DEF TypeOK
    <3>3. \A stage \in {"released", "rejected", "clearing", "resolved"} :
            [call[t][e] EXCEPT !.stage = stage].stage # "sent"
      BY <3>2 DEF Call
    <3>4. QED
      BY <3>1, <3>2, <3>3, SessionFrame
  <2>9. CASE UNCHANGED vars
    BY <2>9, SessionFrame DEF vars
  <2>10. QED
    BY <2>1, <2>2, <2>3, <2>4, <2>5, <2>6, <2>7, <2>8, <2>9 DEF Next
<1>3. QED
  BY <1>1, <1>2, TypeCorrect, LeaseInvariant, PTL DEF Spec

\* The pool never lends a connection that is inside a transaction or carries
\* uncommitted writes, unless a transaction is used inside another's callback.
THEOREM PoolStaysClean ==
  ASSUME ~CrossContext
  PROVE  Spec /\ []NoQueue => []CleanPool
<1>1. SessionInv => CleanPool
  BY DEF SessionInv, CleanPool, Idle
<1>2. QED
  BY <1>1, SessionInvariant, PTL

-----------------------------------------------------------------------------
(***************************************************************************)
(* Outcomes.  Where the application awaits its statements and does not use *)
(* one transaction inside another's callback, every write is in the        *)
(* session of its transaction until the first commit() or rollback().      *)
(***************************************************************************)

\* Open, and nobody has called commit() or rollback().
Working(t) == pc[t] = "open" /\ ~Started(t)

\* t leases the connection its clone holds.
Lent(t) == sqlConn[t] # NoConn /\ pool.holder[sqlConn[t]] = t

\* Each write is with its transaction: unsent, or in its session, or decided.
WritesInv ==
  /\ \A t \in Trx :
       /\ Working(t) => isActive[t] /\ Lent(t) /\ inTx[sqlConn[t]]
       /\ released[t] => Started(t)
  /\ \A s \in Stmt :
       /\ stmt[s].ran \in {"unissued", "bound", "tx"}
       /\ stmt[s].via = stmt[s].to
       /\ stmt[s].ran # "unissued" => stmt[s].to \in Trx /\ pc[stmt[s].to] = "open"
       /\ stmt[s].ran # "tx" => s \notin db
       /\ stmt[s].ran = "bound" => Working(stmt[s].to)
       /\ stmt[s].ran = "tx" /\ Working(stmt[s].to)
            => s \in buf[sqlConn[stmt[s].to]]
  /\ \A c \in Conn : \A s \in buf[c] :
       /\ stmt[s].ran = "tx" /\ Working(stmt[s].to)
       /\ sqlConn[stmt[s].to] = c /\ s \notin db

UnderWay == {"sent", "closing", "released", "clearing"}

\* Only e has asked the server for anything.
Alone(t, e) == \A f \in Ender \ {e} : call[t][f].stage \in {"idle", "ignored"}

\* What the server did is what the call says of it.
Outcome(t, e) ==
  IF call[t][e].kind = "commit" THEN Writes(t) \subseteq db ELSE Writes(t) \cap db = {}

\* While t is active nobody has given its connection back, or the call that did,
\* without an error, is on its way to clear isActive.
Clears(t) ==
  \/ /\ Lent(t) /\ ~released[t]
     /\ \A e \in Ender : call[t][e].stage \in {"idle", "sent"}
  \/ \E e \in Ender :
       \/ call[t][e].stage \in {"closing", "released"} /\ ~call[t][e].relErr
       \/ call[t][e].stage = "clearing"

AnswerOf(t) ==
  /\ pc[t] = "open" /\ isActive[t] => Clears(t)
  /\ \A e \in Ender :
       /\ call[t][e].stage = "resolved" => call[t][e].ok
       /\ call[t][e].stage = "ignored" => ~isActive[t]
       /\ Alone(t, e) /\ call[t][e].stage \in UnderWay => isActive[t]
       /\ Alone(t, e) /\ call[t][e].stage = "rejected" => ~isActive[t]
       /\ /\ Alone(t, e) /\ call[t][e].ok
          /\ call[t][e].stage \in UnderWay \cup {"resolved"}
          => Outcome(t, e)

AnswerInv == \A t \in Trx : AnswerOf(t)

\* What the database has of an ended transaction.
SettledKept ==
  \A u \in Trx : Started(u) => Writes(u)' = Writes(u) /\ Writes(u)' \cap db' = Writes(u) \cap db

\* A session carries writes of the transaction at work on it only.
LEMMA BufOwner ==
  ASSUME TypeOK, WritesInv, NEW c \in Conn, NEW s \in buf[c]
  PROVE  /\ s \in Stmt /\ stmt[s].to \in Trx /\ stmt[s].ran = "tx"
         /\ Working(stmt[s].to) /\ sqlConn[stmt[s].to] = c
         /\ pool.holder[c] = stmt[s].to
<1>1. s \in Stmt
  BY DEF TypeOK
<1>2. /\ stmt[s].ran = "tx" /\ Working(stmt[s].to) /\ sqlConn[stmt[s].to] = c
      /\ stmt[s].to \in Trx
  BY <1>1 DEF WritesInv
<1>3. QED
  BY <1>1, <1>2 DEF WritesInv, Lent

\* A step of a transaction that was ended before touches nobody's writes.
LEMMA LateStep ==
  ASSUME TypeOK, WritesInv, NEW t \in Trx, Started(t), Started(t)',
         UNCHANGED <<pc, stmt, db>>,
         \A u \in Trx \ {t} : /\ call'[u] = call[u] /\ isActive'[u] = isActive[u]
                              /\ sqlConn'[u] = sqlConn[u] /\ released'[u] = released[u],
         \A d \in Conn : /\ buf'[d] \subseteq buf[d]
                         /\ pool.holder[d] \in Trx \ {t}
                              => /\ pool'.holder[d] = pool.holder[d]
                                 /\ inTx'[d] = inTx[d] /\ buf'[d] = buf[d]
  PROVE  WritesInv' /\ SettledKept
<1>1. ~Working(t) /\ ~Working(t)'
  BY DEF Working
<1>2. \A u \in Trx \ {t} : (Started(u)' <=> Started(u)) /\ (Working(u)' <=> Working(u))
  BY DEF Started, Working
<1>3. \A u \in Trx : Working(u) => u # t /\ sqlConn[u] \in Conn /\ Lent(u)
  BY <1>1 DEF WritesInv, Lent, TypeOK
<1>4. ASSUME NEW u \in Trx
      PROVE  /\ Working(u)' => isActive'[u] /\ Lent(u)' /\ inTx'[sqlConn'[u]]
             /\ released'[u] => Started(u)'
  BY <1>1, <1>2, <1>3 DEF WritesInv, Lent
<1>5. ASSUME NEW s \in Stmt
      PROVE  /\ stmt[s].ran \in {"unissued", "bound", "tx"}
             /\ stmt[s].via = stmt[s].to
             /\ stmt[s].ran # "unissued" => stmt[s].to \in Trx /\ pc'[stmt[s].to] = "open"
             /\ stmt[s].ran # "tx" => s \notin db
             /\ stmt[s].ran = "bound" => Working(stmt[s].to)'
             /\ stmt[s].ran = "tx" /\ Working(stmt[s].to)'
                  => s \in buf'[sqlConn'[stmt[s].to]]
  BY <1>1, <1>2, <1>3 DEF WritesInv, Lent
<1>6. ASSUME NEW c \in Conn, NEW s \in buf'[c]
      PROVE  /\ stmt[s].ran = "tx" /\ Working(stmt[s].to)'
             /\ sqlConn'[stmt[s].to] = c /\ s \notin db
  <2>1. s \in buf[c]
    OBVIOUS
  <2>2. QED
    BY <1>1, <1>2, <2>1, BufOwner DEF WritesInv
<1>7. WritesInv'
  BY <1>4, <1>5, <1>6 DEF WritesInv, Working
<1>8. SettledKept
  BY DEF SettledKept, Writes
<1>9. QED
  BY <1>7, <1>8

\* Nobody has addressed a write to a transaction before it is open.
LEMMA EarlyFrame ==
  ASSUME TypeOK, LeaseInv, WritesInv, NEW t \in Trx, pc[t] # "open",
         UNCHANGED <<stmt, db, buf, call, released>>,
         \A u \in Trx \ {t} : /\ pc'[u] = pc[u] /\ isActive'[u] = isActive[u]
                              /\ sqlConn'[u] = sqlConn[u]
                              /\ Lent(u) => Lent(u)',
         \A d \in Conn : inTx[d] => inTx'[d],
         pc'[t] = "open" => isActive'[t] /\ Lent(t)' /\ inTx'[sqlConn'[t]]
  PROVE  WritesInv' /\ SettledKept
<1>1. ~released[t] /\ ~Working(t) /\ ~Started(t)
  BY DEF Started, Working, LeaseInv, ClonesLease
<1>2. \A s \in Stmt : stmt[s].ran # "unissued" => stmt[s].to \in Trx \ {t}
  BY DEF WritesInv
<1>3. \A u \in Trx : Started(u)' <=> Started(u)
  BY DEF Started
<1>4. \A u \in Trx \ {t} : Working(u)' <=> Working(u)
  BY <1>3 DEF Working
<1>5. \A u \in Trx : Working(u) => sqlConn[u] \in Conn /\ Lent(u)
  BY DEF WritesInv, Lent, TypeOK
<1>6. ASSUME NEW u \in Trx
      PROVE  /\ Working(u)' => isActive'[u] /\ Lent(u)' /\ inTx'[sqlConn'[u]]
             /\ released'[u] => Started(u)'
  <2>1. CASE u = t
    BY <1>1, <2>1 DEF Working
  <2>2. CASE u # t
    BY <1>3, <1>4, <1>5, <2>2 DEF WritesInv
  <2>3. QED
    BY <2>1, <2>2
<1>7. ASSUME NEW s \in Stmt
      PROVE  /\ stmt[s].ran \in {"unissued", "bound", "tx"}
             /\ stmt[s].via = stmt[s].to
             /\ stmt[s].ran # "unissued" => stmt[s].to \in Trx /\ pc'[stmt[s].to] = "open"
             /\ stmt[s].ran # "tx" => s \notin db
             /\ stmt[s].ran = "bound" => Working(stmt[s].to)'
             /\ stmt[s].ran = "tx" /\ Working(stmt[s].to)'
                  => s \in buf[sqlConn'[stmt[s].to]]
  BY <1>2, <1>4 DEF WritesInv
<1>8. ASSUME NEW d \in Conn, NEW s \in buf[d]
      PROVE  /\ stmt[s].ran = "tx" /\ Working(stmt[s].to)'
             /\ sqlConn'[stmt[s].to] = d /\ s \notin db
  <2>1. s \in Stmt /\ stmt[s].ran = "tx" /\ stmt[s].to \in Trx \ {t}
        /\ Working(stmt[s].to) /\ sqlConn[stmt[s].to] = d
    BY <1>2, BufOwner
  <2>2. QED
    BY <1>4, <2>1 DEF WritesInv
<1>9. WritesInv'
  BY <1>6, <1>7, <1>8 DEF WritesInv, Working
<1>10. SettledKept
  BY DEF SettledKept, Writes
<1>11. QED
  BY <1>9, <1>10

\* A connection is lent to a new transaction without taking it from another.
LEMMA LendsIdle ==
  ASSUME TypeOK, NEW t \in Trx, GetConnection(t)
  PROVE  \A d \in Conn : pool.holder[d] # NoTrx => pool'.holder[d] = pool.holder[d]
<1>1. pool \in Pool /\ pool.holder \in [Conn -> Trx \cup {NoTrx}]
  BY DEF TypeOK, Pool
<1>2. ASSUME NEW c \in Idle,
             pool' = [pool EXCEPT !.holder[c] = t, !.grant[t] = c]
      PROVE  pool'.holder = [pool.holder EXCEPT ![c] = t]
  BY <1>1, <1>2 DEF Pool
<1>3. CASE pool' = [pool EXCEPT !.waiters = Append(@, t)]
  BY <1>1, <1>3 DEF Pool
<1>4. QED
  BY <1>1, <1>2, <1>3 DEF GetConnection, Idle

\* A connection is asked for, and arrives with a session that carries no writes.
LEMMA EarlyWrites ==
  ASSUME TypeOK, LeaseInv, WritesInv, NEW t \in Trx,
         GetConnection(t) \/ Begin(t) \/ BeginFails(t)
  PROVE  WritesInv' /\ SettledKept
<1>1. /\ pool \in Pool /\ pool.holder \in [Conn -> Trx \cup {NoTrx}]
      /\ pool.grant \in [Trx -> Conn \cup {NoConn}]
      /\ pc \in [Trx -> {"new", "waiting", "open", "failed"}]
      /\ sqlConn \in [Trx -> Conn \cup {NoConn}]
      /\ isActive \in [Trx -> BOOLEAN] /\ inTx \in [Conn -> BOOLEAN]
      /\ buf \in [Conn -> SUBSET Stmt]
  BY DEF TypeOK, Pool
<1>2. pc[t] # "open" /\ UNCHANGED <<call, stmt, released>>
  BY DEF GetConnection, Begin, BeginFails
<1>3. CASE GetConnection(t)
  <2>1. UNCHANGED <<isActive, sqlConn, inTx, buf, db>> /\ pc' = [pc EXCEPT ![t] = "waiting"]
    BY <1>3 DEF GetConnection, serverVars
  <2>2. \A d \in Conn : pool.holder[d] # NoTrx => pool'.holder[d] = pool.holder[d]
    BY <1>3, LendsIdle
  <2>3. \A u \in Trx : Lent(u) => Lent(u)'
    BY <1>1, <2>1, <2>2, NoneAssumption DEF Lent
  <2>4. pc'[t] = "waiting" /\ \A u \in Trx \ {t} : pc'[u] = pc[u]
    BY <1>1, <2>1
  <2>5. QED
    BY <1>2, <2>1, <2>3, <2>4, EarlyFrame
<1>4. CASE Begin(t) \/ BeginFails(t)
  <2> DEFINE c == pool.grant[t]
  <2>1. /\ c \in Conn /\ c # NoConn /\ pc[t] = "waiting" /\ pool' = pool
        /\ sqlConn' = [sqlConn EXCEPT ![t] = c]
        /\ \A u \in Trx \ {t} : isActive'[u] = isActive[u] /\ pc'[u] = pc[u]
        /\ \A d \in Conn : inTx[d] => inTx'[d]
        /\ pc'[t] = "open" => isActive'[t] /\ inTx'[c]
    BY <1>1, <1>4 DEF Begin, BeginFails
  <2>2. pool.holder[c] = t
    BY <2>1 DEF LeaseInv, ClonesLease
  <2>3. buf[c] = {}
    <3>1. ASSUME NEW s \in buf[c] PROVE FALSE
      BY <1>2, <2>1, <2>2, <3>1, BufOwner DEF Working
    <3>2. QED
      BY <3>1
  <2>4. UNCHANGED <<db, buf>>
    <3>1. [buf EXCEPT ![c] = {}] = buf
      BY <1>1, <2>1, <2>3
    <3>2. CASE Begin(t)
      BY <2>3, <3>1, <3>2 DEF Begin
    <3>3. CASE BeginFails(t)
      BY <3>3 DEF BeginFails
    <3>4. QED
      BY <1>4, <3>2, <3>3
  <2> HIDE DEF c
  <2>5. sqlConn'[t] = c /\ \A u \in Trx \ {t} : sqlConn'[u] = sqlConn[u]
    BY <1>1, <2>1
  <2>6. Lent(t)' /\ \A u \in Trx \ {t} : Lent(u) => Lent(u)'
    BY <2>1, <2>2, <2>5 DEF Lent
  <2>7. QED
    BY <1>2, <2>1, <2>4, <2>5, <2>6, EarlyFrame
<1>5. QED
  BY <1>3, <1>4

\* A statement is bound to its own transaction, and runs inside of it.
LEMMA StatementWrites ==
  ASSUME ~CrossContext, Awaited, TypeOK, WritesInv, NEW s \in Stmt,
         \/ \E t \in Trx : \E x \in Contexts(t) : Issue(s, t, x)
         \/ Execute(s)
  PROVE  WritesInv' /\ SettledKept
<1>1. /\ stmt \in [Stmt -> Statement] /\ stmt[s] \in Statement
      /\ buf \in [Conn -> SUBSET Stmt] /\ sqlConn \in [Trx -> Conn \cup {NoConn}]
  BY DEF TypeOK
<1>2. /\ UNCHANGED <<pc, isActive, released, sqlConn, call, pool, inTx>>
      /\ \A u \in Trx : /\ Working(u)' <=> Working(u)
                        /\ Started(u)' <=> Started(u)
                        /\ Lent(u)' <=> Lent(u)
  BY DEF Issue, Execute, trxVars, serverVars, Working, Started, Lent
<1>3. CASE \E t \in Trx : \E x \in Contexts(t) : Issue(s, t, x)
  <2>1. PICK t \in Trx : \E x \in Contexts(t) : Issue(s, t, x)
    BY <1>3
  <2>2. PICK x \in Contexts(t) : Issue(s, t, x)
    BY <2>1
  <2>3. Resolve(t, x) = t
    BY <2>2, ResolveOwn
  <2>4. /\ Working(t) /\ pc[t] = "open" /\ stmt[s].ran = "unissued"
        /\ stmt' = [stmt EXCEPT ![s] = [to |-> t, via |-> t, ran |-> "bound"]]
        /\ UNCHANGED <<buf, db>>
    BY <2>2, <2>3 DEF Issue, Working, serverVars
  <2>5. /\ stmt'[s] = [to |-> t, via |-> t, ran |-> "bound"]
        /\ \A r \in Stmt \ {s} : stmt'[r] = stmt[r]
        /\ s \notin db /\ \A c \in Conn : s \notin buf[c]
    BY <1>1, <2>4 DEF WritesInv
  <2>6. WritesInv'
    <3>1. \A c \in Conn : \A r \in buf[c] : r \in Stmt \ {s}
      BY <1>1, <2>5
    <3>2. QED
      BY <1>2, <2>4, <2>5, <3>1 DEF WritesInv
  <2>7. SettledKept
    BY <2>4, <2>5 DEF SettledKept, Writes, Working
  <2>8. QED
    BY <2>6, <2>7
<1>4. CASE Execute(s)
  <2> DEFINE t == stmt[s].to
  <2>1. /\ stmt[s].ran = "bound" /\ stmt[s].via = t /\ t \in Trx /\ Working(t)
        /\ Lent(t) /\ inTx[sqlConn[t]] /\ sqlConn[t] \in Conn
    BY <1>1, <1>4 DEF Execute, WritesInv, Lent
  <2>2. ~HandleClosed(t) /\ Target(t) = {sqlConn[t]}
    BY <2>1 DEF HandleClosed, Lent, Target
  <2>3. /\ buf' = [buf EXCEPT ![sqlConn[t]] = @ \cup {s}]
        /\ stmt' = [stmt EXCEPT ![s].ran = "tx"]
        /\ db' = db
    BY <1>4, <2>1, <2>2 DEF Execute
  <2>4. /\ stmt'[s] = [stmt[s] EXCEPT !.ran = "tx"]
        /\ \A r \in Stmt \ {s} : stmt'[r] = stmt[r]
        /\ buf'[sqlConn[t]] = buf[sqlConn[t]] \cup {s}
        /\ \A c \in Conn \ {sqlConn[t]} : buf'[c] = buf[c]
    BY <1>1, <2>1, <2>3
  <2>5. stmt'[s].to = t /\ stmt'[s].via = t /\ stmt'[s].ran = "tx"
    BY <1>1, <2>1, <2>4 DEF Statement
  <2> HIDE DEF t
  <2>6. s \notin db
    BY <2>1 DEF WritesInv
  <2>7. ASSUME NEW r \in Stmt
        PROVE  /\ stmt'[r].ran \in {"unissued", "bound", "tx"}
               /\ stmt'[r].via = stmt'[r].to
               /\ stmt'[r].ran # "unissued" => stmt'[r].to \in Trx /\ pc[stmt'[r].to] = "open"
               /\ stmt'[r].ran # "tx" => r \notin db
               /\ stmt'[r].ran = "bound" => Working(stmt'[r].to)
               /\ stmt'[r].ran = "tx" /\ Working(stmt'[r].to)
                    => r \in buf'[sqlConn[stmt'[r].to]]
    <3>1. CASE r = s
      BY <2>1, <2>4, <2>5, <3>1 DEF Working
    <3>2. CASE r # s
      <4>1. stmt'[r] = stmt[r]
        BY <2>4, <3>2
      <4>2. stmt[r].ran = "tx" /\ Working(stmt[r].to)
              => r \in buf[sqlConn[stmt[r].to]] /\ stmt[r].to \in Trx
                 /\ sqlConn[stmt[r].to] \in Conn
        BY <1>1 DEF WritesInv, Lent
      <4>3. \A c \in Conn : buf[c] \subseteq buf'[c]
        BY <2>4
      <4>4. QED
        BY <4>1, <4>2, <4>3 DEF WritesInv
    <3>3. QED
      BY <3>1, <3>2
  <2>8. ASSUME NEW c \in Conn, NEW r \in buf'[c]
        PROVE  /\ stmt'[r].ran = "tx" /\ Working(stmt'[r].to)
               /\ sqlConn[stmt'[r].to] = c /\ r \notin db
    <3>1. CASE r = s
      <4>1. c = sqlConn[t]
        <5>1. r \notin buf[c]
          BY <2>1, <3>1, BufOwner
        <5>2. QED
          BY <2>4, <5>1
      <4>2. QED
        BY <2>1, <2>5, <2>6, <3>1, <4>1
    <3>2. CASE r # s
      <4>1. r \in buf[c]
        BY <2>4, <3>2
      <4>2. stmt'[r] = stmt[r]
        BY <2>4, <3>2, <4>1, BufOwner
      <4>3. QED
        BY <4>1, <4>2 DEF WritesInv
    <3>3. QED
      BY <3>1, <3>2
  <2>9. WritesInv'
    <3>1. \A r \in Stmt : stmt'[r].ran = "bound" \/ stmt'[r].ran = "tx" => stmt'[r].to \in Trx
      BY <2>7
    <3>2. ASSUME NEW r \in Stmt
          PROVE  /\ stmt'[r].ran \in {"unissued", "bound", "tx"}
                 /\ stmt'[r].via = stmt'[r].to
                 /\ stmt'[r].ran # "unissued" => stmt'[r].to \in Trx /\ pc'[stmt'[r].to] = "open"
                 /\ stmt'[r].ran # "tx" => r \notin db'
                 /\ stmt'[r].ran = "bound" => Working(stmt[r].to)'
                 /\ stmt'[r].ran = "tx" /\ Working(stmt[r].to)'
                      => r \in buf'[sqlConn'[stmt'[r].to]]
      BY <1>2, <2>3, <2>7 DEF Working, Started
    <3>3. ASSUME NEW c \in Conn, NEW r \in buf'[c]
          PROVE  /\ stmt'[r].ran = "tx" /\ Working(stmt[r].to)'
                 /\ sqlConn'[stmt'[r].to] = c /\ r \notin db'
      BY <1>2, <2>3, <2>8 DEF Working, Started
    <3>4. QED
      BY <1>2, <3>2, <3>3 DEF WritesInv
  <2>10. SettledKept
    BY <1>1, <2>1, <2>3, <2>4, <2>5 DEF SettledKept, Writes, Working
  <2>11. QED
    BY <2>9, <2>10
<1>5. QED
  BY <1>3, <1>4

\* What a COMMIT or ROLLBACK sent by t does to the sessions: the first one decides
\* the writes of t, a later one reaches no session that carries any.
LEMMA SendWrites ==
  ASSUME ~CrossContext, Awaited, TypeOK, LeaseInv, WritesInv,
         NEW t \in Trx, NEW e \in Ender, NEW kind \in {"commit", "rollback"},
         NEW x \in Contexts(t) \cup {NoTrx}, Send(t, e, kind, x),
         UNCHANGED <<trxVars, pool, stmt>>, pc[t] = "open",
         Working(t) => Quiet(t)
  PROVE  /\ WritesInv' /\ SettledKept
         /\ call'[t][e].stage = "sent" /\ call'[t][e].kind = kind
         /\ \A u \in Trx, f \in Ender : u # t \/ f # e => call'[u][f] = call[u][f]
         /\ Working(t) /\ call'[t][e].ok => Outcome(t, e)'
<1>1. Resolve(t, x) = t
  BY ResolveOwn
<1>2. PICK ok \in BOOLEAN :
        /\ call' = [call EXCEPT ![t][e] =
                      [stage |-> "sent", kind |-> kind, ok |-> ok, relErr |-> FALSE]]
        /\ \/ \E c \in Target(t) : ServerEnds(c, kind, ok) /\ ~HandleClosed(t)
                                   /\ (sqlConn[t] # NoConn \/ Dialect = "postgres")
           \/ /\ HandleClosed(t) \/ (sqlConn[t] = NoConn /\ Dialect # "postgres")
              /\ UNCHANGED serverVars /\ ~ok
  BY <1>1 DEF Send
<1>3. /\ call'[t][e] = [stage |-> "sent", kind |-> kind, ok |-> ok, relErr |-> FALSE]
      /\ \A u \in Trx, f \in Ender : u # t \/ f # e => call'[u][f] = call[u][f]
      /\ \A u \in Trx \ {t} : call'[u] = call[u]
  BY <1>2 DEF TypeOK
<1>4. Started(t)'
  BY <1>3 DEF Started
<1>5. /\ inTx \in [Conn -> BOOLEAN] /\ buf \in [Conn -> SUBSET Stmt]
      /\ sqlConn \in [Trx -> Conn \cup {NoConn}]
      /\ pool.holder \in [Conn -> Trx \cup {NoTrx}]
      /\ UNCHANGED <<pc, isActive, released, sqlConn, pool, stmt>>
  BY DEF TypeOK, Pool, trxVars
<1>6. CASE /\ HandleClosed(t) \/ (sqlConn[t] = NoConn /\ Dialect # "postgres")
           /\ UNCHANGED serverVars /\ ~ok
  <2>1. ~Working(t)
    BY <1>6 DEF WritesInv, Lent, HandleClosed
  <2>2. Started(t)
    BY <2>1 DEF Working
  <2>3. UNCHANGED <<inTx, buf, db>>
    BY <1>6 DEF serverVars
  <2>4. WritesInv' /\ SettledKept
    BY <1>3, <1>4, <1>5, <2>2, <2>3, LateStep
  <2>5. QED
    BY <1>3, <2>1, <2>4
<1>7. ASSUME NEW c \in Target(t), ~HandleClosed(t), ServerEnds(c, kind, ok),
             sqlConn[t] # NoConn \/ Dialect = "postgres"
      PROVE  /\ WritesInv' /\ SettledKept
             /\ Working(t) /\ ok => Outcome(t, e)'
  <2>1. /\ c \in Conn /\ pool.holder[c] \in {t, NoTrx}
        /\ Working(t) => c = sqlConn[t]
    <3>1. CASE sqlConn[t] = NoConn
      BY <1>5, <1>7, <3>1 DEF Target, Idle, WritesInv, Lent
    <3>2. CASE sqlConn[t] # NoConn
      BY <1>5, <1>7, <3>2 DEF Target, HandleClosed, LeaseInv, ClonesLease
    <3>3. QED
      BY <3>1, <3>2
  <2>2. /\ buf' = [buf EXCEPT ![c] = {}]
        /\ \A d \in Conn \ {c} : inTx'[d] = inTx[d] /\ buf'[d] = buf[d]
        /\ buf'[c] = {}
        /\ db' \in {db, db \cup buf[c]}
        /\ ok => db' = IF kind = "commit" THEN db \cup buf[c] ELSE db
    BY <1>5, <1>7, <2>1 DEF ServerEnds
  <2>3. \A s \in buf[c] : s \in Stmt /\ stmt[s].to = t /\ Working(t)
    BY <2>1, NoneAssumption, BufOwner
  <2>4. CASE ~Working(t)
    <3>1. buf[c] = {} /\ db' = db
      BY <2>2, <2>3, <2>4
    <3>2. \A d \in Conn : buf'[d] = buf[d]
      BY <2>2, <3>1
    <3>3. Started(t)
      BY <2>4 DEF Working
    <3>4. \A d \in Conn : pool.holder[d] \in Trx \ {t} => d # c
      BY <2>1, NoneAssumption
    <3>5. QED
      BY <1>3, <1>4, <1>5, <2>2, <2>4, <3>1, <3>2, <3>3, <3>4, LateStep
  <2>5. CASE Working(t)
    <3>1. c = sqlConn[t] /\ pc[t] = "open" /\ ~Started(t)
      BY <2>1, <2>5 DEF Working
    <3>2. \A u \in Trx \ {t} : /\ Started(u)' <=> Started(u)
                               /\ Working(u)' <=> Working(u)
      BY <1>3, <1>5 DEF Started, Working
    <3>3. ~Working(t)'
      BY <1>4 DEF Working
    <3>4. \A u \in Trx \ {t} :
            Working(u) => /\ sqlConn[u] \in Conn \ {c} /\ Lent(u)
                          /\ isActive[u] /\ inTx[sqlConn[u]]
      BY <1>5, <2>1, <2>5, <3>1 DEF WritesInv, Lent
    <3>5. \A s \in Stmt : s \in buf[c] => stmt[s].ran = "tx" /\ s \notin db
      BY <2>1 DEF WritesInv
    <3>6. ASSUME NEW u \in Trx
          PROVE  /\ Working(u)' => isActive'[u] /\ Lent(u)' /\ inTx'[sqlConn'[u]]
                 /\ released'[u] => Started(u)'
      BY <1>4, <1>5, <2>2, <3>2, <3>3, <3>4 DEF WritesInv, Lent
    <3>7. ASSUME NEW s \in Stmt
          PROVE  /\ stmt[s].ran \in {"unissued", "bound", "tx"}
                 /\ stmt[s].via = stmt[s].to
                 /\ stmt[s].ran # "unissued" => stmt[s].to \in Trx /\ pc'[stmt[s].to] = "open"
                 /\ stmt[s].ran # "tx" => s \notin db'
                 /\ stmt[s].ran = "bound" => Working(stmt[s].to)'
                 /\ stmt[s].ran = "tx" /\ Working(stmt[s].to)'
                      => s \in buf'[sqlConn'[stmt[s].to]]
      <4>1. stmt[s].ran # "tx" => s \notin db'
        BY <2>2, <3>5 DEF WritesInv
      <4>2. stmt[s].ran = "bound" => Working(stmt[s].to)'
        BY <2>5, <3>2 DEF WritesInv, Quiet
      <4>3. stmt[s].ran = "tx" /\ Working(stmt[s].to)' => s \in buf'[sqlConn'[stmt[s].to]]
        <5>1. stmt[s].ran = "tx" => stmt[s].to \in Trx
          BY DEF WritesInv
        <5>2. QED
          BY <1>5, <2>2, <3>2, <3>3, <3>4, <5>1 DEF WritesInv
      <4>4. QED
        BY <1>5, <4>1, <4>2, <4>3 DEF WritesInv
    <3>8. ASSUME NEW d \in Conn, NEW s \in buf'[d]
          PROVE  /\ stmt[s].ran = "tx" /\ Working(stmt[s].to)'
                 /\ sqlConn'[stmt[s].to] = d /\ s \notin db'
      <4>1. d # c /\ s \in buf[d]
        BY <2>2
      <4>2. /\ s \in Stmt /\ stmt[s].ran = "tx" /\ stmt[s].to \in Trx
            /\ Working(stmt[s].to) /\ sqlConn[stmt[s].to] = d
        BY <4>1, BufOwner
      <4>3. s \notin buf[c]
        BY <2>1, <4>1, <4>2, BufOwner
      <4>4. s \notin db' /\ stmt[s].to # t
        BY <2>2, <3>1, <4>1, <4>2, <4>3 DEF WritesInv
      <4>5. QED
        BY <1>5, <3>2, <4>2, <4>4
    <3>9. WritesInv'
      BY <1>5, <3>6, <3>7, <3>8 DEF WritesInv, Working
    <3>10. SettledKept
      <4>1. \A u \in Trx : Writes(u)' = Writes(u)
        BY <1>5 DEF Writes
      <4>2. \A u \in Trx : Started(u) => Writes(u) \cap buf[c] = {}
        BY <2>3, <3>1 DEF Writes
      <4>3. QED
        BY <2>2, <4>1, <4>2 DEF SettledKept
    <3>11. ok => Outcome(t, e)'
      <4>1. ASSUME NEW s \in Writes(t) PROVE s \in buf[c] /\ s \notin db
        <5>1. s \in Stmt /\ stmt[s].to = t /\ stmt[s].ran = "tx"
          BY <2>5 DEF Writes, Quiet, WritesInv
        <5>2. s \in buf[c]
          BY <2>5, <3>1, <5>1 DEF WritesInv
        <5>3. QED
          BY <2>1, <5>2 DEF WritesInv
      <4>2. Writes(t)' = Writes(t)
        BY <1>5 DEF Writes
      <4>3. call'[t][e].kind = kind
        BY <1>3
      <4>4. QED
        BY <2>2, <4>1, <4>2, <4>3 DEF Outcome
    <3>12. QED
      BY <3>9, <3>10, <3>11
  <2>6. QED
    BY <2>4, <2>5
<1>8. QED
  BY <1>2, <1>3, <1>6, <1>7

\* How a release, or what follows it, moves its call; what it leaves alone.
LEMMA LateMoves ==
  ASSUME TypeOK, LeaseInv, NEW t \in Trx, NEW e \in Ender,
         Release(t, e) \/ Closed(t, e) \/ MarkReleased(t, e) \/ Clear(t, e)
  PROVE  /\ pc[t] = "open" /\ Started(t) /\ Started(t)'
         /\ UNCHANGED <<pc, stmt, db>>
         /\ call'[t][e].stage \in {"closing", "released", "clearing", "resolved", "rejected"}
         /\ call'[t][e].ok = call[t][e].ok /\ call'[t][e].kind = call[t][e].kind
         /\ \A f \in Ender \ {e} : call'[t][f] = call[t][f]
         /\ \A u \in Trx \ {t} : /\ call'[u] = call[u] /\ isActive'[u] = isActive[u]
                                 /\ sqlConn'[u] = sqlConn[u] /\ released'[u] = released[u]
<1>1. /\ call[t][e].stage \in {"sent", "closing", "released", "clearing"}
      /\ UNCHANGED <<pc, stmt, db>>
      /\ \A u \in Trx \ {t} : /\ isActive'[u] = isActive[u]
                              /\ sqlConn'[u] = sqlConn[u] /\ released'[u] = released[u]
  BY DEF Release, Closed, MarkReleased, Clear, DropConnection, serverVars, TypeOK
<1>2. PICK new \in Call :
        /\ call' = [call EXCEPT ![t][e] = new]
        /\ new.stage \in {"closing", "released", "clearing", "resolved", "rejected"}
        /\ new.ok = call[t][e].ok /\ new.kind = call[t][e].kind
  <2>1. call[t][e] \in Call
    BY DEF TypeOK
  <2>2. CASE Release(t, e)
    <3>1. PICK stage \in {"closing", "released", "clearing"}, relErr \in BOOLEAN :
            call' = [call EXCEPT ![t][e] = [@ EXCEPT !.stage = stage, !.relErr = relErr]]
      BY <2>2 DEF Release
    <3> DEFINE n == [call[t][e] EXCEPT !.stage = stage, !.relErr = relErr]
    <3>2. /\ n \in Call /\ n.stage = stage
          /\ n.ok = call[t][e].ok /\ n.kind = call[t][e].kind
      BY <2>1 DEF Call, Stage
    <3>3. call' = [call EXCEPT ![t][e] = n]
      BY <3>1
    <3> HIDE DEF n
    <3>4. QED
      BY <3>2, <3>3
  <2>3. CASE Closed(t, e) \/ MarkReleased(t, e) \/ Clear(t, e)
    <3>1. PICK stage \in {"released", "clearing", "resolved", "rejected"} :
            call' = [call EXCEPT ![t][e] = [@ EXCEPT !.stage = stage]]
      BY <2>3 DEF Closed, MarkReleased, Clear
    <3> DEFINE n == [call[t][e] EXCEPT !.stage = stage]
    <3>2. /\ n \in Call /\ n.stage = stage
          /\ n.ok = call[t][e].ok /\ n.kind = call[t][e].kind
      BY <2>1 DEF Call, Stage
    <3>3. call' = [call EXCEPT ![t][e] = n]
      BY <3>1
    <3> HIDE DEF n
    <3>4. QED
      BY <3>2, <3>3
  <2>4. QED
    BY <2>2, <2>3
<1>3. /\ call'[t][e].stage \in {"closing", "released", "clearing", "resolved", "rejected"}
      /\ call'[t][e].ok = call[t][e].ok /\ call'[t][e].kind = call[t][e].kind
      /\ \A f \in Ender \ {e} : call'[t][f] = call[t][f]
      /\ \A u \in Trx \ {t} : call'[u] = call[u]
  BY <1>2 DEF TypeOK
<1>4. pc[t] = "open" /\ Started(t) /\ Started(t)'
  BY <1>1, <1>3 DEF LeaseInv, ClonesLease, Started
<1>5. QED
  BY <1>1, <1>3, <1>4

\* A release touches the lease and the session of its own transaction only.
LEMMA ReleaseOwn ==
  ASSUME TypeOK, NoQueue, LeaseInv, NEW t \in Trx, NEW e \in Ender, Release(t, e)
  PROVE  \A d \in Conn : /\ buf'[d] \subseteq buf[d]
                         /\ pool.holder[d] \in Trx \ {t}
                              => /\ pool'.holder[d] = pool.holder[d]
                                 /\ inTx'[d] = inTx[d] /\ buf'[d] = buf[d]
<1> DEFINE c == sqlConn[t]
<1>1. /\ inTx \in [Conn -> BOOLEAN] /\ buf \in [Conn -> SUBSET Stmt]
      /\ sqlConn \in [Trx -> Conn \cup {NoConn}]
      /\ pool.holder \in [Conn -> Trx \cup {NoTrx}]
  BY DEF TypeOK, Pool
<1>2. CASE released[t] \/ c = NoConn
  BY <1>2 DEF Release
<1>3. CASE ~released[t] /\ c # NoConn /\ SharedHandle
  <2>1. /\ c \in Conn /\ pool.holder[c] = t /\ pool.waiters = <<>> /\ t # NoTrx
    BY <1>1, <1>3, NoneAssumption DEF LeaseInv, ClonesLease, NoQueue
  <2>2. Lend(pool, c) = [pool EXCEPT !.holder[c] = NoTrx]
    BY <2>1 DEF Lend
  <2>3. Lend(pool, c).holder = [pool.holder EXCEPT ![c] = NoTrx]
    BY <2>2 DEF TypeOK, Pool
  <2>4. GiveBack(GiveBack(pool, t, c), t, c) = Lend(pool, c)
    BY <1>1, <2>1, <2>3 DEF GiveBack
  <2>5. /\ pool'.holder = [pool.holder EXCEPT ![c] = NoTrx]
        /\ UNCHANGED <<inTx, buf>>
    BY <1>3, <2>3, <2>4 DEF Release
  <2>6. QED
    BY <1>1, <2>1, <2>5
<1>4. CASE ~released[t] /\ c # NoConn /\ ~SharedHandle
  <2>1. /\ c \in Conn /\ pool' = GiveBack(pool, t, c)
        /\ IF HandleClosed(t)
             THEN UNCHANGED <<inTx, buf>>
             ELSE /\ inTx' = [inTx EXCEPT ![c] = FALSE]
                  /\ buf' = [buf EXCEPT ![c] = {}]
    BY <1>1, <1>4 DEF Release
  <2>2. CASE HandleClosed(t)
    <3>1. pool' = pool
      BY <1>4, <2>1, <2>2 DEF HandleClosed, GiveBack
    <3>2. QED
      BY <2>1, <2>2, <3>1
  <2>3. CASE ~HandleClosed(t)
    <3>1. pool.holder[c] = t
      BY <1>4, <2>3 DEF HandleClosed
    <3>2. pool' = Lend(pool, c)
      BY <2>1, <3>1 DEF GiveBack
    <3>3. \A d \in Conn : d # c => pool'.holder[d] = pool.holder[d]
      <4> DEFINE cc == c
      <4>1. cc \in Conn /\ pool' = Lend(pool, cc)
        BY <2>1, <3>2
      <4> HIDE DEF cc
      <4>2. \A d \in Conn : d # cc => pool'.holder[d] = pool.holder[d]
        BY <4>1, LendEffect
      <4>3. QED
        BY <4>2 DEF cc
    <3>4. \A d \in Conn : /\ buf'[d] \subseteq buf[d]
                          /\ d # c => inTx'[d] = inTx[d] /\ buf'[d] = buf[d]
      BY <1>1, <2>1, <2>3
    <3>5. QED
      BY <3>1, <3>3, <3>4
  <2>4. QED
    BY <2>2, <2>3
<1>5. QED
  BY <1>2, <1>3, <1>4

\* Giving the connection back, and what follows it, touches nobody's writes.
LEMMA LateWrites ==
  ASSUME TypeOK, NoQueue, LeaseInv, WritesInv, NEW t \in Trx, NEW e \in Ender,
         Release(t, e) \/ Closed(t, e) \/ MarkReleased(t, e) \/ Clear(t, e)
  PROVE  WritesInv' /\ SettledKept
<1>1. /\ Started(t) /\ Started(t)'
      /\ UNCHANGED <<pc, stmt, db>>
      /\ \A u \in Trx \ {t} : /\ call'[u] = call[u] /\ isActive'[u] = isActive[u]
                              /\ sqlConn'[u] = sqlConn[u] /\ released'[u] = released[u]
  BY LateMoves
<1>2. \A d \in Conn : /\ buf'[d] \subseteq buf[d]
                      /\ pool.holder[d] \in Trx \ {t}
                           => /\ pool'.holder[d] = pool.holder[d]
                              /\ inTx'[d] = inTx[d] /\ buf'[d] = buf[d]
  <2>1. CASE Release(t, e)
    BY <2>1, ReleaseOwn
  <2>2. CASE Closed(t, e) \/ MarkReleased(t, e) \/ Clear(t, e)
    BY <2>2 DEF Closed, MarkReleased, Clear, serverVars
  <2>3. QED
    BY <2>1, <2>2
<1>3. QED
  BY <1>1, <1>2, LateStep

\* commit() or rollback() by an application task, or by the catch of a callback.
LEMMA EndWrites ==
  ASSUME ~CrossContext, Awaited, TypeOK, LeaseInv, WritesInv,
         NEW t \in Trx, NEW e \in Ender,
         \/ \E kind \in {"commit", "rollback"} : \E x \in Contexts(t) : End(t, e, kind, x)
         \/ CatchRollsBack(t, e)
  PROVE  WritesInv' /\ SettledKept
<1>1. pc[t] = "open" /\ UNCHANGED <<trxVars, pool, stmt>>
  BY DEF End, CatchRollsBack, LeaseInv, ClonesLease
<1>2. Working(t) => Quiet(t)
  BY DEF End, CatchRollsBack, Working, Started
<1>3. ASSUME NEW kind \in {"commit", "rollback"}, NEW x \in Contexts(t) \cup {NoTrx},
             Send(t, e, kind, x)
      PROVE  WritesInv' /\ SettledKept
  BY <1>1, <1>2, <1>3, SendWrites
<1>4. CASE /\ ~isActive[t] /\ UNCHANGED serverVars
           /\ \/ /\ \E kind \in {"commit", "rollback"} :
                      call' = [call EXCEPT ![t][e] =
                                 [@ EXCEPT !.stage = "ignored", !.kind = kind]]
              \/ /\ call[t][e].stage = "rejected"
                 /\ call' = [call EXCEPT ![t][e] = [@ EXCEPT !.kind = "rollback"]]
  <2>1. Started(t)
    BY <1>1, <1>4 DEF WritesInv, Working
  <2>2. /\ call'[t][e].stage \in {"ignored", "rejected"}
        /\ \A u \in Trx \ {t} : call'[u] = call[u]
    <3>1. call \in [Trx -> [Ender -> Call]] /\ call[t][e] \in Call
      BY DEF TypeOK
    <3>2. PICK new \in Call : /\ new.stage \in {"ignored", "rejected"}
                              /\ call' = [call EXCEPT ![t][e] = new]
      <4>1. \A kind \in {"commit", "rollback"} :
              /\ [call[t][e] EXCEPT !.stage = "ignored", !.kind = kind] \in Call
              /\ [call[t][e] EXCEPT !.stage = "ignored", !.kind = kind].stage = "ignored"
        BY <3>1 DEF Call, Stage
      <4>2. /\ [call[t][e] EXCEPT !.kind = "rollback"] \in Call
            /\ [call[t][e] EXCEPT !.kind = "rollback"].stage = call[t][e].stage
        BY <3>1 DEF Call
      <4>3. QED
        BY <1>4, <4>1, <4>2
    <3>3. QED
      BY <3>1, <3>2
  <2>3. Started(t)'
    BY <2>2 DEF Started
  <2>4. UNCHANGED <<pc, isActive, released, sqlConn, pool, stmt, inTx, buf, db>>
    BY <1>1, <1>4 DEF trxVars, serverVars
  <2>5. QED
    BY <2>1, <2>2, <2>3, <2>4, LateStep
<1>5. QED
  <2>1. CASE \E kind \in {"commit", "rollback"} : \E x \in Contexts(t) : End(t, e, kind, x)
    BY <1>3, <1>4, <2>1 DEF End
  <2>2. CASE CatchRollsBack(t, e)
    BY <1>3, <1>4, <2>2 DEF CatchRollsBack
  <2>3. QED
    BY <2>1, <2>2

\* Every step keeps each write with its transaction, and what has been decided.
LEMMA WritesStep ==
  ASSUME ~CrossContext, Awaited, TypeOK, NoQueue, LeaseInv, WritesInv, [Next]_vars
  PROVE  WritesInv' /\ SettledKept
<1>1. CASE \E t \in Trx : GetConnection(t) \/ Begin(t) \/ BeginFails(t)
  BY <1>1, EarlyWrites
<1>2. CASE \/ \E s \in Stmt, t \in Trx : \E x \in Contexts(t) : Issue(s, t, x)
           \/ \E s \in Stmt : Execute(s)
  BY <1>2, StatementWrites
<1>3. CASE \E t \in Trx, e \in Ender :
             \/ \E kind \in {"commit", "rollback"} : \E x \in Contexts(t) : End(t, e, kind, x)
             \/ CatchRollsBack(t, e)
  BY <1>3, EndWrites
<1>4. CASE \E t \in Trx, e \in Ender :
             Release(t, e) \/ Closed(t, e) \/ MarkReleased(t, e) \/ Clear(t, e)
  BY <1>4, LateWrites
<1>5. CASE UNCHANGED vars
  <2>1. WritesInv'
    BY <1>5 DEF vars, WritesInv, Working, Lent, Started
  <2>2. SettledKept
    BY <1>5 DEF vars, SettledKept, Writes
  <2>3. QED
    BY <2>1, <2>2
<1>6. QED
  BY <1>1, <1>2, <1>3, <1>4, <1>5 DEF Next

\* A step that neither moves a call of u nor takes its connection away keeps
\* what its calls answer.
LEMMA AnswerFrame ==
  ASSUME TypeOK, LeaseInv, NEW u \in Trx, AnswerOf(u), SettledKept,
         pc'[u] = pc[u], isActive'[u] = isActive[u], released'[u] = released[u],
         call'[u] = call[u], Lent(u) => Lent(u)'
  PROVE  AnswerOf(u)'
<1>1. \A e \in Ender : Outcome(u, e) /\ call[u][e].stage # "idle" => Outcome(u, e)'
  <2>1. ASSUME NEW e \in Ender, call[u][e].stage # "idle", Outcome(u, e)
        PROVE  Outcome(u, e)'
    <3>1. Writes(u)' = Writes(u) /\ Writes(u)' \cap db' = Writes(u) \cap db
      BY <2>1 DEF SettledKept, Started
    <3>2. QED
      BY <2>1, <3>1 DEF Outcome
  <2>2. QED
    BY <2>1
<1>2. \A e \in Ender : Alone(u, e)' <=> Alone(u, e)
  BY DEF Alone
<1>3. Clears(u) => Clears(u)'
  BY DEF Clears
<1>4. QED
  BY <1>1, <1>2, <1>3 DEF AnswerOf, UnderWay

\* commit() and rollback() of other tasks do not change what a call answers.
LEMMA OutcomeKept ==
  ASSUME SettledKept, NEW t \in Trx, NEW e \in Ender, Started(t),
         call'[t][e].kind = call[t][e].kind, Outcome(t, e)
  PROVE  Outcome(t, e)'
<1>1. Writes(t)' = Writes(t) /\ Writes(t)' \cap db' = Writes(t) \cap db
  BY DEF SettledKept
<1>2. QED
  BY <1>1 DEF Outcome

\* The first command is alone; a second one makes sure that nobody is.
LEMMA AnswerSend ==
  ASSUME ~CrossContext, Awaited, TypeOK, LeaseInv, WritesInv,
         NEW t \in Trx, NEW e \in Ender, NEW kind \in {"commit", "rollback"},
         NEW x \in Contexts(t) \cup {NoTrx}, Send(t, e, kind, x),
         UNCHANGED <<trxVars, pool, stmt>>, pc[t] = "open", isActive[t],
         Working(t) => Quiet(t), call[t][e].stage \in {"idle", "rejected"},
         AnswerOf(t)
  PROVE  AnswerOf(t)'
<1>1. /\ call'[t][e].stage = "sent"
      /\ \A f \in Ender \ {e} : call'[t][f] = call[t][f]
      /\ Working(t) /\ call'[t][e].ok => Outcome(t, e)'
  BY SendWrites
<1>2. UNCHANGED <<pc, isActive, released, sqlConn, pool>>
  BY DEF trxVars
<1>3. \A f \in Ender : Alone(t, f)' => f = e
  BY <1>1 DEF Alone
<1>4. Alone(t, e)' => Working(t)
  <2>1. SUFFICES ASSUME Alone(t, e)', Started(t) PROVE FALSE
    BY DEF Working
  <2>2. Alone(t, e)
    BY <1>1, <2>1 DEF Alone
  <2>3. PICK f \in Ender : call[t][f].stage # "idle"
    BY <2>1 DEF Started
  <2>4. CASE f = e
    BY <2>2, <2>3, <2>4 DEF AnswerOf
  <2>5. CASE f # e
    BY <2>2, <2>3, <2>5 DEF Alone, AnswerOf
  <2>6. QED
    BY <2>4, <2>5
<1>5. Clears(t)'
  <2>1. Clears(t)
    BY DEF AnswerOf
  <2>2. CASE /\ Lent(t) /\ ~released[t]
             /\ \A f \in Ender : call[t][f].stage \in {"idle", "sent"}
    BY <1>1, <1>2, <2>2 DEF Clears, Lent
  <2>3. CASE \E f \in Ender :
               \/ call[t][f].stage \in {"closing", "released"} /\ ~call[t][f].relErr
               \/ call[t][f].stage = "clearing"
    BY <1>1, <2>3 DEF Clears
  <2>4. QED
    BY <2>1, <2>2, <2>3 DEF Clears
<1>6. QED
  BY <1>1, <1>2, <1>3, <1>4, <1>5 DEF AnswerOf, UnderWay

\* A call on an inactive transaction is told that it did nothing.
LEMMA AnswerInactive ==
  ASSUME TypeOK, SettledKept, NEW t \in Trx, NEW e \in Ender, AnswerOf(t),
         pc[t] = "open", ~isActive[t], UNCHANGED trxVars, WritesInv,
         \/ /\ call[t][e].stage = "idle"
            /\ \E kind \in {"commit", "rollback"} :
                 call' = [call EXCEPT ![t][e] = [@ EXCEPT !.stage = "ignored", !.kind = kind]]
         \/ /\ call[t][e].stage = "rejected"
            /\ call' = [call EXCEPT ![t][e] = [@ EXCEPT !.kind = "rollback"]]
  PROVE  AnswerOf(t)'
<1>1. call \in [Trx -> [Ender -> Call]] /\ call[t][e] \in Call
  BY DEF TypeOK
<1>2. PICK new \in Call :
        /\ call' = [call EXCEPT ![t][e] = new]
        /\ \/ call[t][e].stage = "idle" /\ new.stage = "ignored"
           \/ call[t][e].stage = "rejected" /\ new.stage = "rejected"
  <2>1. \A kind \in {"commit", "rollback"} :
          /\ [call[t][e] EXCEPT !.stage = "ignored", !.kind = kind] \in Call
          /\ [call[t][e] EXCEPT !.stage = "ignored", !.kind = kind].stage = "ignored"
    BY <1>1 DEF Call, Stage
  <2>2. /\ [call[t][e] EXCEPT !.kind = "rollback"] \in Call
        /\ [call[t][e] EXCEPT !.kind = "rollback"].stage = call[t][e].stage
    BY <1>1 DEF Call
  <2>3. QED
    BY <2>1, <2>2
<1>3. /\ call'[t][e].stage \in {"ignored", "rejected"}
      /\ call'[t][e].stage = "rejected" => call[t][e].stage = "rejected"
      /\ call[t][e].stage = "idle" => call'[t][e].stage = "ignored"
      /\ \A f \in Ender \ {e} : call'[t][f] = call[t][f]
      /\ ~isActive'[t]
  BY <1>1, <1>2 DEF trxVars
<1>4. \A f \in Ender : Alone(t, f)' => Alone(t, f)
  BY <1>2, <1>3 DEF Alone
<1>5. Started(t)
  BY DEF WritesInv, Working
<1>6. \A f \in Ender \ {e} : Outcome(t, f) => Outcome(t, f)'
  BY <1>3, <1>5, OutcomeKept
<1>7. QED
  BY <1>3, <1>4, <1>6 DEF AnswerOf, UnderWay

\* What the call that gives the connection back still has to do.
LEMMA AnswerClears ==
  ASSUME ~ReleaseMayFail, TypeOK, LeaseInv, NEW t \in Trx, NEW e \in Ender,
         Release(t, e) \/ Closed(t, e) \/ MarkReleased(t, e),
         Clears(t)
  PROVE  Clears(t)'
<1>1. /\ call \in [Trx -> [Ender -> Call]] /\ call[t][e] \in Call
      /\ \A f \in Ender \ {e} : call'[t][f] = call[t][f]
  BY LateMoves DEF TypeOK
<1>2. CASE \E f \in Ender \ {e} :
             \/ call[t][f].stage \in {"closing", "released"} /\ ~call[t][f].relErr
             \/ call[t][f].stage = "clearing"
  BY <1>1, <1>2 DEF Clears
<1>3. CASE \A f \in Ender \ {e} :
             /\ call[t][f].stage \in {"closing", "released"} => call[t][f].relErr
             /\ call[t][f].stage # "clearing"
  <2>1. CASE Release(t, e)
    <3>1. Lent(t) /\ call[t][e].stage = "sent" /\ ~released[t]
      BY <1>3, <2>1 DEF Clears, Release
    <3>2. ~HandleClosed(t) /\ sqlConn[t] # NoConn /\ pool.holder[sqlConn[t]] # NoTrx
      BY <3>1, NoneAssumption DEF HandleClosed, Lent
    <3>3. PICK stage \in {"closing", "released"} :
            call' = [call EXCEPT ![t][e] =
                       [@ EXCEPT !.stage = stage, !.relErr = FALSE]]
      BY <2>1, <3>1, <3>2 DEF Release
    <3> DEFINE n == [call[t][e] EXCEPT !.stage = stage, !.relErr = FALSE]
    <3>4. n.stage = stage /\ n.relErr = FALSE
      BY <1>1 DEF Call
    <3>5. call'[t][e] = n
      BY <1>1, <3>3
    <3> HIDE DEF n
    <3>6. QED
      BY <3>4, <3>5 DEF Clears
  <2>2. CASE Closed(t, e) \/ MarkReleased(t, e)
    <3>1. call[t][e].stage \in {"closing", "released"} /\ ~call[t][e].relErr
      BY <1>3, <2>2 DEF Clears, Closed, MarkReleased
    <3>2. PICK stage \in {"released", "clearing"} :
            call' = [call EXCEPT ![t][e] = [@ EXCEPT !.stage = stage]]
      BY <2>2, <3>1 DEF Closed, MarkReleased
    <3> DEFINE n == [call[t][e] EXCEPT !.stage = stage]
    <3>3. n.stage = stage /\ n.relErr = call[t][e].relErr
      BY <1>1 DEF Call
    <3>4. call'[t][e] = n
      BY <1>1, <3>2
    <3> HIDE DEF n
    <3>5. QED
      BY <3>1, <3>3, <3>4 DEF Clears
  <2>3. QED
    BY <2>1, <2>2
<1>4. QED
  BY <1>2, <1>3

\* Giving the connection back and settling keep what the call answers.
LEMMA AnswerLate ==
  ASSUME ~ReleaseMayFail, TypeOK, LeaseInv, SettledKept, NEW t \in Trx, NEW e \in Ender,
         Release(t, e) \/ Closed(t, e) \/ MarkReleased(t, e) \/ Clear(t, e),
         AnswerOf(t)
  PROVE  AnswerOf(t)'
<1>1. /\ pc[t] = "open" /\ Started(t)
      /\ call'[t][e].stage \in {"closing", "released", "clearing", "resolved", "rejected"}
      /\ call'[t][e].ok = call[t][e].ok /\ call'[t][e].kind = call[t][e].kind
      /\ \A f \in Ender \ {e} : call'[t][f] = call[t][f]
  BY LateMoves
<1>2. /\ call \in [Trx -> [Ender -> Call]] /\ call[t][e] \in Call
      /\ isActive \in [Trx -> BOOLEAN]
      /\ call[t][e].stage \in UnderWay
  <2>1. call \in [Trx -> [Ender -> Call]] /\ isActive \in [Trx -> BOOLEAN]
    BY DEF TypeOK
  <2>2. call[t][e].stage \in UnderWay
    BY DEF UnderWay, Release, Closed, MarkReleased, Clear
  <2>3. QED
    BY <2>1, <2>2
<1>3. /\ \A f \in Ender : Alone(t, f)' => f = e
      /\ Alone(t, e)' <=> Alone(t, e)
  BY <1>1 DEF Alone
<1>4. Outcome(t, e) => Outcome(t, e)'
  BY <1>1, OutcomeKept
<1>5. Alone(t, e) /\ call[t][e].ok => Outcome(t, e)
  BY <1>2 DEF AnswerOf
<1>6. ASSUME Release(t, e) \/ Closed(t, e) \/ MarkReleased(t, e)
      PROVE  AnswerOf(t)'
  <2>1. /\ isActive' = isActive /\ pc' = pc
        /\ call'[t][e].stage \notin {"resolved", "ignored"}
    <3>1. CASE Release(t, e)
      <4>1. PICK stage \in {"closing", "released", "clearing"}, relErr \in BOOLEAN :
              call' = [call EXCEPT ![t][e] = [@ EXCEPT !.stage = stage, !.relErr = relErr]]
        BY <3>1 DEF Release
      <4>2. [call[t][e] EXCEPT !.stage = stage, !.relErr = relErr].stage = stage
        BY <1>2 DEF Call
      <4>3. QED
        BY <1>2, <3>1, <4>1, <4>2 DEF Release
    <3>2. CASE Closed(t, e) \/ MarkReleased(t, e)
      <4>1. PICK stage \in {"released", "clearing", "rejected"} :
              call' = [call EXCEPT ![t][e] = [@ EXCEPT !.stage = stage]]
        BY <3>2 DEF Closed, MarkReleased
      <4>2. [call[t][e] EXCEPT !.stage = stage].stage = stage
        BY <1>2 DEF Call
      <4>3. QED
        BY <1>2, <3>2, <4>1, <4>2 DEF Closed, MarkReleased
    <3>3. QED
      BY <1>6, <3>1, <3>2
  <2>2. isActive[t] => Clears(t) /\ Clears(t)'
    BY <1>1, <1>6, AnswerClears DEF AnswerOf
  <2>3. Alone(t, e) => call'[t][e].stage # "rejected"
    <3>1. SUFFICES ASSUME Alone(t, e), call'[t][e].stage = "rejected" PROVE FALSE
      OBVIOUS
    <3>2. isActive[t]
      BY <1>2, <3>1 DEF AnswerOf
    <3>3. Clears(t)'
      BY <2>2, <3>2
    <3>4. \A f \in Ender \ {e} : call'[t][f].stage \in {"idle", "ignored"}
      BY <1>1, <3>1 DEF Alone
    <3>5. QED
      BY <3>1, <3>3, <3>4 DEF Clears
  <2>4. Alone(t, e) => isActive[t]
    BY <1>2 DEF AnswerOf
  <2>5. QED
    BY <1>1, <1>3, <1>4, <1>5, <2>1, <2>2, <2>3, <2>4 DEF AnswerOf, UnderWay
<1>7. CASE Clear(t, e)
  <2>1. ~isActive'[t]
    BY <1>2, <1>7 DEF Clear
  <2>2. /\ call'[t][e].stage \in {"resolved", "rejected"}
        /\ call'[t][e].stage = "resolved" => call'[t][e].ok
    <3> DEFINE stage == IF call[t][e].ok THEN "resolved" ELSE "rejected"
               n == [call[t][e] EXCEPT !.stage = stage]
    <3>1. call'[t][e] = n
      BY <1>2, <1>7 DEF Clear
    <3>2. n.stage = stage /\ n.ok = call[t][e].ok
      BY <1>2 DEF Call
    <3>3. stage \in {"resolved", "rejected"} /\ (stage = "resolved" => call[t][e].ok)
      OBVIOUS
    <3> HIDE DEF n, stage
    <3>4. QED
      BY <3>1, <3>2, <3>3
  <2>3. QED
    BY <1>1, <1>3, <1>4, <1>5, <2>1, <2>2 DEF AnswerOf, UnderWay
<1>8. QED
  BY <1>6, <1>7

\* Every step keeps what the calls answer.
LEMMA AnswerStep ==
  ASSUME ~CrossContext, Awaited, ~ReleaseMayFail, TypeOK, NoQueue, LeaseInv, LeaseInv',
         WritesInv, AnswerInv, [Next]_vars
  PROVE  AnswerInv'
<1>1. WritesInv' /\ SettledKept
  BY WritesStep
<1>2. SUFFICES ASSUME NEW u \in Trx PROVE AnswerOf(u)'
  BY DEF AnswerInv
<1>3. AnswerOf(u)
  BY DEF AnswerInv
<1>4. CASE \E t \in Trx : GetConnection(t) \/ Begin(t) \/ BeginFails(t)
  <2>1. PICK t \in Trx : GetConnection(t) \/ Begin(t) \/ BeginFails(t)
    BY <1>4
  <2>2. /\ pc[t] # "open" /\ UNCHANGED <<call, released>>
        /\ \A v \in Trx \ {t} : /\ pc'[v] = pc[v] /\ isActive'[v] = isActive[v]
                                /\ sqlConn'[v] = sqlConn[v]
    BY <2>1 DEF GetConnection, Begin, BeginFails, TypeOK
  <2>3. CASE u = t
    <3>1. ~released[t] /\ \A e \in Ender : call[t][e].stage = "idle"
      BY <2>2 DEF LeaseInv, ClonesLease
    <3>2. pc'[t] = "open" => Lent(t)'
      <4>1. CASE GetConnection(t)
        BY <4>1 DEF GetConnection, TypeOK
      <4>2. CASE BeginFails(t)
        BY <4>2 DEF BeginFails, TypeOK
      <4>3. CASE Begin(t)
        BY <4>3 DEF Begin, TypeOK, LeaseInv, ClonesLease, Lent
      <4>4. QED
        BY <2>1, <4>1, <4>2, <4>3
    <3>3. QED
      BY <2>2, <2>3, <3>1, <3>2 DEF AnswerOf, Clears, UnderWay
  <2>4. CASE u # t
    <3>1. Lent(u) => Lent(u)'
      <4>1. \A d \in Conn : pool.holder[d] # NoTrx => pool'.holder[d] = pool.holder[d]
        BY <2>1, LendsIdle DEF Begin, BeginFails
      <4>2. sqlConn[u] # NoConn => sqlConn[u] \in Conn
        BY DEF TypeOK
      <4>3. QED
        BY <2>2, <2>4, <4>1, <4>2, NoneAssumption DEF Lent
    <3>2. QED
      BY <1>1, <1>3, <2>2, <2>4, <3>1, AnswerFrame
  <2>5. QED
    BY <2>3, <2>4
<1>5. CASE \/ \E s \in Stmt, t \in Trx : \E x \in Contexts(t) : Issue(s, t, x)
           \/ \E s \in Stmt : Execute(s)
  <2>1. UNCHANGED <<pc, isActive, released, sqlConn, call, pool>>
    BY <1>5 DEF Issue, Execute, trxVars
  <2>2. QED
    BY <1>1, <1>3, <2>1, AnswerFrame DEF Lent
<1>6. CASE \E t \in Trx, e \in Ender :
             \/ \E kind \in {"commit", "rollback"} : \E x \in Contexts(t) : End(t, e, kind, x)
             \/ CatchRollsBack(t, e)
  <2>1. PICK t \in Trx, e \in Ender :
          \/ \E kind \in {"commit", "rollback"} : \E x \in Contexts(t) : End(t, e, kind, x)
          \/ CatchRollsBack(t, e)
    BY <1>6
  <2>2. /\ UNCHANGED <<trxVars, pool, stmt>> /\ pc[t] = "open"
        /\ call[t][e].stage \in {"idle", "rejected"}
        /\ Working(t) => Quiet(t)
    BY <2>1 DEF End, CatchRollsBack, LeaseInv, ClonesLease, Working, Started
  <2>3. \/ \E kind \in {"commit", "rollback"} : \E x \in Contexts(t) \cup {NoTrx} :
             isActive[t] /\ Send(t, e, kind, x)
        \/ /\ ~isActive[t]
           /\ \/ /\ call[t][e].stage = "idle"
                 /\ \E kind \in {"commit", "rollback"} :
                      call' = [call EXCEPT ![t][e] =
                                 [@ EXCEPT !.stage = "ignored", !.kind = kind]]
              \/ /\ call[t][e].stage = "rejected"
                 /\ call' = [call EXCEPT ![t][e] = [@ EXCEPT !.kind = "rollback"]]
    BY <2>1 DEF End, CatchRollsBack
  <2>4. CASE u = t
    BY <1>1, <1>3, <2>2, <2>3, <2>4, AnswerSend, AnswerInactive
  <2>5. CASE u # t
    <3>1. call'[u] = call[u]
      BY <2>3, <2>5, SendStage DEF TypeOK
    <3>2. UNCHANGED <<pc, isActive, released, sqlConn, pool>>
      BY <2>2 DEF trxVars
    <3>3. QED
      BY <1>1, <1>3, <3>1, <3>2, AnswerFrame DEF Lent
  <2>6. QED
    BY <2>4, <2>5
<1>7. CASE \E t \in Trx, e \in Ender :
             Release(t, e) \/ Closed(t, e) \/ MarkReleased(t, e) \/ Clear(t, e)
  <2>1. PICK t \in Trx, e \in Ender :
          Release(t, e) \/ Closed(t, e) \/ MarkReleased(t, e) \/ Clear(t, e)
    BY <1>7
  <2>2. CASE u = t
    BY <1>1, <1>3, <2>1, <2>2, AnswerLate
  <2>3. CASE u # t
    <3>1. /\ pc' = pc /\ call'[u] = call[u] /\ isActive'[u] = isActive[u]
          /\ sqlConn'[u] = sqlConn[u] /\ released'[u] = released[u]
      BY <2>1, <2>3, LateMoves
    <3>2. Lent(u) => Lent(u)'
      <4>1. CASE Release(t, e)
        <5>1. sqlConn[u] # NoConn => sqlConn[u] \in Conn
          BY DEF TypeOK
        <5>2. \A d \in Conn : pool.holder[d] = u => pool'.holder[d] = u
          BY <2>3, <4>1, ReleaseOwn
        <5>3. QED
          BY <3>1, <5>1, <5>2 DEF Lent
      <4>2. CASE Closed(t, e) \/ MarkReleased(t, e) \/ Clear(t, e)
        BY <3>1, <4>2 DEF Closed, MarkReleased, Clear, Lent
      <4>3. QED
        BY <2>1, <4>1, <4>2
    <3>3. QED
      BY <1>1, <1>3, <3>1, <3>2, AnswerFrame
  <2>4. QED
    BY <2>2, <2>3
<1>8. CASE UNCHANGED vars
  <2>1. UNCHANGED <<pc, isActive, released, sqlConn, call, pool>>
    BY <1>8 DEF vars
  <2>2. QED
    BY <1>1, <1>3, <2>1, AnswerFrame DEF Lent
<1>9. QED
  BY <1>4, <1>5, <1>6, <1>7, <1>8 DEF Next

\* Every write is with its transaction: not sent, in its session, or decided.
THEOREM WritesInvariant ==
  ASSUME ~CrossContext, Awaited
  PROVE  Spec /\ []NoQueue => []WritesInv
<1>1. Init => WritesInv
  BY DEF Init, WritesInv, Working
<1>2. TypeOK /\ NoQueue /\ LeaseInv /\ WritesInv /\ [Next]_vars => WritesInv'
  BY WritesStep
<1>3. QED
  BY <1>1, <1>2, TypeCorrect, LeaseInvariant, PTL DEF Spec

\* Where nobody queues and the application awaits its statements and keeps each
\* transaction to its own callback, no statement of a transaction is executed
\* outside of it, however its commit() and rollback() calls race.
THEOREM EveryWriteInside ==
  ASSUME ~CrossContext, Awaited
  PROVE  Spec /\ []NoQueue => []InsideTransaction
<1>1. WritesInv => InsideTransaction
  BY DEF WritesInv, InsideTransaction
<1>2. QED
  BY <1>1, WritesInvariant, PTL

\* Under the same conditions an ended transaction's writes are in the database
\* for good or never: neither a late commit() or rollback() on it nor the next
\* user of its connection changes what it left.
THEOREM DecidedForGood ==
  ASSUME ~CrossContext, Awaited
  PROVE  Spec /\ []NoQueue => OutcomeIsFinal
<1>1. TypeOK /\ NoQueue /\ LeaseInv /\ WritesInv /\ [Next]_vars
        => [\A t \in Trx : released[t] => Writes(t)' \cap db' = Writes(t) \cap db]_vars
  <2>1. SUFFICES ASSUME TypeOK, NoQueue, LeaseInv, WritesInv, [Next]_vars, NEW t \in Trx,
                        released[t]
                 PROVE  Writes(t)' \cap db' = Writes(t) \cap db
    OBVIOUS
  <2>2. SettledKept /\ Started(t)
    BY <2>1, WritesStep DEF WritesInv
  <2>3. QED
    BY <2>2 DEF SettledKept
<1>2. QED
  BY <1>1, TypeCorrect, LeaseInvariant, WritesInvariant, PTL DEF Spec, OutcomeIsFinal

\* If giving a connection back never reports an error either, what commit() and
\* rollback() answer is what happened, and who has an answer finds the
\* transaction inactive.
THEOREM AnswersAreTrue ==
  ASSUME ~CrossContext, Awaited, ~ReleaseMayFail
  PROVE  Spec /\ []NoQueue => []AnswerIsTrue
<1>1. Init => AnswerInv
  BY DEF Init, AnswerInv, AnswerOf, NoCall, UnderWay
<1>2. TypeOK /\ NoQueue /\ LeaseInv /\ LeaseInv' /\ WritesInv /\ AnswerInv /\ [Next]_vars
        => AnswerInv'
  BY AnswerStep
<1>3. LeaseInv /\ AnswerInv => AnswerIsTrue
  <2>1. SUFFICES ASSUME LeaseInv, AnswerInv, NEW t \in Trx
                 PROVE  /\ \A e \in Ender :
                             call[t][e].stage = "resolved" /\ Alone(t, e) => Outcome(t, e)
                        /\ /\ \A e \in Ender : call[t][e].stage \in
                                {"idle", "resolved", "rejected", "ignored"}
                           /\ \E e \in Ender : call[t][e].stage \in {"resolved", "rejected"}
                           => ~isActive[t]
    BY DEF AnswerIsTrue, Alone, Outcome
  <2>2. AnswerOf(t)
    BY <2>1 DEF AnswerInv
  <2>3. \A e \in Ender : call[t][e].stage = "resolved" /\ Alone(t, e) => Outcome(t, e)
    BY <2>2 DEF AnswerOf
  <2>4. (\E e \in Ender : call[t][e].stage \in {"resolved", "rejected"}) => pc[t] = "open"
    BY <2>1 DEF LeaseInv, ClonesLease
  <2>5. QED
    BY <2>2, <2>3, <2>4 DEF AnswerOf, Clears
<1>4. QED
  BY <1>1, <1>2, <1>3, TypeCorrect, LeaseInvariant, WritesInvariant, PTL DEF Spec
=============================================================================
