------------------------- MODULE ConnectionLifecycle -------------------------
(***************************************************************************)
(* The pools of a SqlDataSource and its replicas: connect(), the lazy      *)
(* ensureConnected() that every statement awaits, and disconnect().        *)
(* createSqlPool() and end() of a pool are awaited, so any number of these *)
(* calls interleave.                                                       *)
(*                                                                         *)
(* A pool is named after the call that created it: <<c, Master>> for the   *)
(* data source itself, <<c, r>> for its replica r.                         *)
(***************************************************************************)
EXTENDS FiniteSets

CONSTANTS
  Caller,    \* tasks that connect the data source once
  Direct,    \* those that call connect(); the others call ensureConnected()
  Closer,    \* tasks that call disconnect() once
  Replica,   \* the configured replicas
  Master,    \* stands for the data source itself
  MayFail,   \* createSqlPool(), end() and the cache adapter may reject
  Overlap,   \* connect() and disconnect() do not wait for what is under way
  None

ASSUME LifecycleAssumption ==
  /\ Direct \subseteq Caller
  /\ None \notin Caller
  /\ Master \notin Replica
  /\ {MayFail, Overlap} \subseteq BOOLEAN

Pool == Caller \X (Replica \cup {Master})

ASSUME NoPoolAssumption == None \notin Pool

VARIABLES
  pool,        \* sqlPool of the data source
  spool,       \* sqlPool of each replica
  connecting,  \* the connect() call whose promise ensureConnected() shares
  attempt,     \* where the connect() call of each task stands
  pending,     \* the replicas each connect() call waits for
  call,        \* the task's own call, and the connect() call it awaits
  close,       \* the disconnect() call of each task
  todo,        \* the replicas each disconnect() call has yet to close
  ending,      \* the pool whose end() each disconnect() call awaits
  live,        \* the pools that are open
  lost         \* open pools given up: by a failed connect(), or end() rejected

callVars == <<connecting, attempt, pending, call>>
closeVars == <<close, todo, ending>>
vars == <<pool, spool, connecting, attempt, pending, call, close, todo, ending, live, lost>>

Init ==
  /\ pool = None
  /\ spool = [r \in Replica |-> None]
  /\ connecting = None
  /\ attempt = [c \in Caller |-> "none"]
  /\ pending = [c \in Caller |-> {}]
  /\ call = [c \in Caller |-> [stage |-> "idle", on |-> None]]
  /\ close = [d \in Closer |-> "idle"]
  /\ todo = [d \in Closer |-> {}]
  /\ ending = [d \in Closer |-> None]
  /\ live = {}
  /\ lost = {}

-----------------------------------------------------------------------------
IsConnected == pool # None

InFlight(c) == attempt[c] \in {"master", "slaves"}

Closing(d) == close[d] \in {"cache", "slaves", "pool"}

\* Nothing is under way.
Quiet == (\A c \in Caller : ~InFlight(c)) /\ (\A d \in Closer : ~Closing(d))

Settles(c, stage, on) == call' = [call EXCEPT ![c] = [stage |-> stage, on |-> on]]

\* connect() starts to create the pool of the data source.
Starts(c) ==
  /\ attempt' = [attempt EXCEPT ![c] = "master"]
  /\ Settles(c, "waiting", c)
  /\ UNCHANGED pending

\* Mutant: isConnected is not looked at.
ConnectAnyway(c) ==
  /\ c \in Direct
  /\ call[c].stage = "idle"
  /\ Overlap \/ Quiet
  /\ Starts(c)
  /\ UNCHANGED <<pool, spool, connecting, closeVars, live, lost>>

\* connect() called by the application.
Connect(c) ==
  /\ c \in Direct
  /\ call[c].stage = "idle"
  /\ Overlap \/ Quiet
  /\ \/ /\ IsConnected
        /\ Settles(c, "refused", None)
        /\ UNCHANGED <<attempt, pending>>
     \/ /\ ~IsConnected
        /\ Starts(c)
  /\ UNCHANGED <<pool, spool, connecting, closeVars, live, lost>>

\* Mutant: every lazy caller connects on its own.
EnsureAlone(c) ==
  /\ c \notin Direct
  /\ call[c].stage = "idle"
  /\ Overlap \/ \A b \in Direct : ~InFlight(b)
  /\ \/ /\ IsConnected
        /\ Settles(c, "ready", None)
        /\ UNCHANGED <<connecting, attempt, pending>>
     \/ /\ ~IsConnected
        /\ Starts(c)
        /\ connecting' = c
  /\ UNCHANGED <<pool, spool, closeVars, live, lost>>

\* ensureConnected() with lazyLoad: connected already, or share the promise of
\* the connect() call under way, or become it.
Ensure(c) ==
  /\ c \notin Direct
  /\ call[c].stage = "idle"
  /\ Overlap \/ \A b \in Direct : ~InFlight(b)
  /\ \/ /\ IsConnected
        /\ Settles(c, "ready", None)
        /\ UNCHANGED <<connecting, attempt, pending>>
     \/ /\ ~IsConnected
        /\ connecting # None
        /\ Settles(c, "waiting", connecting)
        /\ UNCHANGED <<connecting, attempt, pending>>
     \/ /\ ~IsConnected
        /\ connecting = None
        /\ Starts(c)
        /\ connecting' = c
  /\ UNCHANGED <<pool, spool, closeVars, live, lost>>

-----------------------------------------------------------------------------
\* createSqlPool() of the data source resolved; the replicas' ones start.
MasterUp(c) ==
  /\ attempt[c] = "master"
  /\ pool' = <<c, Master>>
  /\ live' = live \cup {<<c, Master>>}
  /\ pending' = [pending EXCEPT ![c] = Replica]
  /\ attempt' = [attempt EXCEPT ![c] = IF Replica = {} THEN "connected" ELSE "slaves"]
  /\ UNCHANGED <<spool, connecting, call, closeVars, lost>>

\* createSqlPool() of a replica resolved, though connect() may have failed with
\* another replica by now.
ReplicaUp(c, r) ==
  /\ r \in pending[c]
  /\ spool' = [spool EXCEPT ![r] = <<c, r>>]
  /\ live' = live \cup {<<c, r>>}
  /\ pending' = [pending EXCEPT ![c] = @ \ {r}]
  /\ attempt' = [attempt EXCEPT ![c] =
                   IF @ = "slaves" /\ pending[c] = {r} THEN "connected" ELSE @]
  /\ UNCHANGED <<pool, connecting, call, closeVars, lost>>

\* The catch block: forget every pool, close none.
Cleanup(c) ==
  /\ attempt' = [attempt EXCEPT ![c] = "failed"]
  /\ pool' = None
  /\ spool' = [r \in Replica |-> None]
  /\ lost' = lost \cup (live \cap ({pool} \cup {spool[r] : r \in Replica}))

MasterFails(c) ==
  /\ MayFail
  /\ attempt[c] = "master"
  /\ Cleanup(c)
  /\ UNCHANGED <<connecting, pending, call, closeVars, live>>

\* The first replica that fails makes connect() fail; the others go on.
ReplicaFails(c, r) ==
  /\ MayFail
  /\ r \in pending[c]
  /\ pending' = [pending EXCEPT ![c] = @ \ {r}]
  /\ IF attempt[c] = "slaves"
       THEN Cleanup(c)
       ELSE UNCHANGED <<attempt, pool, spool, lost>>
  /\ UNCHANGED <<connecting, call, closeVars, live>>

\* Mutant: the promise of a failed connect() is kept.
ForgetOnSuccess ==
  /\ connecting # None
  /\ attempt[connecting] = "connected"
  /\ connecting' = None
  /\ UNCHANGED <<pool, spool, attempt, pending, call, closeVars, live, lost>>

\* The finally() of the shared promise.
Forget ==
  /\ connecting # None
  /\ ~InFlight(connecting)
  /\ connecting' = None
  /\ UNCHANGED <<pool, spool, attempt, pending, call, closeVars, live, lost>>

\* Whoever awaits the connect() call settles with it, after that finally().
Resume(c) ==
  LET a == call[c].on IN
  /\ call[c].stage = "waiting"
  /\ ~InFlight(a)
  /\ connecting # a
  /\ Settles(c, IF attempt[a] = "connected" THEN "ready" ELSE "failed", a)
  /\ UNCHANGED <<pool, spool, connecting, attempt, pending, closeVars, live, lost>>

-----------------------------------------------------------------------------
GoesOn(d, stage) == close' = [close EXCEPT ![d] = stage]

\* disconnect(): nothing to do, or first the cache adapter is disconnected.
Disconnect(d) ==
  /\ close[d] = "idle"
  /\ Overlap \/ Quiet
  /\ GoesOn(d, IF IsConnected THEN "cache" ELSE "nothing")
  /\ UNCHANGED <<pool, spool, callVars, todo, ending, live, lost>>

\* The replicas that are connected now are disconnected, all at once.
CacheClosed(d) ==
  /\ close[d] = "cache"
  /\ GoesOn(d, "slaves")
  /\ todo' = [todo EXCEPT ![d] = {r \in Replica : spool[r] # None}]
  /\ UNCHANGED <<pool, spool, callVars, ending, live, lost>>

CacheFails(d) ==
  /\ MayFail
  /\ close[d] = "cache"
  /\ GoesOn(d, "rejected")
  /\ UNCHANGED <<pool, spool, callVars, todo, ending, live, lost>>

\* disconnect() of one replica; its end() in flight is not a step of its own.
ReplicaClosed(d, r) ==
  /\ r \in todo[d]
  /\ spool[r] \in live
  /\ todo' = [todo EXCEPT ![d] = @ \ {r}]
  /\ live' = live \ {spool[r]}
  /\ spool' = [spool EXCEPT ![r] = None]
  /\ UNCHANGED <<pool, callVars, close, ending, lost>>

\* Errors of a replica are logged, and its pool stays where it is.
ReplicaCloseFails(d, r) ==
  /\ MayFail \/ spool[r] \notin live
  /\ r \in todo[d]
  /\ todo' = [todo EXCEPT ![d] = @ \ {r}]
  /\ lost' = lost \cup (live \cap {spool[r]})
  /\ UNCHANGED <<pool, spool, callVars, close, ending, live>>

\* end() is called on the pool, unless there is none or it is being ended.
Ends(d) ==
  IF pool = None \/ \E e \in Closer \ {d} : close[e] = "pool" /\ ending[e] = pool
    THEN GoesOn(d, "rejected") /\ UNCHANGED ending
    ELSE GoesOn(d, "pool") /\ ending' = [ending EXCEPT ![d] = pool]

\* Mutant: the replicas are not waited for.
EndPoolEarly(d) ==
  /\ close[d] = "slaves"
  /\ Ends(d)
  /\ UNCHANGED <<pool, spool, callVars, todo, live, lost>>

\* end() of the data source's pool: a TypeError without one, rejected if it was
\* called before.
EndPool(d) ==
  /\ close[d] = "slaves"
  /\ todo[d] = {}
  /\ Ends(d)
  /\ UNCHANGED <<pool, spool, callVars, todo, live, lost>>

\* Mutant: sqlPool is not cleared.
KeepsEndedPool(d) ==
  /\ close[d] = "pool"
  /\ GoesOn(d, "done")
  /\ live' = live \ {ending[d]}
  /\ UNCHANGED <<pool, spool, callVars, todo, ending, lost>>

PoolEnded(d) ==
  /\ close[d] = "pool"
  /\ GoesOn(d, "done")
  /\ live' = live \ {ending[d]}
  /\ pool' = None
  /\ UNCHANGED <<spool, callVars, todo, ending, lost>>

\* oracledb refuses to close a pool that is in use; sqlPool stays.
PoolEndFails(d) ==
  /\ MayFail
  /\ close[d] = "pool"
  /\ GoesOn(d, "rejected")
  /\ UNCHANGED <<pool, spool, callVars, todo, ending, live, lost>>

-----------------------------------------------------------------------------
Next ==
  \/ \E c \in Caller :
       \/ Connect(c) \/ Ensure(c) \/ MasterUp(c) \/ MasterFails(c) \/ Resume(c)
       \/ \E r \in Replica : ReplicaUp(c, r) \/ ReplicaFails(c, r)
  \/ Forget
  \/ \E d \in Closer :
       \/ Disconnect(d) \/ CacheClosed(d) \/ CacheFails(d)
       \/ EndPool(d) \/ PoolEnded(d) \/ PoolEndFails(d)
       \/ \E r \in Replica : ReplicaClosed(d, r) \/ ReplicaCloseFails(d, r)

Spec == Init /\ [][Next]_vars

\* Drivers answer, and continuations run.
FairSpec ==
  /\ Spec
  /\ \A c \in Caller :
       /\ WF_vars(MasterUp(c) \/ MasterFails(c))
       /\ WF_vars(\E r \in Replica : ReplicaUp(c, r) \/ ReplicaFails(c, r))
       /\ WF_vars(Resume(c))
  /\ WF_vars(Forget)

-----------------------------------------------------------------------------
(* Properties.                                                             *)

\* The shape of every variable; the promise is that of a lazy connect().
TypeOK ==
  /\ pool \in (Caller \X {Master}) \cup {None}
  /\ spool \in [Replica -> Pool \cup {None}]
  /\ \A r \in Replica : spool[r] \in (Caller \X {r}) \cup {None}
  /\ connecting \in (Caller \ Direct) \cup {None}
  /\ attempt \in [Caller -> {"none", "master", "slaves", "connected", "failed"}]
  /\ pending \in [Caller -> SUBSET Replica]
  /\ call \in [Caller -> [stage : {"idle", "refused", "waiting", "ready", "failed"},
                          on : Caller \cup {None}]]
  /\ close \in [Closer -> {"idle", "nothing", "cache", "slaves", "pool", "done", "rejected"}]
  /\ todo \in [Closer -> SUBSET Replica]
  /\ ending \in [Closer -> (Caller \X {Master}) \cup {None}]
  /\ live \subseteq Pool
  /\ lost \subseteq Pool

\* However many statements find the data source unconnected at once, one
\* connect() call runs at a time.
SingleAttempt == \A b, c \in Caller : InFlight(b) /\ InFlight(c) => b = c

\* No pool is overwritten: an open one can still be reached and closed, but for
\* those a failed connect() or a rejected end() gave up.
PoolsAccounted == live \subseteq {pool} \cup {spool[r] : r \in Replica} \cup lost

\* "a future connect()/ensureConnected() call can retry from a clean slate":
\* an unconnected data source has no replica connected.
CleanSlate ==
  Quiet /\ ~IsConnected => \A r \in Replica : spool[r] = None \/ spool[r] \in lost

\* The data source never refers to a pool that was ended.
NoDeadPool ==
  /\ pool # None => pool \in live
  /\ \A r \in Replica : spool[r] # None => spool[r] \in live

\* A connect() call that ensureConnected() shares is shared until it settles and
\* no longer, so the next statement can try again.
Retriable == \A c \in Caller : connecting = c ~> connecting # c

-----------------------------------------------------------------------------
(* The inductive invariants behind them, for calls that do not overlap a   *)
(* disconnect() and at most one replica.                                   *)

\* Who connects is alone, and disconnect() is alone with a connected source.
OneAtATime ==
  /\ \A c \in Caller : InFlight(c) => c \in Direct \/ connecting = c
  /\ \A b \in Direct, c \in Caller : InFlight(b) /\ InFlight(c) => b = c
  /\ \A d \in Closer : Closing(d) =>
       /\ pool # None
       /\ \A c \in Caller : ~InFlight(c)
       /\ \A e \in Closer : Closing(e) => e = d
       /\ close[d] = "pool" => ending[d] = pool

\* connect() and disconnect() exclude each other and leave no dead reference.
LifecycleInv == OneAtATime /\ NoDeadPool

\* Replica r can be connected without an open pool being forgotten.
Free(r) == spool[r] = None \/ spool[r] \in lost

\* With one replica nothing arrives late, and every connect() finds no pool.
NothingLate ==
  /\ \A c \in Caller :
       /\ pending[c] # {} => attempt[c] = "slaves"
       /\ attempt[c] = "master" => pool = None
       /\ attempt[c] = "slaves" => pool # None
       /\ \A r \in pending[c] : Free(r)
  /\ pool = None => \A r \in Replica : Free(r)
  /\ \A d \in Closer :
       /\ close[d] = "slaves" => \A r \in Replica \ todo[d] : Free(r)
       /\ close[d] = "pool" => \A r \in Replica : Free(r)
       /\ todo[d] # {} => close[d] = "slaves"

\* Every pool that connect() opened is accounted for, and none arrives late.
AccountInv == NothingLate /\ PoolsAccounted
=============================================================================
