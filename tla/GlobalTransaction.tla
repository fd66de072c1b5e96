-------------------------- MODULE GlobalTransaction --------------------------
(***************************************************************************)
(* The global transaction of a SqlDataSource: startGlobalTransaction()     *)
(* serialized by a lock, commitGlobalTransaction() and                     *)
(* rollbackGlobalTransaction() that take no lock, ends of the Transaction  *)
(* object itself, and disconnect(), which rolls the global transaction     *)
(* back and closes the pool once every connection is back in it.           *)
(*                                                                         *)
(* Each call of startGlobalTransaction() makes at most one Transaction,    *)
(* which is named after the calling task.                                  *)
(***************************************************************************)
EXTENDS FiniteSets

CONSTANTS
  Starter,       \* tasks that call startGlobalTransaction() once
  Ender,         \* tasks that commit or roll back the global transaction once
  BeginMayFail,  \* getting the connection or BEGIN may be rejected
  Overlap,       \* ends and disconnect() do not wait for each other nor for starts
  None

ASSUME NoStarterAssumption == None \notin Starter
ASSUME GlobalFlagAssumption == {BeginMayFail, Overlap} \subseteq BOOLEAN

VARIABLES
  start,     \* the startGlobalTransaction() call of each task
  lock,      \* globalTransactionLock: whose start is in flight
  gt,        \* globalTransaction
  active,    \* isActive of each task's Transaction
  leased,    \* the Transactions whose connection is not back in the pool
  end,       \* the commit/rollback call of each task, and on which Transaction
  closing,   \* the disconnect() call
  closes     \* the Transaction disconnect() rolls back

vars == <<start, lock, gt, active, leased, end, closing, closes>>

Init ==
  /\ start = [a \in Starter |-> "idle"]
  /\ lock = None
  /\ gt = None
  /\ active = [a \in Starter |-> FALSE]
  /\ leased = {}
  /\ end = [e \in Ender |-> [stage |-> "idle", on |-> None]]
  /\ closing = "idle"
  /\ closes = None

-----------------------------------------------------------------------------
GlobalIsActive == gt # None /\ active[gt]

\* startGlobalTransaction() while another start is in flight: await its lock.
WaitForLock(a) ==
  /\ start[a] = "idle"
  /\ lock # None
  /\ start' = [start EXCEPT ![a] = "waiting"]
  /\ UNCHANGED <<lock, gt, active, leased, end, closing, closes>>

\* The lock is free: refuse if a global transaction is active, else take it.
Check(a) ==
  /\ start[a] \in {"idle", "waiting"}
  /\ lock = None
  /\ IF GlobalIsActive
       THEN /\ start' = [start EXCEPT ![a] = "refused"]
            /\ UNCHANGED lock
       ELSE /\ start' = [start EXCEPT ![a] = "connecting"]
            /\ lock' = a
  /\ UNCHANGED <<gt, active, leased, end, closing, closes>>

\* The pool lends the clone a connection; the new Transaction is the global one
\* from here on, before BEGIN is answered.
Connected(a) ==
  /\ start[a] = "connecting"
  /\ closing \in {"idle", "rollingback"}
  /\ start' = [start EXCEPT ![a] = "beginning"]
  /\ leased' = leased \cup {a}
  /\ gt' = a
  /\ UNCHANGED <<lock, active, end, closing, closes>>

\* Mutant: no finally block around the start.
ConnectFailsLocked(a) ==
  /\ start[a] = "connecting"
  /\ BeginMayFail \/ closing \in {"ending", "done"}
  /\ start' = [start EXCEPT ![a] = "failed"]
  /\ UNCHANGED <<lock, gt, active, leased, end, closing, closes>>

\* A pool that is closing, or gone, lends nothing.
ConnectFails(a) ==
  /\ start[a] = "connecting"
  /\ BeginMayFail \/ closing \in {"ending", "done"}
  /\ start' = [start EXCEPT ![a] = "failed"]
  /\ lock' = None
  /\ UNCHANGED <<gt, active, leased, end, closing, closes>>

Began(a) ==
  /\ start[a] = "beginning"
  /\ start' = [start EXCEPT ![a] = "started"]
  /\ active' = [active EXCEPT ![a] = TRUE]
  /\ lock' = None
  /\ UNCHANGED <<gt, leased, end, closing, closes>>

\* BEGIN is rejected: the lock is freed, the connection is not, and the
\* inactive Transaction stays the global one.
BeginFails(a) ==
  /\ BeginMayFail
  /\ start[a] = "beginning"
  /\ start' = [start EXCEPT ![a] = "failed"]
  /\ lock' = None
  /\ UNCHANGED <<gt, active, leased, end, closing, closes>>

-----------------------------------------------------------------------------
\* Nothing else is under way.
Alone ==
  /\ lock = None
  /\ \A e \in Ender : end[e].stage # "sent"
  /\ closing = "idle"

\* Mutant: the reference is dropped as soon as the command is sent.
EndGlobalEarly(e) ==
  /\ end[e].stage = "idle"
  /\ Overlap \/ Alone
  /\ end' = [end EXCEPT ![e] = [stage |-> IF GlobalIsActive THEN "sent" ELSE "settled",
                                on |-> gt]]
  /\ gt' = None
  /\ UNCHANGED <<start, lock, active, leased, closing, closes>>

\* commitGlobalTransaction() or rollbackGlobalTransaction(): COMMIT or ROLLBACK
\* is sent on the Transaction that is global now; an inactive one is dropped.
EndGlobal(e) ==
  /\ end[e].stage = "idle"
  /\ Overlap \/ Alone
  /\ IF GlobalIsActive
       THEN /\ end' = [end EXCEPT ![e] = [stage |-> "sent", on |-> gt]]
            /\ UNCHANGED gt
       ELSE /\ end' = [end EXCEPT ![e] = [stage |-> "settled", on |-> gt]]
            /\ gt' = None
  /\ UNCHANGED <<start, lock, active, leased, closing, closes>>

\* Mutant: commit() and rollback() only forget the connection.
OverLeaks(a) ==
  /\ active' = [active EXCEPT ![a] = FALSE]
  /\ UNCHANGED leased

\* The Transaction gives its connection back and turns inactive, whatever the
\* server answered.
Over(a) ==
  /\ active' = [active EXCEPT ![a] = FALSE]
  /\ leased' = leased \ {a}

\* The answer arrived; the finally block clears whichever Transaction is the
\* global one by now.
EndAnswered(e) ==
  /\ end[e].stage = "sent"
  /\ end' = [end EXCEPT ![e].stage = "settled"]
  /\ Over(end[e].on)
  /\ gt' = None
  /\ UNCHANGED <<start, lock, closing, closes>>

\* The caller of startGlobalTransaction() ends the Transaction it was given.
EndObject(a) ==
  /\ active[a]
  /\ Overlap \/ Alone
  /\ Over(a)
  /\ UNCHANGED <<start, lock, gt, end, closing, closes>>

-----------------------------------------------------------------------------
\* Mutant: disconnect() leaves the global transaction alone.
DisconnectOnly ==
  /\ closing = "idle"
  /\ Overlap \/ Alone
  /\ closing' = "ending"
  /\ UNCHANGED <<start, lock, gt, active, leased, end, closes>>

\* disconnect(): an active global transaction is rolled back first.
Disconnect ==
  /\ closing = "idle"
  /\ Overlap \/ Alone
  /\ IF GlobalIsActive
       THEN closing' = "rollingback" /\ closes' = gt
       ELSE closing' = "ending" /\ UNCHANGED closes
  /\ UNCHANGED <<start, lock, gt, active, leased, end>>

RolledBack ==
  /\ closing = "rollingback"
  /\ closing' = "ending"
  /\ Over(closes)
  /\ gt' = None
  /\ UNCHANGED <<start, lock, end, closes>>

\* The pool ends once every connection is back (pg); a start that asked for one
\* before that is answered first.
Ended ==
  /\ closing = "ending"
  /\ leased = {}
  /\ closing' = "done"
  /\ UNCHANGED <<start, lock, gt, active, leased, end, closes>>

Next ==
  \/ \E a \in Starter :
       \/ WaitForLock(a) \/ Check(a) \/ Connected(a) \/ ConnectFails(a)
       \/ Began(a) \/ BeginFails(a) \/ EndObject(a)
  \/ \E e \in Ender : EndGlobal(e) \/ EndAnswered(e)
  \/ Disconnect \/ RolledBack \/ Ended

Spec == Init /\ [][Next]_vars

\* Continuations run, the server and the pool answer.
Fairness ==
  /\ \A a \in Starter :
       /\ WF_vars(start[a] = "waiting" /\ Check(a))
       /\ WF_vars(Connected(a) \/ ConnectFails(a))
       /\ WF_vars(Began(a) \/ BeginFails(a))
  /\ \A e \in Ender : WF_vars(EndAnswered(e))
  /\ WF_vars(RolledBack)
  /\ WF_vars(Ended)

FairSpec == Spec /\ Fairness

-----------------------------------------------------------------------------
(* Properties.                                                             *)

\* The shape of every variable; the lock names the start that holds it.
TypeOK ==
  /\ start \in [Starter -> {"idle", "waiting", "connecting", "beginning",
                            "started", "refused", "failed"}]
  /\ lock \in Starter \cup {None}
  /\ gt \in Starter \cup {None}
  /\ active \in [Starter -> BOOLEAN]
  /\ leased \subseteq Starter
  /\ end \in [Ender -> [stage : {"idle", "sent", "settled"}, on : Starter \cup {None}]]
  /\ closing \in {"idle", "rollingback", "ending", "done"}
  /\ closes \in Starter \cup {None}

\* "Concurrent calls serialize ... rejects if a global transaction is still
\* active": there is never a second active global transaction.
AtMostOneActive == \A a, b \in Starter : active[a] /\ active[b] => a = b

\* An active global transaction is the one the data source's statements run in,
\* and the one commitGlobalTransaction() and disconnect() can still end.
ActiveIsGlobal == \A a \in Starter : active[a] => gt = a

\* A connection lent to a global transaction is in use, or about to be; the only
\* ones nobody gives back are those whose BEGIN was rejected.
NothingLeaked ==
  \A a \in leased : start[a] \in {"beginning", "failed"} \/ active[a]

\* Every start settles, whoever holds the lock and however that start ends.
StartSettles ==
  \A a \in Starter :
    start[a] = "waiting" ~> start[a] \in {"started", "refused", "failed"}

\* "Closes the current connection": disconnect() settles, unless a rejected BEGIN
\* keeps its connection.
EventuallyClosed ==
  closing # "idle" ~> closing = "done" \/ \E a \in leased : start[a] = "failed"

-----------------------------------------------------------------------------
(* The inductive invariant behind AtMostOneActive and ActiveIsGlobal for   *)
(* callers that do not overlap.                                            *)

StartsLocked ==
  \A a \in Starter :
    /\ start[a] \in {"connecting", "beginning"} => lock = a
    /\ start[a] = "beginning" => gt = a
    /\ active[a] => gt = a /\ start[a] = "started"
    /\ a \in leased => start[a] \in {"beginning", "failed"} \/ active[a]

\* A start in flight excludes an active global transaction, a running end and,
\* but for one that came after disconnect(), a closing data source.
LockExcludes ==
  /\ lock # None =>
       /\ start[lock] \in {"connecting", "beginning"}
       /\ \A a \in Starter : ~active[a]
       /\ \A e \in Ender : end[e].stage # "sent"
       /\ closing # "rollingback"

EndsTheGlobal ==
  /\ \A e \in Ender : end[e].stage = "sent" =>
       /\ end[e].on = gt /\ GlobalIsActive
       /\ \A f \in Ender : end[f].stage = "sent" => f = e
       /\ closing = "idle"
  /\ closing = "rollingback" => closes = gt /\ GlobalIsActive

\* The lock of startGlobalTransaction(), the reference the data source keeps
\* and the transactions themselves agree after every step.
GlobalInv == StartsLocked /\ LockExcludes /\ EndsTheGlobal
=============================================================================
