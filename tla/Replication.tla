----------------------------- MODULE Replication ------------------------------
(***************************************************************************)
(* Where the statements of a data source with replicas run.  Every caller  *)
(* writes a row and then reads the rows, as the insert of a mysql model    *)
(* does by itself, on its own or in a transaction, with the query builder  *)
(* or with rawQuery().  A replica has what was committed a while ago.      *)
(*                                                                         *)
(* A transaction is a clone of the data source.  The clone makes replicas  *)
(* of its own out of the configuration, and nobody connects them.          *)
(***************************************************************************)
EXTENDS Naturals, FiniteSets

CONSTANTS
  Readers,        \* the callers
  ReplicaCount,   \* replicas, numbered from 0 in the order of the configuration
  Requests,       \* what they may ask for
  Configurations  \* the configurations considered

\* inside: in the transaction; raw: by rawQuery(); mode: its replicationMode.
Request == [inside : BOOLEAN, raw : BOOLEAN, mode : {"none", "master", "slave"}]

\* lazyLoad of the replicas, onSlaveServerFailure, slaveAlgorithm.
Configuration == [lazy : BOOLEAN, callback : BOOLEAN, random : BOOLEAN]

ASSUME ReplicationAssumption ==
  /\ ReplicaCount \in Nat
  /\ Requests \subseteq Request /\ Configurations \subseteq Configuration

Replicas == 0..(ReplicaCount - 1)
Master == ReplicaCount   \* a number no replica has

VARIABLES
  setup, request,
  committed, uncommitted,  \* the rows of the master; those of the open transaction
  replica, up,             \* the rows of each replica; whether it answers
  open,                    \* the <<source, replica>> with a pool
  roundRobinIndex,         \* of each source
  stage, target,           \* where a caller is; where its statement runs
  seen, by                 \* history: what it read, and where

replVars == <<setup, request, committed, uncommitted, replica, up, open, roundRobinIndex,
              stage, target, seen, by>>

Sources == {"main", "clone"}

\* A mutant: rawQuery() does not look for the transaction.
SourceOfRaw(u) == IF request[u].inside /\ ~request[u].raw THEN "clone" ELSE "main"

\* from() and the model manager take the transaction's data source; rawQuery() looks
\* for its replica, and for the master after it, on the one it was called on.
Source(u) == IF request[u].inside /\ ~(request[u].raw /\ request[u].mode = "slave") THEN "clone" ELSE "main"

-----------------------------------------------------------------------------

ReplInit ==
  /\ setup \in Configurations /\ request \in [Readers -> Requests]
  /\ committed = {} /\ uncommitted = {}
  /\ replica = [r \in Replicas |-> {}] /\ up = [r \in Replicas |-> TRUE]
  /\ open = {"main"} \X Replicas
  /\ roundRobinIndex = [s \in Sources |-> 0]
  /\ stage = [u \in Readers |-> "write"] /\ target = [u \in Readers |-> Master]
  /\ seen = [u \in Readers |-> {}] /\ by = [u \in Readers |-> Master]

Moves(u, how) == stage' = [stage EXCEPT ![u] = how]

\* Writes go to the master, whatever the mode.
Write(u) ==
  /\ stage[u] = "write" /\ Moves(u, "read")
  /\ \/ /\ request[u].inside
        /\ uncommitted' = uncommitted \cup {u} /\ UNCHANGED committed
     \/ /\ ~request[u].inside
        /\ committed' = committed \cup {u} /\ UNCHANGED uncommitted
  /\ UNCHANGED <<setup, request, replica, up, open, roundRobinIndex, target, seen, by>>

\* A query builder reads from a replica unless the mode is master, rawQuery() only
\* when it is slave.
WantsReplica(u) == request[u].mode = "slave" \/ (request[u].mode = "none" /\ ~request[u].raw)

\* getSlave()
GetSlave(s, r) ==
  /\ setup.random \/ r = roundRobinIndex[s] % ReplicaCount
  /\ roundRobinIndex' = IF setup.random THEN roundRobinIndex
                        ELSE [roundRobinIndex EXCEPT ![s] = (@ + 1) % ReplicaCount]

GetSqlDataSource(u) ==
  /\ stage[u] = "read" /\ Moves(u, "run")
  /\ \/ /\ WantsReplica(u) /\ ReplicaCount > 0
        /\ \E r \in Replicas : GetSlave(Source(u), r) /\ target' = [target EXCEPT ![u] = r]
     \/ /\ ~WantsReplica(u) \/ ReplicaCount = 0
        /\ target' = [target EXCEPT ![u] = Master] /\ UNCHANGED <<roundRobinIndex>>
  /\ UNCHANGED <<setup, request, committed, uncommitted, replica, up, open, seen, by>>

\* A replica nobody connected connects when it is lazy, and refuses otherwise.
OnReplica(u) ==
  LET r == target[u]
      pool == <<Source(u), r>>
      connects == pool \in open \/ (setup.lazy /\ up[r])
  IN  /\ stage[u] = "run" /\ r # Master
      /\ open' = IF connects THEN open \cup {pool} ELSE open
      /\ \/ /\ connects /\ up[r]
            /\ seen' = [seen EXCEPT ![u] = replica[r]] /\ by' = [by EXCEPT ![u] = r]
            /\ Moves(u, "answered")
         \/ /\ ~connects \/ ~up[r]
            /\ Moves(u, IF setup.callback THEN "failed" ELSE "rejected")
            /\ UNCHANGED <<seen, by>>
      /\ UNCHANGED <<setup, request, committed, uncommitted, replica, up, roundRobinIndex, target>>

OnMaster(u) ==
  /\ stage[u] = "run" /\ target[u] = Master
  /\ seen' = [seen EXCEPT ![u] = IF Source(u) = "clone" THEN committed \cup uncommitted ELSE committed]
  /\ by' = [by EXCEPT ![u] = Master]
  /\ Moves(u, "answered")
  /\ UNCHANGED <<setup, request, committed, uncommitted, replica, up, open, roundRobinIndex, target>>

\* onSlaveServerFailure: the master answers when it returns, and it may throw.
OnSlaveServerFailure(u) ==
  /\ stage[u] = "failed"
  /\ \/ Moves(u, "run") /\ target' = [target EXCEPT ![u] = Master]
     \/ Moves(u, "rejected") /\ UNCHANGED target
  /\ UNCHANGED <<setup, request, committed, uncommitted, replica, up, open, roundRobinIndex, seen, by>>

Replicate(r) ==
  /\ up[r] /\ replica' = [replica EXCEPT ![r] = committed]
  /\ UNCHANGED <<setup, request, committed, uncommitted, up, open, roundRobinIndex, stage, target, seen, by>>

Fall(r) ==
  /\ up[r] /\ up' = [up EXCEPT ![r] = FALSE]
  /\ UNCHANGED <<setup, request, committed, uncommitted, replica, open, roundRobinIndex, stage, target, seen, by>>

\* The transaction ends when its callers have settled.
Commit ==
  /\ uncommitted # {} /\ \A u \in Readers : request[u].inside => stage[u] \in {"answered", "rejected"}
  /\ committed' = committed \cup uncommitted /\ uncommitted' = {}
  /\ UNCHANGED <<setup, request, replica, up, open, roundRobinIndex, stage, target, seen, by>>

ReplNext ==
  \/ \E u \in Readers :
       Write(u) \/ GetSqlDataSource(u) \/ OnReplica(u) \/ OnMaster(u) \/ OnSlaveServerFailure(u)
  \/ \E r \in Replicas : Replicate(r) \/ Fall(r)
  \/ Commit

ReplSpec == ReplInit /\ [][ReplNext]_replVars

-----------------------------------------------------------------------------
(* Properties.                                                             *)

\* Whoever the master answers sees the row it wrote, in a transaction and after a
\* replica failed as well; but for rawQuery() on a replica, which falls back to a
\* connection that is not the transaction's (sql_data_source.ts 2599-2628).  Nobody
\* who asked for the master is answered by a replica (query_builder.ts 1666-1727).
ReadsItsWrite ==
  \A u \in Readers : stage[u] = "answered" =>
    /\ by[u] = Master =>
         u \in seen[u] \/ (request[u].raw /\ request[u].inside /\ request[u].mode = "slave")
    /\ request[u].mode = "master" => by[u] = Master
=============================================================================
