----------------------------- MODULE DataPathProofs -----------------------------
(***************************************************************************)
(* What the data path promises whoever reads and writes through it:        *)
(* Caching, for any number of users, names and changes, with either        *)
(* adapter; Replication, for any number of callers and replicas, however   *)
(* they lag and fail; Streaming, for any number of rows on every kind of   *)
(* driver, in whatever order rows, onData, errors and the caller come; and *)
(* the writes of models and the loading of their relations, for every      *)
(* table, index, call and database, whatever others write in between.      *)
(***************************************************************************)
EXTENDS Caching, Replication, Streaming, ModelWrites, RelationLoading, TLAPS,
        FiniteSetTheorems, FunctionTheorems, SequenceTheorems, WellFoundedInduction

-----------------------------------------------------------------------------
(* The cache.                                                              *)

CacheTypeOK ==
  /\ version \in Nat
  /\ store \in [CachedKeys -> Nat]
  /\ timers \in [CachedKeys -> BOOLEAN]
  /\ sets \in [CachedKeys -> Nat]
  /\ fresh \in [CachedKeys -> Nat]
  /\ use \in [Users -> [at : {"idle", "missed", "read"}, key : CachedKeys \cup {<<>>},
                        value : Nat, ttl : BOOLEAN]]
  /\ \A u \in Users : use[u].at # "idle" => use[u].key \in CachedKeys

\* No key was invalidated later than now.
FreshIsPast == \A k \in CachedKeys : fresh[k] <= version

\* What a fill has read is as new as its key has to be: invalidations that meet it
\* leave the key out.
ReadIsFresh == \A u \in Users : use[u].at = "read" => use[u].value >= fresh[use[u].key]

CacheInv == CacheTypeOK /\ FreshIsPast /\ ReadIsFresh /\ NeverStale

-----------------------------------------------------------------------------

\* At first nothing is cached.
LEMMA CacheInitially == CacheInit => CacheInv
<1> SUFFICES ASSUME CacheInit PROVE CacheInv
    OBVIOUS
<1>1. CacheTypeOK
    BY DEF CacheInit, CacheTypeOK, Idle, Empty
<1>2. FreshIsPast
    BY DEF CacheInit, FreshIsPast
<1>3. ReadIsFresh
    BY DEF CacheInit, ReadIsFresh, Idle
<1>4. NeverStale
    BY DEF CacheInit, NeverStale
<1> QED
    BY <1>1, <1>2, <1>3, <1>4 DEF CacheInv

\* Removing keys, and noting those no fill races for, keeps the invariant: this is
\* every invalidation there is.
LEMMA InvalidationsKeepIt ==
  ASSUME CacheInv, NEW keys, Removed(keys), Refreshed(keys), UNCHANGED <<version, use>>
  PROVE  CacheInv'
<1> USE DEF CacheInv
<1>1. CacheTypeOK'
    BY DEF CacheTypeOK, Removed, Refreshed, Empty
<1>2. FreshIsPast'
    BY DEF FreshIsPast, CacheTypeOK, Refreshed
<1>3. ReadIsFresh'
  <2> SUFFICES ASSUME NEW u \in Users, use[u].at = "read"
               PROVE  use[u].value >= fresh'[use[u].key]
      BY DEF ReadIsFresh
  <2>1. use[u].key \in CachedKeys /\ Racing(use[u].key)
      BY DEF CacheTypeOK, Racing
  <2>2. fresh'[use[u].key] = fresh[use[u].key]
      BY <2>1 DEF Refreshed
  <2> QED
      BY <2>2 DEF ReadIsFresh
<1>4. NeverStale'
  <2> SUFFICES ASSUME NEW k \in CachedKeys
               PROVE  /\ store'[k] # Empty => store'[k] >= fresh'[k]
                      /\ timers'[k] => store'[k] = sets'[k]
      BY DEF NeverStale
  <2>1. CASE k \in keys
      BY <2>1 DEF Removed
  <2>2. CASE k \notin keys
    <3>1. store'[k] = store[k] /\ timers'[k] = timers[k] /\ sets'[k] = sets[k]
        BY <2>2 DEF Removed
    <3>2. fresh'[k] = fresh[k]
        BY <2>2 DEF Refreshed
    <3> QED
        BY <3>1, <3>2 DEF NeverStale
  <2> QED
      BY <2>1, <2>2
<1> QED
    BY <1>1, <1>2, <1>3, <1>4

\* The steps of useCache().
LEMMA FillsKeepIt ==
  ASSUME CacheInv, NEW u \in Users, Handle(u) \/ Set(u)
  PROVE  CacheInv'
<1> USE DEF CacheInv
<1> DEFINE key == use[u].key
<1>1. CASE Handle(u)
  <2>1. use'[u].at = "read" /\ use'[u].value = version /\ use'[u].key = key /\ key \in CachedKeys
      BY <1>1 DEF Handle, CacheTypeOK
  <2>2. \A w \in Users \ {u} : use'[w] = use[w]
      BY <1>1 DEF Handle, CacheTypeOK
  <2>3. CacheTypeOK'
      BY <1>1, <2>1 DEF Handle, CacheTypeOK
  <2>4. FreshIsPast' /\ NeverStale'
      BY <1>1 DEF Handle, FreshIsPast, NeverStale
  <2>5. ReadIsFresh'
    <3> SUFFICES ASSUME NEW w \in Users, use'[w].at = "read"
                 PROVE  use'[w].value >= fresh[use'[w].key]
        BY <1>1 DEF Handle, ReadIsFresh
    <3>1. CASE w = u
        BY <3>1, <2>1 DEF FreshIsPast, CacheTypeOK
    <3>2. CASE w # u
        BY <3>2, <2>2 DEF ReadIsFresh
    <3> QED
        BY <3>1, <3>2
  <2> QED
      BY <2>3, <2>4, <2>5
<1>2. CASE Set(u)
  <2>1. key \in CachedKeys /\ use[u].value \in Nat /\ use[u].ttl \in BOOLEAN /\ use[u].value >= fresh[key]
      BY <1>2 DEF Set, CacheTypeOK, ReadIsFresh
  <2>2. CacheTypeOK'
      BY <1>2, <2>1 DEF Set, CacheTypeOK, Idle, Empty
  <2>3. FreshIsPast'
      BY <1>2 DEF Set, FreshIsPast
  <2>4. ReadIsFresh'
      BY <1>2 DEF Set, ReadIsFresh, CacheTypeOK, Idle
  <2>5. NeverStale'
    <3> SUFFICES ASSUME NEW k \in CachedKeys
                 PROVE  /\ store'[k] # Empty => store'[k] >= fresh[k]
                        /\ timers'[k] => store'[k] = sets'[k]
        BY <1>2 DEF Set, NeverStale
    <3>1. CASE k = key
        BY <1>2, <2>1, <3>1 DEF Set, CacheTypeOK
    <3>2. CASE k # key
        BY <1>2, <3>2 DEF Set, CacheTypeOK, NeverStale
    <3> QED
        BY <3>1, <3>2
  <2> QED
      BY <2>2, <2>3, <2>4, <2>5
<1> QED
    BY <1>1, <1>2

\* Every step keeps the invariant.
LEMMA CacheSteps == CacheInv /\ [CacheNext]_cacheVars => CacheInv'
<1> SUFFICES ASSUME CacheInv, [CacheNext]_cacheVars PROVE CacheInv'
    OBVIOUS
<1> USE DEF CacheInv
<1>1. ASSUME NEW u \in Users, NEW name \in Names, NEW ttl \in BOOLEAN, Get(u, name, ttl)
      PROVE  CacheInv'
  <2>1. <<name, 1>> \in CachedKeys
      BY DEF CachedKeys
  <2>2. use'[u].at = "missed" /\ \A w \in Users \ {u} : use'[w] = use[w]
      BY <1>1 DEF Get, CacheTypeOK
  <2>3. CacheTypeOK'
      BY <1>1, <2>1 DEF Get, CacheTypeOK, Empty
  <2>4. FreshIsPast' /\ NeverStale'
      BY <1>1 DEF Get, FreshIsPast, NeverStale
  <2>5. ReadIsFresh'
      BY <1>1, <2>2 DEF Get, ReadIsFresh
  <2> QED
      BY <2>3, <2>4, <2>5
<1>2. ASSUME NEW u \in Users, Handle(u) \/ Set(u) PROVE CacheInv'
    BY <1>2, FillsKeepIt
<1>3. ASSUME NEW key \in CachedKeys, Expire(key) PROVE CacheInv'
  <2>1. CacheTypeOK'
      BY <1>3 DEF Expire, CacheTypeOK, Empty
  <2>2. FreshIsPast' /\ ReadIsFresh'
      BY <1>3 DEF Expire, FreshIsPast, ReadIsFresh
  <2>3. NeverStale'
      BY <1>3 DEF Expire, CacheTypeOK, NeverStale, Empty
  <2> QED
      BY <2>1, <2>2, <2>3
<1>4. ASSUME NEW key \in CachedKeys, DeleteOne(key) PROVE CacheInv'
    BY <1>4, InvalidationsKeepIt DEF DeleteOne
<1>5. CASE Change
  <2>1. version' = version + 1 /\ UNCHANGED <<store, timers, sets, fresh, use>>
      BY <1>5 DEF Change
  <2> QED
      BY <2>1 DEF CacheTypeOK, FreshIsPast, ReadIsFresh, NeverStale
<1>6. ASSUME NEW name \in Names, NEW hash \in {0, 1}, InvalidCache(name, hash) PROVE CacheInv'
    BY <1>6, InvalidationsKeepIt DEF InvalidCache
<1>7. ASSUME NEW name \in Names, InvalidateAll(name) PROVE CacheInv'
  <2>1. CASE adapter = "memory"
      BY <1>7, <2>1, InvalidationsKeepIt DEF InvalidateAll
  <2>2. CASE adapter # "memory"
      BY <1>7, <2>2 DEF InvalidateAll, CacheTypeOK, FreshIsPast, ReadIsFresh, NeverStale
  <2> QED
      BY <2>1, <2>2
<1>8. CASE UNCHANGED cacheVars
    BY <1>8 DEF cacheVars, CacheTypeOK, FreshIsPast, ReadIsFresh, NeverStale
<1> QED
    BY <1>1, <1>2, <1>3, <1>4, <1>5, <1>6, <1>7, <1>8 DEF CacheNext

-----------------------------------------------------------------------------

\* What a fill has read before an invalidation stays out of what is promised, and
\* everything else that is read or stored is as new as its key has to be (useCache(),
\* invalidCache() and both adapters).
THEOREM FillInvariant == CacheSpec => []CacheInv
BY CacheInitially, CacheSteps, PTL DEF CacheSpec

\* A cached value is not older than the last invalidation of its key, and a timer
\* removes only the value it was started with (set(), delete() and the timers of
\* in_memory.ts, and the keys of sql_data_source.ts).
THEOREM CacheNeverStale == CacheSpec => []NeverStale
BY FillInvariant, PTL DEF CacheInv

-----------------------------------------------------------------------------
(* Reads from the master.                                                  *)

ReadStages == {"write", "read", "run", "failed", "answered", "rejected"}

ReplTypeOK ==
  /\ request \in [Readers -> Request]
  /\ stage \in [Readers -> ReadStages]
  /\ target \in [Readers -> Replicas \cup {Master}]
  /\ by \in [Readers -> Replicas \cup {Master}]
  /\ DOMAIN seen = Readers

\* A row that was written is committed, or will be with its transaction.
WriteSeen ==
  \A u \in Readers : stage[u] # "write" =>
    /\ u \in committed \cup uncommitted
    /\ ~request[u].inside => u \in committed

\* Who asked for the master never runs on a replica.
MasterRuns ==
  \A u \in Readers : request[u].mode = "master" =>
    /\ stage[u] = "run" => target[u] = Master
    /\ stage[u] # "failed"

ReplInv == ReplTypeOK /\ WriteSeen /\ MasterRuns /\ ReadsItsWrite

-----------------------------------------------------------------------------

LEMMA ReplInitially == ReplInit => ReplInv
<1> SUFFICES ASSUME ReplInit PROVE ReplInv
    OBVIOUS
<1>1. ReplTypeOK
    BY ReplicationAssumption DEF ReplInit, ReplTypeOK, ReadStages
<1>2. WriteSeen /\ MasterRuns /\ ReadsItsWrite
    BY DEF ReplInit, WriteSeen, MasterRuns, ReadsItsWrite
<1> QED
    BY <1>1, <1>2 DEF ReplInv

\* The steps of one caller.
LEMMA CallerKeepsIt ==
  ASSUME ReplInv, NEW u \in Readers,
         Write(u) \/ GetSqlDataSource(u) \/ OnReplica(u) \/ OnMaster(u) \/ OnSlaveServerFailure(u)
  PROVE  ReplInv'
<1> USE DEF ReplInv
<1>1. CASE Write(u)
  <2>1. /\ request' = request /\ target' = target /\ by' = by /\ seen' = seen
        /\ stage' = [stage EXCEPT ![u] = "read"]
        /\ committed \subseteq committed' /\ uncommitted \subseteq uncommitted'
        /\ u \in committed' \cup uncommitted' /\ (~request[u].inside => u \in committed')
      BY <1>1 DEF Write, Moves
  <2>2. stage' \in [Readers -> ReadStages] /\ stage'[u] = "read" /\ \A w \in Readers \ {u} : stage'[w] = stage[w]
      BY <2>1 DEF ReplTypeOK, ReadStages
  <2>3. ReplTypeOK'
      BY <2>1, <2>2 DEF ReplTypeOK
  <2>4. WriteSeen'
      BY <2>1, <2>2 DEF WriteSeen
  <2>5. MasterRuns' /\ ReadsItsWrite'
      BY <2>1, <2>2 DEF MasterRuns, ReadsItsWrite
  <2> QED
      BY <2>3, <2>4, <2>5
<1>2. CASE GetSqlDataSource(u)
  <2>1. /\ UNCHANGED <<request, committed, uncommitted, by, seen>>
        /\ stage[u] = "read" /\ stage' = [stage EXCEPT ![u] = "run"]
      BY <1>2 DEF GetSqlDataSource, Moves
  <2>2. stage' \in [Readers -> ReadStages] /\ stage'[u] = "run" /\ \A w \in Readers \ {u} : stage'[w] = stage[w]
      BY <2>1 DEF ReplTypeOK, ReadStages
  <2>3. /\ target' \in [Readers -> Replicas \cup {Master}]
        /\ \A w \in Readers \ {u} : target'[w] = target[w]
        /\ request[u].mode = "master" => target'[u] = Master
      BY <1>2 DEF GetSqlDataSource, WantsReplica, ReplTypeOK
  <2>4. ReplTypeOK'
      BY <2>1, <2>2, <2>3 DEF ReplTypeOK
  <2>5. WriteSeen' /\ MasterRuns' /\ ReadsItsWrite'
      BY <2>1, <2>2, <2>3 DEF WriteSeen, MasterRuns, ReadsItsWrite
  <2> QED
      BY <2>4, <2>5
<1>3. CASE OnReplica(u)
  <2>1. /\ UNCHANGED <<request, committed, uncommitted, target>>
        /\ stage[u] = "run" /\ target[u] # Master
      BY <1>3 DEF OnReplica
  <2>2. request[u].mode # "master"
      BY <2>1 DEF MasterRuns
  <2>3. PICK how \in {"answered", "failed", "rejected"} : stage' = [stage EXCEPT ![u] = how]
      BY <1>3 DEF OnReplica, Moves
  <2>4. stage' \in [Readers -> ReadStages] /\ stage'[u] = how /\ \A w \in Readers \ {u} : stage'[w] = stage[w]
      BY <2>3 DEF ReplTypeOK, ReadStages
  <2>5. /\ by' \in [Readers -> Replicas \cup {Master}] /\ DOMAIN seen' = Readers
        /\ \A w \in Readers \ {u} : by'[w] = by[w] /\ seen'[w] = seen[w]
      BY <1>3 DEF OnReplica, ReplTypeOK
  <2>6. how = "answered" => by'[u] # Master
      BY <1>3, <2>4, <2>1 DEF OnReplica, Moves, ReplTypeOK
  <2>7. ReplTypeOK'
      BY <2>1, <2>4, <2>5 DEF ReplTypeOK
  <2>8. WriteSeen' /\ MasterRuns'
      BY <2>1, <2>2, <2>4 DEF WriteSeen, MasterRuns
  <2>9. ReadsItsWrite'
      BY <2>1, <2>2, <2>4, <2>5, <2>6 DEF ReadsItsWrite
  <2> QED
      BY <2>7, <2>8, <2>9
<1>4. CASE OnMaster(u)
  <2>1. /\ UNCHANGED <<request, committed, uncommitted, target>>
        /\ stage[u] = "run" /\ stage' = [stage EXCEPT ![u] = "answered"]
        /\ by' = [by EXCEPT ![u] = Master]
        /\ seen' = [seen EXCEPT ![u] = IF Source(u) = "clone" THEN committed \cup uncommitted ELSE committed]
      BY <1>4 DEF OnMaster, Moves
  <2>2. /\ stage' \in [Readers -> ReadStages] /\ stage'[u] = "answered"
        /\ \A w \in Readers \ {u} : stage'[w] = stage[w] /\ by'[w] = by[w] /\ seen'[w] = seen[w]
        /\ by' \in [Readers -> Replicas \cup {Master}] /\ by'[u] = Master /\ DOMAIN seen' = Readers
      BY <2>1 DEF ReplTypeOK, ReadStages
  <2>3. u \in seen'[u] \/ (request[u].raw /\ request[u].inside /\ request[u].mode = "slave")
    <3>1. CASE Source(u) = "clone"
        BY <2>1, <3>1 DEF WriteSeen, ReplTypeOK
    <3>2. CASE Source(u) # "clone"
      <4>1. seen'[u] = committed
          BY <2>1, <3>2 DEF ReplTypeOK
      <4>2. ~request[u].inside \/ (request[u].raw /\ request[u].mode = "slave")
          BY <3>2 DEF Source
      <4> QED
          BY <2>1, <4>1, <4>2 DEF WriteSeen, ReplTypeOK, Request
    <3> QED
        BY <3>1, <3>2
  <2>4. ReplTypeOK'
      BY <2>1, <2>2 DEF ReplTypeOK
  <2>5. WriteSeen' /\ MasterRuns'
      BY <2>1, <2>2 DEF WriteSeen, MasterRuns
  <2>6. ReadsItsWrite'
      BY <2>1, <2>2, <2>3 DEF ReadsItsWrite
  <2> QED
      BY <2>4, <2>5, <2>6
<1>5. CASE OnSlaveServerFailure(u)
  <2>1. /\ UNCHANGED <<request, committed, uncommitted, by, seen>>
        /\ stage[u] = "failed"
      BY <1>5 DEF OnSlaveServerFailure
  <2>2. PICK how \in {"run", "rejected"} : stage' = [stage EXCEPT ![u] = how]
      BY <1>5 DEF OnSlaveServerFailure, Moves
  <2>3. stage' \in [Readers -> ReadStages] /\ stage'[u] = how /\ \A w \in Readers \ {u} : stage'[w] = stage[w]
      BY <2>2 DEF ReplTypeOK, ReadStages
  <2>4. target' \in [Readers -> Replicas \cup {Master}] /\ \A w \in Readers \ {u} : target'[w] = target[w]
      BY <1>5 DEF OnSlaveServerFailure, ReplTypeOK
  <2>5. request[u].mode # "master"
      BY <2>1 DEF MasterRuns
  <2>6. ReplTypeOK'
      BY <2>1, <2>3, <2>4 DEF ReplTypeOK
  <2>7. WriteSeen' /\ MasterRuns' /\ ReadsItsWrite'
      BY <2>1, <2>3, <2>4, <2>5 DEF WriteSeen, MasterRuns, ReadsItsWrite
  <2> QED
      BY <2>6, <2>7
<1> QED
    BY <1>1, <1>2, <1>3, <1>4, <1>5

\* Every step keeps the invariant.
LEMMA ReplSteps == ReplInv /\ [ReplNext]_replVars => ReplInv'
<1> SUFFICES ASSUME ReplInv, [ReplNext]_replVars PROVE ReplInv'
    OBVIOUS
<1> USE DEF ReplInv
<1>1. ASSUME NEW u \in Readers,
             Write(u) \/ GetSqlDataSource(u) \/ OnReplica(u) \/ OnMaster(u) \/ OnSlaveServerFailure(u)
      PROVE  ReplInv'
    BY <1>1, CallerKeepsIt
<1>2. ASSUME NEW r \in Replicas, Replicate(r) \/ Fall(r) PROVE ReplInv'
  <2>1. UNCHANGED <<request, committed, uncommitted, stage, target, by, seen>>
      BY <1>2 DEF Replicate, Fall
  <2> QED
      BY <2>1 DEF ReplTypeOK, WriteSeen, MasterRuns, ReadsItsWrite
<1>3. CASE Commit
  <2>1. UNCHANGED <<request, stage, target, by, seen>> /\ committed' = committed \cup uncommitted
      BY <1>3 DEF Commit
  <2>2. ReplTypeOK' /\ MasterRuns' /\ ReadsItsWrite'
      BY <2>1 DEF ReplTypeOK, MasterRuns, ReadsItsWrite
  <2>3. WriteSeen'
      BY <2>1 DEF WriteSeen
  <2> QED
      BY <2>2, <2>3
<1>4. CASE UNCHANGED replVars
    BY <1>4 DEF replVars, ReplTypeOK, WriteSeen, MasterRuns, ReadsItsWrite
<1> QED
    BY <1>1, <1>2, <1>3, <1>4 DEF ReplNext

-----------------------------------------------------------------------------

\* A written row is never lost between the transaction and the master, and nobody who
\* asked for the master is on the way to a replica (query_builder.ts getSqlDataSource()
\* and executeOnSlave()).
THEOREM ReplicationInvariant == ReplSpec => []ReplInv
BY ReplInitially, ReplSteps, PTL DEF ReplSpec

\* Whoever the master answers sees its own row, and who asks for the master gets it
\* (rawQuery() and executeOnSlave(), with the fallback of onSlaveServerFailure).
THEOREM MasterAnswersWrites == ReplSpec => []ReadsItsWrite
BY ReplicationInvariant, PTL DEF ReplInv

-----------------------------------------------------------------------------
(* The stream settles.                                                     *)

Passed == {written[i] : i \in 1..Len(written)}

StreamTypeOK ==
  /\ driver \in {"mysql", "postgres", "sqlite", "mssql", "oracledb"}
  /\ holder \in {"none", "stream", "transaction", "free", "other"}
  /\ given \in 0..RowCount /\ inData \subseteq 1..given
  /\ hasError \in BOOLEAN /\ ended \in BOOLEAN
  /\ written \in Seq(Nat)

\* What is given back is not taken back, and only drivers that lend have something.
GivenBack ==
  /\ returned => holder # "stream"
  /\ ~Borrows => holder = "none"
  /\ driver = "postgres" => taken = "none"

\* Rows that are not in onData any more were passed on, once.
RowsInOrder ==
  /\ ~hasError => pending = Cardinality(inData)
  /\ out = "open" => /\ Passed = (1..given) \ inData
                     /\ Len(written) = given - Cardinality(inData)
  /\ out = "ended" => Passed = 1..RowCount /\ Len(written) = RowCount

\* The end and the errors of the source.
Over ==
  /\ source = "ended" => ended
  /\ source = "failed" => hasError
  /\ ended => given = RowCount
  /\ hasError => out # "open" /\ holder # "stream"
  /\ ended /\ ~hasError /\ inData = {} => out # "open" /\ holder # "stream"

StreamInv == StreamTypeOK /\ GivenBack /\ RowsInOrder /\ Over

-----------------------------------------------------------------------------

\* What onData has is finite.
LEMMA InDataFinite ==
  ASSUME StreamTypeOK
  PROVE  IsFiniteSet(inData) /\ Cardinality(inData) \in Nat
<1>1. given \in Nat
    BY StreamingAssumption DEF StreamTypeOK
<1>2. IsFiniteSet(1..given)
    BY <1>1, FS_Interval
<1>3. IsFiniteSet(inData)
    BY <1>2, FS_Subset DEF StreamTypeOK
<1> QED
    BY <1>3, FS_CardinalityType

\* What tryRelease() does, whoever has the connection.
LEMMA Released ==
  ASSUME StreamTypeOK, GivenBack, TryRelease, driver' = driver
  PROVE  holder' # "stream" /\ holder' \in {"none", "stream", "transaction", "free", "other"} /\ GivenBack'
<1>1. CASE driver = "mysql"
    BY <1>1 DEF TryRelease, GivenBack, StreamTypeOK, Borrows
<1>2. CASE driver = "postgres"
    BY <1>2 DEF TryRelease, GivenBack, StreamTypeOK, Borrows
<1>3. CASE driver = "oracledb"
    BY <1>3 DEF TryRelease, GivenBack, StreamTypeOK, Borrows
<1>4. CASE driver \in {"sqlite", "mssql"}
    BY <1>4 DEF TryRelease, GivenBack, StreamTypeOK, Borrows
<1> QED
    BY <1>1, <1>2, <1>3, <1>4 DEF StreamTypeOK

\* What is kept stays as it is.
LEMMA Kept ==
  ASSUME StreamTypeOK, GivenBack, Keeps, driver' = driver
  PROVE  holder' = holder /\ GivenBack'
BY DEF Keeps, GivenBack, Borrows

\* A row that is passed on is the last of those that were.
LEMMA RowWritten ==
  ASSUME StreamTypeOK, NEW n \in Nat, Writes(n), out = "open"
  PROVE  /\ written' \in Seq(Nat) /\ Len(written') = Len(written) + 1
         /\ Passed' = Passed \cup {n}
<1>1. written' = Append(written, n) /\ written \in Seq(Nat)
    BY DEF Writes, StreamTypeOK
<1>2. /\ written' \in Seq(Nat) /\ Len(written') = Len(written) + 1 /\ Len(written) \in Nat
      /\ \A i \in 1..Len(written) : written'[i] = written[i]
      /\ written'[Len(written) + 1] = n
    BY <1>1, AppendProperties
<1>3. Passed' = Passed \cup {n}
    BY <1>2 DEF Passed
<1> QED
    BY <1>2, <1>3

-----------------------------------------------------------------------------

LEMMA StreamInitially == StreamInit => StreamInv
<1> SUFFICES ASSUME StreamInit PROVE StreamInv
    OBVIOUS
<1>1. StreamTypeOK
  <2>1. driver \in {"mysql", "postgres", "sqlite", "mssql", "oracledb"}
      BY StreamingAssumption DEF StreamInit
  <2>2. holder \in {"none", "stream", "transaction", "free", "other"}
      BY DEF StreamInit
  <2>3. given \in 0..RowCount /\ inData \subseteq 1..given
      BY StreamingAssumption DEF StreamInit
  <2>4. hasError \in BOOLEAN /\ ended \in BOOLEAN
      BY Zenon DEF StreamInit
  <2>5. written \in Seq(Nat)
    <3>1. written = <<>>
        BY DEF StreamInit
    <3>2. <<>> \in Seq(Nat)
        OBVIOUS
    <3> QED
        BY <3>1, <3>2, Zenon
  <2> QED
      BY <2>1, <2>2, <2>3, <2>4, <2>5 DEF StreamTypeOK
<1>2. GivenBack
    BY DEF StreamInit, GivenBack, Borrows
<1>3. Passed = {} /\ Len(written) = 0
    BY DEF StreamInit, Passed
<1>4. RowsInOrder
    BY <1>3, FS_EmptySet DEF StreamInit, RowsInOrder
<1>5. Over
    BY DEF StreamInit, Over
<1> QED
    BY <1>1, <1>2, <1>4, <1>5 DEF StreamInv

\* A row of the source.
LEMMA DataKeepsIt == StreamInv /\ Data => StreamInv'
<1> SUFFICES ASSUME StreamInv, Data PROVE StreamInv'
    OBVIOUS
<1> USE DEF StreamInv
<1>1. /\ given \in Nat /\ RowCount \in Nat /\ given < RowCount /\ given' = given + 1
      /\ UNCHANGED <<driver, holder, source, ended, hasError, out, returned, taken>>
    BY StreamingAssumption DEF Data, StreamTypeOK
<1>2. IsFiniteSet(inData) /\ Cardinality(inData) \in Nat
    BY InDataFinite
<1>3. ~ended
    BY <1>1 DEF Over
<1>4. GivenBack' /\ Over'
    BY <1>1, <1>3 DEF GivenBack, Borrows, Over
<1>5. CASE inData' = inData \cup {given'} /\ pending' = pending + 1 /\ UNCHANGED written
  <2>1. given' \notin inData /\ inData' \subseteq 1..given'
      BY <1>1, <1>5 DEF StreamTypeOK
  <2>2. Cardinality(inData') = Cardinality(inData) + 1
      BY <1>2, <1>5, <2>1, FS_AddElement
  <2>3. (1..given') \ inData' = (1..given) \ inData
      BY <1>1, <1>5, <2>1
  <2>4. RowsInOrder'
      BY <1>1, <1>2, <1>5, <2>2, <2>3 DEF RowsInOrder, Passed
  <2>5. StreamTypeOK'
      BY <1>1, <1>5, <2>1 DEF StreamTypeOK
  <2> QED
      BY <1>4, <2>4, <2>5
<1>6. CASE Writes(given') /\ UNCHANGED <<inData, pending>>
  <2>1. (1..given') \ inData = ((1..given) \ inData) \cup {given'}
      BY <1>1 DEF StreamTypeOK
  <2>2. CASE out = "open"
    <3>1. /\ written' \in Seq(Nat) /\ Len(written') = Len(written) + 1
          /\ Passed' = Passed \cup {given'}
        BY <1>1, <1>6, <2>2, RowWritten
    <3>2. RowsInOrder'
        BY <1>1, <1>2, <1>6, <2>1, <2>2, <3>1 DEF RowsInOrder
    <3>3. StreamTypeOK'
        BY <1>1, <1>6, <3>1 DEF StreamTypeOK
    <3> QED
        BY <1>4, <3>2, <3>3
  <2>3. CASE out # "open"
    <3>1. UNCHANGED written
        BY <1>6, <2>3 DEF Writes
    <3>2. RowsInOrder' /\ StreamTypeOK'
        BY <1>1, <1>6, <2>3, <3>1 DEF RowsInOrder, StreamTypeOK, Passed
    <3> QED
        BY <1>4, <3>2
  <2> QED
      BY <2>2, <2>3
<1>7. CASE hasError /\ UNCHANGED <<written, inData, pending>>
    BY <1>1, <1>4, <1>7 DEF RowsInOrder, StreamTypeOK, Passed, Over
<1> QED
    BY <1>5, <1>6, <1>7 DEF Data

\* onData settles a row, and the stream may be over.
LEMMA ResolveKeepsIt == \A n \in 1..RowCount : StreamInv /\ Resolve(n) => StreamInv'
<1> SUFFICES ASSUME NEW n \in 1..RowCount, StreamInv, Resolve(n) PROVE StreamInv'
    OBVIOUS
<1> USE DEF StreamInv
<1>1. /\ n \in inData /\ inData' = inData \ {n} /\ pending' = pending - 1
      /\ Writes(n) /\ Finish(ended, pending') /\ n \in Nat /\ given \in Nat
      /\ UNCHANGED <<driver, source, given, ended, hasError>>
    BY StreamingAssumption DEF Resolve, StreamTypeOK
<1>2. IsFiniteSet(inData) /\ Cardinality(inData) \in Nat
    BY InDataFinite
<1>3. /\ Cardinality(inData') = Cardinality(inData) - 1
      /\ Cardinality(inData') = 0 <=> inData' = {}
    BY <1>1, <1>2, FS_RemoveElement, FS_EmptySet
<1>4. (1..given) \ inData' = ((1..given) \ inData) \cup {n}
    BY <1>1 DEF StreamTypeOK
<1>5. /\ written' \in Seq(Nat)
      /\ out = "open" => /\ Passed' = (1..given) \ inData'
                         /\ Len(written') = given - Cardinality(inData')
      /\ out # "open" => written' = written /\ Passed' = Passed
  <2>1. CASE out = "open"
      BY <1>1, <1>2, <1>3, <1>4, <2>1, RowWritten DEF RowsInOrder
  <2>2. CASE out # "open"
      BY <1>1, <2>2 DEF Writes, StreamTypeOK, Passed
  <2> QED
      BY <2>1, <2>2
<1>6. CASE ended /\ pending' = 0 /\ ~hasError
  <2>1. TryRelease /\ out' = (IF out = "open" THEN "ended" ELSE out)
      BY <1>1, <1>6 DEF Finish
  <2>2. holder' # "stream" /\ holder' \in {"none", "stream", "transaction", "free", "other"} /\ GivenBack'
      BY <1>1, <2>1, Released
  <2>3. pending' = Cardinality(inData') /\ inData' = {} /\ given = RowCount
      BY <1>1, <1>2, <1>3, <1>6 DEF RowsInOrder, Over
  <2>4. StreamTypeOK'
      BY <1>1, <1>5, <2>2 DEF StreamTypeOK
  <2>5. RowsInOrder'
    <3>1. out = "open" => Passed' = 1..RowCount /\ Len(written') = RowCount
      <4> SUFFICES ASSUME out = "open" PROVE Passed' = 1..RowCount /\ Len(written') = RowCount
          OBVIOUS
      <4>1. Passed' = (1..given) \ inData' /\ Len(written') = given - Cardinality(inData')
          BY <1>5
      <4>2. (1..given) \ inData' = 1..RowCount
          BY <2>3
      <4>3. given - Cardinality(inData') = RowCount
        <5>1. Cardinality(inData') = 0 /\ given \in Nat /\ given = RowCount
            BY <1>1, <1>3, <2>3
        <5> QED
            BY <5>1
      <4> QED
          BY <4>1, <4>2, <4>3
    <3>2. out = "ended" => Passed' = 1..RowCount /\ Len(written') = RowCount
        BY <1>5 DEF RowsInOrder
    <3>3. out' = "ended" => out \in {"open", "ended"}
        BY <2>1
    <3> QED
        BY <1>1, <2>1, <2>3, <3>1, <3>2, <3>3 DEF RowsInOrder
  <2>6. Over'
      BY <1>1, <1>6, <2>1, <2>2 DEF Over
  <2> QED
      BY <2>2, <2>4, <2>5, <2>6
<1>7. CASE ~(ended /\ pending' = 0 /\ ~hasError)
  <2>1. Keeps /\ UNCHANGED out
      BY <1>1, <1>7 DEF Finish
  <2>2. holder' = holder /\ GivenBack'
      BY <1>1, <2>1, Kept
  <2>3. ~hasError => pending' = Cardinality(inData')
      BY <1>1, <1>2, <1>3 DEF RowsInOrder
  <2>4. StreamTypeOK'
      BY <1>1, <1>5, <2>2 DEF StreamTypeOK
  <2>5. RowsInOrder'
      BY <1>1, <1>5, <2>1, <2>3 DEF RowsInOrder
  <2>6. Over'
      BY <1>1, <1>3, <1>7, <2>1, <2>2, <2>3 DEF Over
  <2> QED
      BY <2>2, <2>4, <2>5, <2>6
<1> QED
    BY <1>6, <1>7

\* onData or the source fails: the caller's stream is destroyed.
LEMMA FailuresKeepIt ==
  ASSUME StreamInv, Destroys,
         UNCHANGED <<driver, given, ended, written>>, inData' \subseteq inData,
         source' = source \/ source' = "failed"
  PROVE  StreamInv'
<1> USE DEF StreamInv
<1>1. hasError' = TRUE /\ TryRelease /\ out' # "open" /\ (out' = "ended" => out = "ended")
    BY DEF Destroys
<1>2. holder' # "stream" /\ holder' \in {"none", "stream", "transaction", "free", "other"} /\ GivenBack'
    BY <1>1, Released
<1>3. StreamTypeOK'
    BY <1>1, <1>2 DEF StreamTypeOK
<1>4. RowsInOrder'
    BY <1>1 DEF RowsInOrder, Passed
<1>5. Over'
    BY <1>1, <1>2 DEF Over
<1> QED
    BY <1>2, <1>3, <1>4, <1>5

\* Every step keeps the invariant.
LEMMA StreamSteps == StreamInv /\ [StreamNext]_streamVars => StreamInv'
<1> SUFFICES ASSUME StreamInv, [StreamNext]_streamVars PROVE StreamInv'
    OBVIOUS
<1> USE DEF StreamInv
<1>1. CASE Open
  <2>1. /\ UNCHANGED <<driver, holder, given, inData, pending, ended, hasError, written, returned, taken>>
        /\ source' \notin {"ended", "failed"} /\ out' \in {out, "destroyed"}
      BY <1>1 DEF Open
  <2> QED
      BY <2>1 DEF StreamTypeOK, GivenBack, Borrows, RowsInOrder, Passed, Over
<1>2. CASE Data
    BY <1>2, DataKeepsIt
<1>3. CASE End
  <2>1. /\ given = RowCount /\ source' = "ended" /\ ended' = TRUE /\ Finish(TRUE, pending)
        /\ UNCHANGED <<driver, given, inData, pending, hasError, written>>
      BY <1>3 DEF End
  <2>2. IsFiniteSet(inData) /\ Cardinality(inData) \in Nat /\ (Cardinality(inData) = 0 <=> inData = {})
      BY InDataFinite, FS_EmptySet
  <2>3. CASE pending = 0 /\ ~hasError
    <3>1. TryRelease /\ out' = (IF out = "open" THEN "ended" ELSE out)
        BY <2>1, <2>3 DEF Finish
    <3>2. holder' # "stream" /\ holder' \in {"none", "stream", "transaction", "free", "other"} /\ GivenBack'
        BY <2>1, <3>1, Released
    <3>3. inData = {} /\ Cardinality(inData) = 0
        BY <2>2, <2>3 DEF RowsInOrder
    <3>4. given \in Nat /\ Passed' = Passed
        BY <2>1, StreamingAssumption DEF StreamTypeOK, Passed
    <3>5. StreamTypeOK' /\ Over'
        BY <2>1, <2>3, <3>1, <3>2 DEF StreamTypeOK, Over
    <3>6. RowsInOrder'
        BY <2>1, <3>1, <3>3, <3>4 DEF RowsInOrder
    <3> QED
        BY <3>2, <3>5, <3>6
  <2>4. CASE ~(pending = 0 /\ ~hasError)
    <3>1. Keeps /\ UNCHANGED out
        BY <2>1, <2>4 DEF Finish
    <3>2. holder' = holder /\ GivenBack'
        BY <2>1, <3>1, Kept
    <3>3. StreamTypeOK' /\ RowsInOrder'
        BY <2>1, <3>1, <3>2 DEF StreamTypeOK, RowsInOrder, Passed
    <3>4. Over'
        BY <2>1, <2>2, <2>4, <3>1, <3>2 DEF Over, RowsInOrder
    <3> QED
        BY <3>2, <3>3, <3>4
  <2> QED
      BY <2>3, <2>4
<1>4. CASE Fail
    BY <1>4, FailuresKeepIt DEF Fail
<1>5. CASE Leave
    BY <1>5 DEF Leave, StreamTypeOK, GivenBack, Borrows, RowsInOrder, Passed, Over
<1>6. CASE Close
  <2>1. TryRelease /\ UNCHANGED <<driver, source, given, inData, pending, ended, hasError, written, out>>
      BY <1>6 DEF Close
  <2>2. holder' # "stream" /\ holder' \in {"none", "stream", "transaction", "free", "other"} /\ GivenBack'
      BY <2>1, Released
  <2> QED
      BY <2>1, <2>2 DEF StreamTypeOK, RowsInOrder, Passed, Over
<1>7. CASE Another
  <2>1. /\ UNCHANGED <<driver, source, given, inData, pending, ended, hasError, written, out, returned, taken>>
        /\ holder \in {"free", "other"} /\ holder' \in {"free", "other"}
      BY <1>7 DEF Another
  <2> QED
      BY <2>1 DEF StreamTypeOK, GivenBack, Borrows, RowsInOrder, Passed, Over
<1>8. ASSUME NEW n \in 1..RowCount, Resolve(n) PROVE StreamInv'
    BY <1>8, ResolveKeepsIt
<1>9. ASSUME NEW n \in 1..RowCount, Reject(n) PROVE StreamInv'
    BY <1>9, FailuresKeepIt DEF Reject
<1>10. CASE UNCHANGED streamVars
    BY <1>10 DEF streamVars, StreamTypeOK, GivenBack, Borrows, RowsInOrder, Passed, Over
<1> QED
    BY <1>1, <1>2, <1>3, <1>4, <1>5, <1>6, <1>7, <1>8, <1>9, <1>10 DEF StreamNext

-----------------------------------------------------------------------------

\* The rows, the counter of those in onData, the end, the errors and the connection
\* agree at every step (execSqlStreaming(), sql_runner.ts).
THEOREM StreamInvariant == StreamSpec => []StreamInv
BY StreamInitially, StreamSteps, PTL DEF StreamSpec

\* A stream that ended passed every row on, once, and one that has nothing left is
\* over and has given its connection back; postgres never gives a transaction's away
\* (tryRelease() and the end, error and data handlers of the five drivers).
THEOREM StreamAlwaysSettles == StreamSpec => []StreamSettles
<1>1. StreamInv => StreamSettles
    BY DEF StreamInv, StreamSettles, GivenBack, RowsInOrder, Over, Passed, StreamTypeOK
<1> QED
    BY <1>1, StreamInvariant, PTL

-----------------------------------------------------------------------------
(* Counting up.                                                            *)

\* What holds of 0 and of the number after each holds of all.
LEMMA UpTo ==
  ASSUME NEW N \in Nat, NEW T, 0 \in T, \A n \in 0..N : n \in T /\ n # N => n + 1 \in T
  PROVE  \A n \in 0..N : n \in T
<1> DEFINE rest == {n \in 0..N : n \notin T}
<1> SUFFICES ASSUME rest # {} PROVE FALSE
    OBVIOUS
<1>1. rest \subseteq Nat
    OBVIOUS
<1> HIDE DEF rest
<1>2. PICK n \in rest : \A m \in rest : ~ (<<m, n>> \in OpToRel(<, Nat))
    BY <1>1, WFMin, NatLessThanWellFounded, Zenon
<1>3. \A m \in rest : ~(m < n)
    BY <1>1, <1>2 DEF OpToRel
<1>4. n \in 0..N /\ n # 0 /\ n \notin T
    BY <1>2 DEF rest
<1>5. n - 1 \in 0..N /\ n - 1 \in T
    BY <1>3, <1>4 DEF rest
<1> QED
    BY <1>4, <1>5

-----------------------------------------------------------------------------
(* Writes: an upsert, row by row.                                          *)

ModelRow == [a : Nat, b : Nat, v : Nat]

\* The states of the table while a statement puts its rows.
Steps(after, t, last, data, columns, chosen) ==
  after = [n \in 0..Len(data) |->
             IF n = 0 THEN [t |-> t, last |-> last, wrote |-> {}]
             ELSE Put(after[n - 1], data[n], columns, chosen)]

LEMMA StepsExist ==
  ASSUME NEW t, NEW last, NEW data, NEW columns, NEW chosen, Len(data) \in Nat
  PROVE  \E after : /\ Steps(after, t, last, data, columns, chosen)
                    /\ PutAll(t, last, data, columns, chosen) = after[Len(data)]
<1> DEFINE N == Len(data)
           Base == [t |-> t, last |-> last, wrote |-> {}]
           Next(h, n) == Put(h[n - 1], data[n], columns, chosen)
           Upon(h, m) == h = [n \in 0..m |-> IF n = 0 THEN Base ELSE Next(h, n)]
           T == {m \in 0..N : \E h : Upon(h, m)}
<1>1. 0 \in T
  <2>1. Upon([n \in 0..0 |-> Base], 0)
      OBVIOUS
  <2> HIDE DEF Upon
  <2> QED
      BY <2>1
<1>2. ASSUME NEW m \in 0..N, m \in T, m # N PROVE m + 1 \in T
  <2>1. PICK h : Upon(h, m)
      BY <1>2
  <2> DEFINE g == [n \in 0..(m + 1) |-> IF n = m + 1 THEN Next(h, m + 1) ELSE h[n]]
  <2> HIDE DEF Base
  <2>2. \A n \in 0..m : h[n] = IF n = 0 THEN Base ELSE Put(h[n - 1], data[n], columns, chosen)
      BY <2>1
  <2>3. \A n \in 0..m : g[n] = h[n]
      OBVIOUS
  <2>4. g[m + 1] = Put(h[m], data[m + 1], columns, chosen)
      OBVIOUS
  <2>5. \A n \in 1..(m + 1) : n - 1 \in 0..m /\ g[n - 1] = h[n - 1]
      BY <2>3
  <2>6. \A n \in 0..(m + 1) : g[n] = IF n = 0 THEN Base ELSE Put(g[n - 1], data[n], columns, chosen)
    <3> SUFFICES ASSUME NEW n \in 0..(m + 1)
                 PROVE  g[n] = IF n = 0 THEN Base ELSE Put(g[n - 1], data[n], columns, chosen)
        OBVIOUS
    <3> HIDE DEF g
    <3>1. CASE n = m + 1
        BY <3>1, <2>4, <2>5
    <3>2. CASE n # m + 1
        BY <3>2, <2>2, <2>3, <2>5
    <3> QED
        BY <3>1, <3>2
  <2>7. g = [n \in 0..(m + 1) |-> g[n]]
      OBVIOUS
  <2>8. Upon(g, m + 1)
    <3> HIDE DEF g
    <3> QED
        BY <2>6, <2>7
  <2>9. \E h1 : Upon(h1, m + 1)
      BY <2>8, Zenon
  <2> HIDE DEF Upon, g
  <2> QED
      BY <2>9, <1>2
<1>3. \E h : Upon(h, N)
  <2> HIDE DEF Upon
  <2>1. \A n \in 0..N : n \in T
    <3> HIDE DEF T
    <3> QED
        BY <1>1, <1>2, UpTo
  <2> QED
      BY <2>1
<1> DEFINE after == CHOOSE h : Upon(h, N)
<1>4. PutAll(t, last, data, columns, chosen) = after[N]
    BY Zenon DEF PutAll
<1>5. Upon(after, N)
  <2> HIDE DEF Upon
  <2> QED
      BY <1>3, Zenon
<1>6. Steps(after, t, last, data, columns, chosen)
    BY <1>5, Zenon DEF Steps
<1> QED
    BY <1>4, <1>6, Zenon

LEMMA SameIsEquivalence ==
  \A x, y, z, columns :
    /\ Same(x, x, columns)
    /\ Same(x, y, columns) => Same(y, x, columns)
    /\ Same(x, y, columns) /\ Same(y, z, columns) => Same(x, z, columns)
<1> SUFFICES ASSUME NEW x, NEW y, NEW z, NEW columns
             PROVE  /\ Same(x, x, columns)
                    /\ Same(x, y, columns) => Same(y, x, columns)
                    /\ Same(x, y, columns) /\ Same(y, z, columns) => Same(x, z, columns)
    BY Zenon
<1>1. Same(x, x, columns)
    BY DEF Same
<1>2. Same(x, y, columns) => Same(y, x, columns)
    BY DEF Same
<1>3. Same(x, y, columns) /\ Same(y, z, columns) => Same(x, z, columns)
    BY DEF Same
<1> QED
    BY <1>1, <1>2, <1>3

\* After n rows nobody's unique columns have changed, the rows written are of the models
\* put, and every model has a row; with as many rows written as put, one that was written.
Counted(s, n, t, last, data, columns, chosen) ==
  /\ s.t \in [DOMAIN s.t -> ModelRow] /\ s.last \in Nat /\ last <= s.last
  /\ DOMAIN t \subseteq DOMAIN s.t /\ DOMAIN s.t \subseteq DOMAIN t \cup (last + 1)..s.last
  /\ \A id \in DOMAIN t : Same(s.t[id], t[id], columns)
  /\ s.wrote \subseteq DOMAIN s.t
  /\ \A id \in s.wrote : \E i \in 1..n : Same(s.t[id], data[i], columns)
  /\ \A i \in 1..n : \E id \in DOMAIN s.t : Same(s.t[id], data[i], columns)
  /\ chosen # {} => \A i \in 1..n : \E id \in s.wrote : Same(s.t[id], data[i], columns)
  /\ chosen = {} =>
       /\ IsFiniteSet(s.wrote) /\ Cardinality(s.wrote) <= n
       /\ Cardinality(s.wrote) = n =>
            \A i \in 1..n : \E id \in s.wrote : Same(s.t[id], data[i], columns)

LEMMA PutCounts ==
  ASSUME NEW t, NEW last \in Nat, DOMAIN t \subseteq 1..last, NEW data, NEW columns \in Seq(Columns),
         NEW chosen, NEW n \in Nat, data[n + 1] \in ModelRow,
         NEW s, Counted(s, n, t, last, data, columns, chosen)
  PROVE  Counted(Put(s, data[n + 1], columns, chosen), n + 1, t, last, data, columns, chosen)
<1> DEFINE row == data[n + 1]
           against == Against(row, s.t, columns)
           ids == IF against = {} THEN {s.last + 1} ELSE IF chosen # {} THEN against ELSE {}
           new(id) == IF against = {} THEN row
                      ELSE [x \in DOMAIN row |-> IF x \in chosen THEN row[x] ELSE s.t[id][x]]
           rt == [id \in DOMAIN s.t \cup ids |-> IF id \in ids THEN new(id) ELSE s.t[id]]
           rlast == IF against = {} THEN s.last + 1 ELSE s.last
           r == [t |-> rt, last |-> rlast, wrote |-> s.wrote \cup ids]
<1>0. PICK q : q = Put(s, row, columns, chosen)
    OBVIOUS
<1>1. q.t = rt /\ q.last = rlast /\ q.wrote = s.wrote \cup ids
    BY <1>0, Zenon DEF Put
<1>2. /\ s.t \in [DOMAIN s.t -> ModelRow] /\ s.last \in Nat /\ last <= s.last
      /\ DOMAIN t \subseteq DOMAIN s.t /\ DOMAIN s.t \subseteq DOMAIN t \cup (last + 1)..s.last
      /\ \A id \in DOMAIN t : Same(s.t[id], t[id], columns)
      /\ s.wrote \subseteq DOMAIN s.t
    BY DEF Counted
<1>3. /\ against \subseteq DOMAIN s.t
      /\ \A id \in against : Same(s.t[id], row, columns)
    BY DEF Against
<1>4. s.last + 1 \notin DOMAIN s.t
    BY <1>2
<1>5. /\ DOMAIN q.t = DOMAIN s.t \cup ids
      /\ \A id \in ids : q.t[id] = new(id)
      /\ \A id \in DOMAIN s.t \ ids : q.t[id] = s.t[id]
  <2> HIDE DEF row, ids, new
  <2> QED
      BY <1>1
<1>a. /\ row \in ModelRow /\ \A x : x \in DOMAIN row <=> x \in {"a", "b", "v"}
      /\ \A i \in DOMAIN columns : columns[i] \in DOMAIN row
  <2>1. \A x : x \in DOMAIN row <=> x \in {"a", "b", "v"}
      BY DEF ModelRow
  <2>2. \A i \in DOMAIN columns : columns[i] \in {"a", "b"}
      BY DEF Columns
  <2> QED
      BY <2>1, <2>2
<1>b. ASSUME NEW id \in against, against # {}
      PROVE  new(id) \in ModelRow /\ Same(new(id), row, columns)
  <2>1. id \in DOMAIN s.t /\ s.t[id] \in ModelRow /\ Same(s.t[id], row, columns)
      BY <1>b, <1>2, <1>3
  <2>2. PICK new2 : new2 = new(id)
      OBVIOUS
  <2>3. new2 = [x \in DOMAIN row |-> IF x \in chosen THEN row[x] ELSE s.t[id][x]]
      BY <2>2, <1>b
  <2>4. \A x \in DOMAIN row : new2[x] = row[x] \/ new2[x] = s.t[id][x]
    <3> HIDE DEF row
    <3> QED
        BY <2>3
  <2>5. DOMAIN row = {"a", "b", "v"}
      BY <1>a
  <2>6. row.a \in Nat /\ row.b \in Nat /\ row.v \in Nat /\ s.t[id].a \in Nat /\ s.t[id].b \in Nat /\ s.t[id].v \in Nat
      BY <1>a, <2>1 DEF ModelRow
  <2> HIDE DEF row, against, new
  <2>7. new2 = [x \in {"a", "b", "v"} |-> new2[x]]
      BY <2>3, <2>5
  <2>8. new2["a"] \in Nat /\ new2["b"] \in Nat /\ new2["v"] \in Nat
      BY <2>4, <2>5, <2>6
  <2>9. new2 \in ModelRow
      BY <2>7, <2>8 DEF ModelRow
  <2>10. Same(new2, row, columns)
      BY <2>1, <2>4, <1>a DEF Same
  <2> QED
      BY <2>2, <2>9, <2>10
<1>c. ASSUME NEW id \in ids
      PROVE  q.t[id] \in ModelRow /\ Same(q.t[id], row, columns)
  <2>1. CASE against = {}
    <3>1. new(id) = row
        BY <2>1
    <3> HIDE DEF row, ids, new, against
    <3> QED
        BY <3>1, <1>c, <1>5, <1>a, SameIsEquivalence
  <2>2. CASE against # {}
    <3>1. id \in against
        BY <2>2, <1>c
    <3> HIDE DEF row, ids, new, against
    <3> QED
        BY <3>1, <2>2, <1>b, <1>c, <1>5
  <2> QED
      BY <2>1, <2>2
<1> HIDE DEF new
<1>6. \A id \in DOMAIN s.t : Same(q.t[id], s.t[id], columns)
  <2> SUFFICES ASSUME NEW id \in DOMAIN s.t PROVE Same(q.t[id], s.t[id], columns)
      OBVIOUS
  <2>1. CASE id \in ids
    <3>1. id \in against
        BY <2>1, <1>4
    <3> HIDE DEF row, ids, against
    <3> QED
        BY <2>1, <3>1, <1>3, <1>c, SameIsEquivalence
  <2>2. CASE id \notin ids
    <3> HIDE DEF row, ids, against
    <3> QED
        BY <2>2, <1>5, SameIsEquivalence
  <2> QED
      BY <2>1, <2>2
<1>7. /\ against = {} => (ids = {s.last + 1} /\ s.last + 1 \in DOMAIN q.t /\ Same(q.t[s.last + 1], row, columns))
      /\ against # {} => \E id \in against : id \in DOMAIN q.t /\ Same(q.t[id], row, columns)
  <2>1. ASSUME against = {}
        PROVE  ids = {s.last + 1} /\ s.last + 1 \in DOMAIN q.t /\ Same(q.t[s.last + 1], row, columns)
    <3>1. ids = {s.last + 1}
        BY <2>1
    <3> HIDE DEF row, ids, against
    <3> QED
        BY <3>1, <1>5, <1>c
  <2>2. ASSUME against # {}
        PROVE  \E id \in against : id \in DOMAIN q.t /\ Same(q.t[id], row, columns)
    <3> HIDE DEF row, ids, against
    <3>1. PICK id \in against : Same(s.t[id], row, columns) /\ id \in DOMAIN s.t
        BY <2>2, <1>3
    <3> QED
        BY <3>1, <1>5, <1>6, SameIsEquivalence
  <2> QED
      BY <2>1, <2>2
<1> HIDE DEF row, against
<1>8. \A id \in ids : q.t[id] \in ModelRow
    BY <1>c
<1>9. /\ q.t \in [DOMAIN q.t -> ModelRow] /\ q.last \in Nat /\ last <= q.last
      /\ DOMAIN t \subseteq DOMAIN q.t /\ DOMAIN q.t \subseteq DOMAIN t \cup (last + 1)..q.last
  <2>1. \A id \in DOMAIN q.t : q.t[id] \in ModelRow
    <3> HIDE DEF ids
    <3> QED
        BY <1>5, <1>8, <1>2
  <2>2. q.t = [id \in DOMAIN q.t |-> q.t[id]]
    <3> HIDE DEF ids
    <3> QED
        BY <1>1
  <2>3. q.last \in Nat /\ s.last <= q.last /\ last <= q.last
      BY <1>1, <1>2
  <2>4. ids \subseteq DOMAIN s.t \cup (last + 1)..q.last
    <3>1. CASE against = {}
      <4>1. q.last = s.last + 1 /\ ids = {s.last + 1}
          BY <1>1, <3>1
      <4> QED
          BY <4>1, <1>2
    <3>2. CASE against # {}
        BY <3>2, <1>3
    <3> QED
        BY <3>1, <3>2
  <2> HIDE DEF ids
  <2>5. DOMAIN t \subseteq DOMAIN q.t
      BY <1>5, <1>2
  <2>6. (last + 1)..s.last \subseteq (last + 1)..q.last
      BY <2>3, <1>2
  <2>7. DOMAIN q.t \subseteq DOMAIN t \cup (last + 1)..q.last
      BY <1>5, <1>2, <2>4, <2>6, Zenon
  <2>8. q.t \in [DOMAIN q.t -> ModelRow]
      BY <2>1, <2>2
  <2> QED
      BY <2>3, <2>5, <2>7, <2>8
<1>10. \A id \in DOMAIN t : Same(q.t[id], t[id], columns)
  <2> HIDE DEF ids
  <2> QED
      BY <1>2, <1>6, SameIsEquivalence
<1>11. q.wrote \subseteq DOMAIN q.t
  <2> HIDE DEF ids
  <2> QED
      BY <1>1, <1>2, <1>5
<1>12. \A id \in q.wrote : \E i \in 1..(n + 1) : Same(q.t[id], data[i], columns)
  <2> SUFFICES ASSUME NEW id \in q.wrote PROVE \E i \in 1..(n + 1) : Same(q.t[id], data[i], columns)
      OBVIOUS
  <2> HIDE DEF ids
  <2>1. CASE id \in ids
    <3>1. Same(q.t[id], data[n + 1], columns) /\ n + 1 \in 1..(n + 1)
        BY <2>1, <1>c DEF row
    <3> QED
        BY <3>1
  <2>2. CASE id \in s.wrote
    <3>1. PICK i \in 1..n : Same(s.t[id], data[i], columns)
        BY <2>2 DEF Counted
    <3>2. i \in 1..(n + 1) /\ Same(q.t[id], s.t[id], columns)
        BY <2>2, <1>2, <1>6
    <3> QED
        BY <3>1, <3>2, SameIsEquivalence
  <2> QED
      BY <2>1, <2>2, <1>1
<1>13. \A i \in 1..(n + 1) : i = n + 1 \/ i \in 1..n
    OBVIOUS
<1>14. \A i \in 1..(n + 1) : \E id \in DOMAIN q.t : Same(q.t[id], data[i], columns)
  <2> SUFFICES ASSUME NEW i \in 1..(n + 1) PROVE \E id \in DOMAIN q.t : Same(q.t[id], data[i], columns)
      OBVIOUS
  <2> HIDE DEF ids
  <2>1. CASE i = n + 1
      BY <2>1, <1>7, SameIsEquivalence DEF row
  <2>2. CASE i \in 1..n
    <3>1. PICK id \in DOMAIN s.t : Same(s.t[id], data[i], columns)
        BY <2>2 DEF Counted
    <3> QED
        BY <3>1, <1>5, <1>6, SameIsEquivalence
  <2> QED
      BY <1>13, <2>1, <2>2
<1>15. ASSUME \A i \in 1..n : \E id \in s.wrote : Same(s.t[id], data[i], columns),
              \E id \in ids : Same(q.t[id], row, columns)
       PROVE  \A i \in 1..(n + 1) : \E id \in q.wrote : Same(q.t[id], data[i], columns)
  <2> SUFFICES ASSUME NEW i \in 1..(n + 1) PROVE \E id \in q.wrote : Same(q.t[id], data[i], columns)
      OBVIOUS
  <2> HIDE DEF ids
  <2>1. CASE i = n + 1
      BY <2>1, <1>15, <1>1 DEF row
  <2>2. CASE i \in 1..n
    <3>1. PICK id \in s.wrote : Same(s.t[id], data[i], columns)
        BY <2>2, <1>15
    <3>2. id \in q.wrote /\ Same(q.t[id], s.t[id], columns)
        BY <1>1, <1>2, <1>6, Zenon
    <3> QED
        BY <3>1, <3>2, SameIsEquivalence, Zenon
  <2> QED
      BY <1>13, <2>1, <2>2
<1>16. ASSUME chosen # {}
       PROVE  \A i \in 1..(n + 1) : \E id \in q.wrote : Same(q.t[id], data[i], columns)
  <2>1. \E id \in ids : Same(q.t[id], row, columns)
    <3>1. CASE against = {}
        BY <3>1, <1>7, SameIsEquivalence
    <3>2. CASE against # {}
      <4>1. ids = against
          BY <3>2, <1>16
      <4> HIDE DEF ids
      <4> QED
          BY <3>2, <4>1, <1>7
    <3> QED
        BY <3>1, <3>2
  <2>2. \A i \in 1..n : \E id \in s.wrote : Same(s.t[id], data[i], columns)
      BY <1>16 DEF Counted
  <2> QED
      BY <1>15, <2>1, <2>2
<1>17. ASSUME chosen = {}
       PROVE  /\ IsFiniteSet(q.wrote) /\ Cardinality(q.wrote) <= n + 1
              /\ Cardinality(q.wrote) = n + 1 =>
                   \A i \in 1..(n + 1) : \E id \in q.wrote : Same(q.t[id], data[i], columns)
  <2>1. /\ IsFiniteSet(s.wrote) /\ Cardinality(s.wrote) <= n
        /\ Cardinality(s.wrote) = n =>
             \A i \in 1..n : \E id \in s.wrote : Same(s.t[id], data[i], columns)
      BY <1>17 DEF Counted
  <2>2. Cardinality(s.wrote) \in Nat
      BY <2>1, FS_CardinalityType
  <2>3. CASE against = {}
    <3>1. ids = {s.last + 1} /\ s.last + 1 \notin s.wrote
        BY <2>3, <1>2, <1>4, Zenon
    <3>2. q.wrote = s.wrote \cup {s.last + 1}
        BY <3>1, <1>1
    <3>3. IsFiniteSet(q.wrote) /\ Cardinality(q.wrote) = Cardinality(s.wrote) + 1
      <4>1. /\ IsFiniteSet(s.wrote \cup {s.last + 1})
            /\ Cardinality(s.wrote \cup {s.last + 1}) =
                 IF s.last + 1 \in s.wrote THEN Cardinality(s.wrote) ELSE Cardinality(s.wrote) + 1
          BY <2>1, FS_AddElement, Zenon
      <4> QED
          BY <3>1, <3>2, <4>1, Zenon
    <3>4. \E id \in ids : Same(q.t[id], row, columns)
        BY <2>3, <1>7, SameIsEquivalence
    <3> HIDE DEF ids
    <3> QED
        BY <2>1, <2>2, <3>3, <3>4, <1>15
  <2>4. CASE against # {}
    <3>1. q.wrote = s.wrote
        BY <2>4, <1>1, <1>17
    <3> QED
        BY <3>1, <2>1, <2>2
  <2> QED
      BY <2>3, <2>4
<1> HIDE DEF ids
<1>18. Counted(q, n + 1, t, last, data, columns, chosen)
    BY <1>9, <1>10, <1>11, <1>12, <1>14, <1>16, <1>17, Zenon DEF Counted
<1> QED
    BY <1>18, <1>0 DEF row

\* What a statement of several rows leaves behind.
LEMMA PutAllCounts ==
  ASSUME NEW t, t \in [DOMAIN t -> ModelRow], NEW last \in Nat, DOMAIN t \subseteq 1..last,
         NEW data \in Seq(ModelRow), NEW columns \in Seq(Columns), NEW chosen
  PROVE  Counted(PutAll(t, last, data, columns, chosen), Len(data), t, last, data, columns, chosen)
<1> DEFINE N == Len(data)
<1>1. N \in Nat /\ \A n \in 0..N : n # N => data[n + 1] \in ModelRow
    OBVIOUS
<1>2. PICK after : /\ Steps(after, t, last, data, columns, chosen)
                   /\ PutAll(t, last, data, columns, chosen) = after[N]
    BY <1>1, StepsExist
<1> DEFINE T == {n \in 0..N : Counted(after[n], n, t, last, data, columns, chosen)}
<1>3. 0 \in T
  <2> DEFINE Base == [t |-> t, last |-> last, wrote |-> {}]
  <2>1. after[0] = Base
      BY <1>1, <1>2 DEF Steps
  <2>2. Base.t = t /\ Base.last = last /\ Base.wrote = {}
      OBVIOUS
  <2>3. IsFiniteSet({}) /\ Cardinality({}) = 0
      BY FS_EmptySet
  <2> HIDE DEF Base
  <2>4. 1..0 = {} /\ last <= last
      OBVIOUS
  <2>5. Counted(Base, 0, t, last, data, columns, chosen)
      BY <2>2, <2>3, <2>4, SameIsEquivalence DEF Counted
  <2> QED
      BY <2>1, <2>5, <1>1
<1>4. ASSUME NEW n \in 0..N, n \in T, n # N PROVE n + 1 \in T
  <2>1. n \in Nat /\ data[n + 1] \in ModelRow /\ n + 1 \in 0..N /\ (n + 1) - 1 = n /\ n + 1 # 0
    <3>1. data[n + 1] \in ModelRow
        BY <1>4, <1>1
    <3>2. n \in Nat /\ n + 1 \in 0..N /\ (n + 1) - 1 = n /\ n + 1 # 0
      <4> HIDE DEF T, N
      <4> QED
          BY <1>4, <1>1
    <3> QED
        BY <3>1, <3>2
  <2>2. after[n + 1] = Put(after[n], data[n + 1], columns, chosen)
      BY <2>1, <1>2 DEF Steps
  <2>3. Counted(after[n], n, t, last, data, columns, chosen)
      BY <1>4
  <2>4. Counted(after[n + 1], n + 1, t, last, data, columns, chosen)
      BY <2>1, <2>2, <2>3, PutCounts
  <2> QED
      BY <2>1, <2>4
<1>5. \A n \in 0..N : n \in T
  <2> HIDE DEF T, N
  <2> QED
      BY <1>1, <1>3, <1>4, UpTo
<1> QED
    BY <1>5, <1>2, <1>1

-----------------------------------------------------------------------------
(* Writes: the table.                                                      *)

\* A row is in the table or was deleted once, under a key that was given out.
TableOK ==
  /\ lastId \in Nat /\ table \in [DOMAIN table -> ModelRow] /\ DOMAIN table \subseteq 1..lastId
  /\ \A x \in gone : x[1] \in 1..lastId /\ x[1] \notin DOMAIN table
  /\ \A x, y \in gone : x[1] = y[1] => x[2] = y[2]

CallsOK ==
  /\ dialect \in Databases /\ index \in Seq(Columns) /\ call \in [Writers -> Calls]
  /\ \A w \in Writers : call[w].name = "upsertMany" => call[w].on = index
  /\ step \in [Writers -> {"find", "write", "read", "failing", "failed", "done", "refetch", "find one"}]
  /\ DOMAIN left = Writers /\ \A w \in Writers : left[w] \subseteq DOMAIN call[w].data
  /\ DOMAIN reading = Writers /\ DOMAIN mine = Writers /\ DOMAIN answer = Writers /\ DOMAIN unseen = Writers

\* The rows that are there or were.
Known == DOMAIN table \cup Deleted

\* What no step of anybody does: a row that was there and is neither there nor deleted,
\* or that has other unique columns now.
RowsKept ==
  /\ Known \subseteq Known' /\ Deleted \subseteq Deleted'
  /\ \A id \in Known : Same(RowOf(id)', RowOf(id), index)
  /\ UNCHANGED <<dialect, index, call>>

LEMMA OneOfAKey ==
  ASSUME NEW g, \A x, y \in g : x[1] = y[1] => x[2] = y[2], NEW x \in g
  PROVE  (CHOOSE z \in g : z[1] = x[1])[2] = x[2]
<1> DEFINE y == CHOOSE z \in g : z[1] = x[1]
<1>1. y \in g /\ y[1] = x[1]
    BY Zenon
<1> HIDE DEF y
<1>2. y[2] = x[2]
    BY <1>1
<1> QED
    BY <1>2, Zenon DEF y

LEMMA RowOfGone ==
  /\ TableOK => \A x \in gone : RowOf(x[1]) = x[2]
  /\ TableOK' => \A x \in gone' : RowOf(x[1])' = x[2]
<1>1. ASSUME TableOK, NEW x \in gone PROVE RowOf(x[1]) = x[2]
  <2>1. x[1] \notin DOMAIN table /\ (CHOOSE z \in gone : z[1] = x[1])[2] = x[2]
      BY <1>1, OneOfAKey DEF TableOK
  <2> QED
      BY <2>1, Zenon DEF RowOf
<1>2. ASSUME TableOK', NEW x \in gone' PROVE RowOf(x[1])' = x[2]
  <2>1. x[1] \notin DOMAIN table' /\ (CHOOSE z \in gone' : z[1] = x[1])[2] = x[2]
      BY <1>2, OneOfAKey DEF TableOK
  <2> QED
      BY <2>1, Zenon DEF RowOf
<1> QED
    BY <1>1, <1>2

\* A step that adds rows and keeps the unique columns of those there.
LEMMA RowsAdded ==
  ASSUME TableOK, UNCHANGED <<dialect, index, call, gone>>,
         lastId' \in Nat, lastId <= lastId', table' \in [DOMAIN table' -> ModelRow],
         DOMAIN table \subseteq DOMAIN table', DOMAIN table' \subseteq DOMAIN table \cup (lastId + 1)..lastId',
         \A id \in DOMAIN table : Same(table'[id], table[id], index)
  PROVE  RowsKept /\ TableOK'
<1>1. TableOK'
  <2>1. lastId \in Nat /\ 1..lastId \subseteq 1..lastId' /\ (lastId + 1)..lastId' \subseteq 1..lastId'
      BY DEF TableOK
  <2>2. DOMAIN table' \subseteq 1..lastId'
      BY <2>1 DEF TableOK
  <2>3. ASSUME NEW x \in gone PROVE x[1] \in 1..lastId' /\ x[1] \notin DOMAIN table'
    <3>1. x[1] \in 1..lastId /\ x[1] \notin DOMAIN table
        BY DEF TableOK
    <3>2. x[1] \notin (lastId + 1)..lastId'
        BY <3>1, <2>1
    <3> QED
        BY <3>1, <3>2, <2>1
  <2> QED
      BY <2>2, <2>3 DEF TableOK
<1>2. Deleted' = Deleted
    BY DEF Deleted
<1>3. ASSUME NEW id \in Known PROVE Same(RowOf(id)', RowOf(id), index)
  <2>1. CASE id \in DOMAIN table
    <3>1. RowOf(id)' = table'[id] /\ RowOf(id) = table[id]
        BY <2>1 DEF RowOf
    <3> QED
        BY <2>1, <3>1
  <2>2. CASE id \in Deleted
    <3>1. PICK x \in gone : x[1] = id
        BY <2>2 DEF Deleted
    <3>2. x \in gone' /\ RowOf(x[1]) = x[2] /\ RowOf(x[1])' = x[2]
        BY <1>1, RowOfGone
    <3> QED
        BY <3>1, <3>2, SameIsEquivalence
  <2> QED
      BY <2>1, <2>2 DEF Known
<1> QED
    BY <1>1, <1>2, <1>3 DEF RowsKept, Known

\* A deleted row keeps its columns.
LEMMA RowsDeleted ==
  ASSUME TableOK, UNCHANGED <<dialect, index, call, lastId>>, NEW id,
         gone' = gone \cup {<<x, table[x]>> : x \in {id} \cap DOMAIN table},
         table' = [x \in DOMAIN table \ {id} |-> table[x]]
  PROVE  RowsKept /\ TableOK'
<1>1. CASE id \notin DOMAIN table
  <2>1. gone' = gone /\ table' = table
      BY <1>1 DEF TableOK
  <2> QED
      BY <2>1, SameIsEquivalence DEF RowsKept, TableOK, Known, Deleted, RowOf
<1>2. CASE id \in DOMAIN table
  <2> DEFINE new == <<id, table[id]>>
  <2>1. gone' = gone \cup {new}
      BY <1>2
  <2>2. /\ DOMAIN table' = DOMAIN table \ {id} /\ \A x \in DOMAIN table' : table'[x] = table[x]
        /\ table' \in [DOMAIN table' -> ModelRow]
      BY DEF TableOK
  <2>3. new[1] = id /\ new[2] = table[id] /\ table[id] \in ModelRow /\ id \in 1..lastId /\ id \notin DOMAIN table'
      BY <1>2, <2>2 DEF TableOK
  <2>4. \A x \in gone : x[1] # id
      BY <1>2 DEF TableOK
  <2> HIDE DEF new
  <2>5. \A x, y \in gone' : x[1] = y[1] => x[2] = y[2]
      BY <2>1, <2>3, <2>4 DEF TableOK
  <2>6. \A x \in gone' : x[1] \in 1..lastId /\ x[1] \notin DOMAIN table'
      BY <2>1, <2>2, <2>3 DEF TableOK
  <2>7. TableOK'
      BY <2>2, <2>5, <2>6 DEF TableOK
  <2>8. \A x : x \in Deleted' <=> (x \in Deleted \/ x = id)
      BY <2>1, <2>3, Zenon DEF Deleted
  <2>9. ASSUME NEW x \in Known PROVE Same(RowOf(x)', RowOf(x), index)
    <3>1. CASE x \in DOMAIN table'
      <4>1. RowOf(x)' = table'[x] /\ RowOf(x) = table[x]
          BY <3>1, <2>2 DEF RowOf
      <4> QED
          BY <4>1, <3>1, <2>2, SameIsEquivalence
    <3>2. CASE x = id
      <4>1. RowOf(x) = table[id]
          BY <3>2, <1>2 DEF RowOf
      <4>2. \A z \in gone' : RowOf(z[1])' = z[2]
          BY <2>7, RowOfGone
      <4>3. PICK z \in gone' : z = new
          BY <2>1
      <4>4. RowOf(z[1])' = z[2] /\ z[1] = x /\ z[2] = table[id]
          BY <4>2, <4>3, <3>2, <2>3
      <4>5. RowOf(x)' = table[id]
          BY <4>4
      <4> QED
          BY <4>1, <4>5, <3>2, SameIsEquivalence
    <3>3. CASE x \in Deleted
      <4>1. PICK y \in gone : y[1] = x
          BY <3>3 DEF Deleted
      <4>2. y \in gone' /\ RowOf(y[1])' = y[2] /\ RowOf(y[1]) = y[2]
          BY <2>1, <2>7, RowOfGone
      <4> QED
          BY <4>1, <4>2, SameIsEquivalence
    <3> QED
        BY <3>1, <3>2, <3>3, <2>2 DEF Known
  <2>10. Known \subseteq Known' /\ Deleted \subseteq Deleted'
      BY <2>2, <2>8 DEF Known
  <2> QED
      BY <2>7, <2>9, <2>10 DEF RowsKept
<1> QED
    BY <1>1, <1>2

\* A new row under the next key, or several.
LEMMA RowsInserted ==
  ASSUME TableOK, UNCHANGED <<dialect, index, call, gone>>, NEW n \in Nat, NEW data,
         \A i \in 1..n : data[i] \in ModelRow, lastId' = lastId + n,
         table' = [id \in DOMAIN table \cup (lastId + 1)..(lastId + n) |->
                     IF id \in (lastId + 1)..(lastId + n) THEN data[id - lastId] ELSE table[id]]
  PROVE  RowsKept /\ TableOK' /\ (lastId + 1)..(lastId + n) \subseteq DOMAIN table'
<1> DEFINE ids == (lastId + 1)..(lastId + n)
<1>1. lastId \in Nat /\ table \in [DOMAIN table -> ModelRow] /\ DOMAIN table \subseteq 1..lastId
    BY DEF TableOK
<1>2. lastId' \in Nat /\ lastId <= lastId'
    BY <1>1
<1>3. \A id \in ids : id - lastId \in 1..n /\ id \notin DOMAIN table
    BY <1>1
<1> HIDE DEF ids
<1>4. /\ DOMAIN table' = DOMAIN table \cup ids
      /\ \A id \in DOMAIN table' : table'[id] \in ModelRow
      /\ \A id \in DOMAIN table : table'[id] = table[id]
      /\ table' = [id \in DOMAIN table' |-> table'[id]]
    BY <1>1, <1>3 DEF ids
<1>5. table' \in [DOMAIN table' -> ModelRow]
    BY <1>4
<1>6. DOMAIN table' \subseteq DOMAIN table \cup (lastId + 1)..lastId'
    BY <1>4 DEF ids
<1>7. \A id \in DOMAIN table : Same(table'[id], table[id], index)
    BY <1>4, SameIsEquivalence
<1>8. DOMAIN table \subseteq DOMAIN table'
    BY <1>4
<1>9. RowsKept /\ TableOK'
    BY <1>2, <1>5, <1>6, <1>7, <1>8, RowsAdded
<1> QED
    BY <1>4, <1>9 DEF ids

-----------------------------------------------------------------------------
(* Writes: the calls.                                                      *)

\* What an insert wrote and nobody deleted it has answered, has still to read or has
\* read without the rows that the hook hides.
InsertAnswers(w) ==
  /\ answer[w] \subseteq mine[w] /\ reading[w] \subseteq mine[w]
  /\ mine[w] \subseteq Deleted \cup answer[w] \cup reading[w] \cup unseen[w]
  /\ step[w] = "done" => reading[w] = {}
  /\ dialect = "mysql" /\ reading[w] # {} => reading[w] = mine[w]

\* Every model of an upsert has a row until it is looked up, whatever others write.
UpsertReaches(w) ==
  /\ call[w].on # <<>>
  /\ \A i \in DOMAIN call[w].data : \E id \in Known : Same(RowOf(id), call[w].data[i], call[w].on)

UpsertAnswers(w) ==
  /\ answer[w] \cup unseen[w] \subseteq Known
  /\ Len(call[w].on) = 1 =>
       \A id \in answer[w] : \E i \in DOMAIN call[w].data : Same(RowOf(id), call[w].data[i], call[w].on)
  /\ ~MergeIgnores(w) \/ (~call[w].update /\ mine[w] = {}) =>
       \A i \in DOMAIN call[w].data :
         \E id \in answer[w] \cup Deleted \cup unseen[w] : Same(RowOf(id), call[w].data[i], call[w].on)

Written(w) ==
  /\ step[w] = "find" => call[w].name = "firstOrInsert"
  /\ step[w] = "find one" => call[w].name = "updateRecord" /\ mine[w] \subseteq {call[w].id}
  /\ step[w] = "refetch" => call[w].name = "upsertMany" /\ UpsertReaches(w)
  /\ step[w] \in {"find", "write"} /\ ~OneByOne(w) =>
       mine[w] = {} /\ answer[w] = {} /\ reading[w] = {} /\ unseen[w] = {}
  /\ call[w].name = "upsertMany" =>
       step[w] \in {"write", "refetch", "done", "failed"} /\ reading[w] = {} /\ (step[w] = "done" => UpsertAnswers(w))
  /\ mine[w] \subseteq Known
  /\ step[w] = "failed" /\ ~OneByOne(w) => mine[w] \subseteq Deleted
  /\ Inserts(w) /\ dialect # "oracledb" => InsertAnswers(w)

WriteInv == TableOK /\ CallsOK /\ \A w \in Writers : Written(w)

\* What was true of a call stays true while others move.
LEMMA WrittenKept ==
  ASSUME CallsOK, RowsKept, NEW v \in Writers, Written(v),
         step'[v] = step[v], mine'[v] = mine[v], answer'[v] = answer[v], reading'[v] = reading[v],
         unseen'[v] = unseen[v]
  PROVE  Written(v)'
<1>1. /\ dialect' = dialect /\ call' = call
      /\ Known \subseteq Known' /\ Deleted \subseteq Deleted'
      /\ \A id \in Known : Same(RowOf(id)', RowOf(id), index)
    BY DEF RowsKept
<1>2. (OneByOne(v) <=> OneByOne(v)') /\ (Inserts(v) <=> Inserts(v)')
    BY <1>1 DEF OneByOne, Inserts
<1>3. ASSUME call[v].name = "upsertMany"
      PROVE  \A id \in Known : \A row : Same(RowOf(id), row, call[v].on) => Same(RowOf(id)', row, call[v].on)
  <2>1. call[v].on = index
      BY <1>3 DEF CallsOK
  <2> QED
      BY <2>1, <1>1, SameIsEquivalence
<1>4. ASSUME call[v].name = "upsertMany", UpsertReaches(v) PROVE UpsertReaches(v)'
  <2> SUFFICES ASSUME NEW i \in DOMAIN call[v].data
               PROVE  \E id \in Known' : Same(RowOf(id)', call[v].data[i], call[v].on)
      BY <1>1, <1>4 DEF UpsertReaches
  <2>1. PICK id \in Known : Same(RowOf(id), call[v].data[i], call[v].on)
      BY <1>4 DEF UpsertReaches
  <2> QED
      BY <2>1, <1>1, <1>3, <1>4
<1>5. ASSUME call[v].name = "upsertMany", UpsertAnswers(v) PROVE UpsertAnswers(v)'
  <2>1. /\ answer'[v] = answer[v] /\ answer[v] \subseteq Known /\ answer[v] \subseteq Known'
        /\ unseen'[v] = unseen[v] /\ unseen[v] \subseteq Known /\ unseen[v] \subseteq Known'
      BY <1>1, <1>5 DEF UpsertAnswers
  <2>2. ASSUME Len(call[v].on) = 1, NEW id \in answer[v]
        PROVE  \E i \in DOMAIN call[v].data : Same(RowOf(id)', call[v].data[i], call[v].on)
    <3>1. PICK i \in DOMAIN call[v].data : Same(RowOf(id), call[v].data[i], call[v].on)
        BY <1>5, <2>2 DEF UpsertAnswers
    <3> QED
        BY <3>1, <2>1, <1>3, <1>5
  <2>3. ASSUME ~MergeIgnores(v) \/ (~call[v].update /\ mine[v] = {}), NEW i \in DOMAIN call[v].data
        PROVE  \E id \in answer[v] \cup Deleted' \cup unseen[v] : Same(RowOf(id)', call[v].data[i], call[v].on)
    <3>1. PICK id \in answer[v] \cup Deleted \cup unseen[v] : Same(RowOf(id), call[v].data[i], call[v].on)
        BY <1>5, <2>3 DEF UpsertAnswers
    <3>2. id \in Known /\ id \in answer[v] \cup Deleted' \cup unseen[v]
        BY <2>1, <1>1 DEF Known
    <3> QED
        BY <3>1, <3>2, <1>3, <1>5
  <2>4. MergeIgnores(v)' <=> MergeIgnores(v)
      BY <1>1 DEF MergeIgnores, Sets
  <2> QED
      BY <2>1, <2>2, <2>3, <2>4, <1>1 DEF UpsertAnswers
<1>6. InsertAnswers(v) => InsertAnswers(v)'
    BY <1>1 DEF InsertAnswers
<1>7. /\ step'[v] = "find" => call'[v].name = "firstOrInsert"
      /\ step'[v] = "find one" => call'[v].name = "updateRecord" /\ mine'[v] \subseteq {call'[v].id}
      /\ mine'[v] \subseteq Known'
    BY <1>1 DEF Written
<1>8. step'[v] = "refetch" => call'[v].name = "upsertMany" /\ UpsertReaches(v)'
    BY <1>1, <1>4 DEF Written
<1>9. step'[v] \in {"find", "write"} /\ ~OneByOne(v)' =>
        mine'[v] = {} /\ answer'[v] = {} /\ reading'[v] = {} /\ unseen'[v] = {}
    BY <1>2 DEF Written
<1>10. call'[v].name = "upsertMany" =>
         /\ step'[v] \in {"write", "refetch", "done", "failed"} /\ reading'[v] = {}
         /\ step'[v] = "done" => UpsertAnswers(v)'
    BY <1>1, <1>5 DEF Written
<1>11. step'[v] = "failed" /\ ~OneByOne(v)' => mine'[v] \subseteq Deleted'
    BY <1>1, <1>2 DEF Written
<1>12. Inserts(v)' /\ dialect' # "oracledb" => InsertAnswers(v)'
    BY <1>1, <1>2, <1>6 DEF Written
<1> QED
    BY <1>7, <1>8, <1>9, <1>10, <1>11, <1>12, Zenon DEF Written

\* So a step of one call is a matter of that call and of the rows.
LEMMA OneMoves ==
  ASSUME WriteInv, NEW w \in Writers, RowsKept, TableOK', CallsOK', Written(w)',
         \A v \in Writers \ {w} : /\ step'[v] = step[v] /\ mine'[v] = mine[v]
                                  /\ answer'[v] = answer[v] /\ reading'[v] = reading[v]
                                  /\ unseen'[v] = unseen[v]
  PROVE  WriteInv'
<1>1. ASSUME NEW v \in Writers, v # w PROVE Written(v)'
    BY <1>1, WrittenKept DEF WriteInv
<1> QED
    BY <1>1 DEF WriteInv

\* A step that leaves the table alone.
LEMMA SameTable ==
  ASSUME TableOK, UNCHANGED <<dialect, index, call, table, lastId, gone>>
  PROVE  RowsKept /\ TableOK' /\ Known' = Known /\ Deleted' = Deleted /\ \A id : RowOf(id)' = RowOf(id)
<1>1. Known' = Known /\ Deleted' = Deleted /\ \A id : RowOf(id)' = RowOf(id)
    BY DEF Known, Deleted, RowOf
<1> QED
    BY <1>1, SameIsEquivalence DEF RowsKept, TableOK

LEMMA CallType ==
  ASSUME CallsOK, NEW w \in Writers
  PROVE  /\ call[w] \in Calls /\ call[w].data \in Seq(ModelRow) /\ call[w].on \in Seq(Columns)
         /\ call[w].update \in BOOLEAN
         /\ call[w].name = "upsertMany" => call[w].on # <<>>
         /\ call[w].name = "updateRecord" => 1 \in DOMAIN call[w].data /\ call[w].data[1].v \in Nat
<1>1. call[w] \in Calls /\ call[w] \in Call
    BY ModelWritesAssumption DEF CallsOK
<1>2. call[w].data \in Seq(ModelRow) /\ call[w].on \in Seq(Columns)
    BY <1>1 DEF Call, ModelRow
<1>3. call[w].update \in BOOLEAN /\ (call[w].name = "upsertMany" => call[w].on # <<>>)
    BY <1>1, ModelWritesAssumption DEF Call
<1>4. ASSUME call[w].name = "updateRecord" PROVE 1 \in DOMAIN call[w].data /\ call[w].data[1].v \in Nat
  <2>1. Len(call[w].data) = 1
      BY <1>1, <1>4, ModelWritesAssumption
  <2>2. PICK d \in Seq(ModelRow) : d = call[w].data
      BY <1>2
  <2>3. 1 \in DOMAIN d /\ d[1] \in ModelRow
      BY <2>1, <2>2
  <2> QED
      BY <2>2, <2>3 DEF ModelRow
<1> QED
    BY <1>1, <1>2, <1>3, <1>4

-----------------------------------------------------------------------------
(* Writes: step by step.                                                   *)

Stages == {"find", "write", "read", "failing", "failed", "done", "refetch", "find one"}

\* The calls stay well formed whoever gets on.
LEMMA CallsStay ==
  ASSUME CallsOK, UNCHANGED <<dialect, index, call>>, step' \in [Writers -> Stages],
         \A w \in Writers : left'[w] \subseteq left[w],
         DOMAIN left' = Writers, DOMAIN reading' = Writers, DOMAIN mine' = Writers, DOMAIN answer' = Writers,
         DOMAIN unseen' = Writers
  PROVE  CallsOK'
BY DEF CallsOK, Stages

LEMMA WriteInvInitially == WriteInit => WriteInv
<1> SUFFICES ASSUME WriteInit PROVE WriteInv
    OBVIOUS
<1>1. TableOK
  <2>1. /\ DOMAIN table = {1} /\ lastId = 1 /\ gone = {}
        /\ table = [i \in {1} |-> [a |-> 1, b |-> 1, v |-> 0]]
      BY DEF WriteInit
  <2>2. [a |-> 1, b |-> 1, v |-> 0] \in ModelRow
      BY DEF ModelRow
  <2>3. table \in [{1} -> ModelRow]
      BY <2>1, <2>2
  <2> QED
      BY <2>1, <2>3 DEF TableOK
<1>2. step \in [Writers -> Stages]
  <2>1. \A w \in Writers : (IF call[w].name = "firstOrInsert" THEN "find" ELSE "write") \in Stages
      BY DEF Stages
  <2> QED
      BY <2>1 DEF WriteInit
<1>3. CallsOK
  <2>1. dialect \in Databases /\ index \in Seq(Columns)
      BY ModelWritesAssumption DEF WriteInit
  <2>2. /\ call \in [Writers -> Calls] /\ \A w \in Writers : call[w].name = "upsertMany" => call[w].on = index
        /\ DOMAIN left = Writers /\ \A w \in Writers : left[w] \subseteq DOMAIN call[w].data
        /\ DOMAIN reading = Writers /\ DOMAIN mine = Writers /\ DOMAIN answer = Writers /\ DOMAIN unseen = Writers
      BY DEF WriteInit
  <2> QED
      BY <2>1, <2>2, <1>2 DEF CallsOK, Stages
<1>4. ASSUME NEW w \in Writers PROVE Written(w)
  <2>1. /\ step[w] \in {"find", "write"} /\ (step[w] = "find" <=> call[w].name = "firstOrInsert")
        /\ mine[w] = {} /\ answer[w] = {} /\ reading[w] = {} /\ unseen[w] = {}
      BY DEF WriteInit
  <2> QED
      BY <2>1 DEF Written, InsertAnswers
<1> QED
    BY <1>1, <1>3, <1>4 DEF WriteInv

LEMMA FindOneWrites ==
  ASSUME WriteInv, NEW w \in Writers, FindOne(w)
  PROVE  WriteInv'
<1>1. RowsKept /\ TableOK' /\ Known' = Known
    BY SameTable DEF WriteInv, FindOne
<1>2. PICK how \in {"write", "done"} : step' = [step EXCEPT ![w] = how]
    BY DEF FindOne, Ends
<1>3. /\ step \in [Writers -> Stages] /\ DOMAIN answer = Writers
      /\ DOMAIN mine = Writers /\ DOMAIN left = Writers /\ DOMAIN reading = Writers /\ DOMAIN unseen = Writers
    BY DEF WriteInv, CallsOK, Stages
<1>4. /\ step[w] = "find" /\ call[w].name = "firstOrInsert"
      /\ (how = "write" => answer' = answer)
      /\ DOMAIN answer' = Writers /\ \A v \in Writers \ {w} : answer'[v] = answer[v]
      /\ mine' = mine /\ reading' = reading /\ left' = left /\ call' = call /\ index' = index /\ dialect' = dialect
      /\ unseen' = unseen
  <2>1. step[w] = "find" /\ Written(w)
      BY DEF FindOne, WriteInv
  <2>2. call[w].name = "firstOrInsert"
      BY <2>1 DEF Written
  <2>3. step'[w] = how
      BY <1>2, <1>3
  <2>4. (how = "write" => answer' = answer) /\ DOMAIN answer' = Writers /\ \A v \in Writers \ {w} : answer'[v] = answer[v]
    <3>1. CASE step'[w] = "write" /\ answer' = answer
        BY <3>1, <1>3, <2>3
    <3>2. ASSUME NEW id, step'[w] = "done", answer' = [answer EXCEPT ![w] = {id}]
          PROVE  (how = "write" => answer' = answer) /\ DOMAIN answer' = Writers /\ \A v \in Writers \ {w} : answer'[v] = answer[v]
      <4>1. how # "write" /\ answer'[w] = {id}
          BY <3>2, <1>3, <2>3
      <4> QED
          BY <3>2, <4>1, <1>3
    <3>3. \/ step'[w] = "write" /\ answer' = answer
          \/ \E id : step'[w] = "done" /\ answer' = [answer EXCEPT ![w] = {id}]
        BY <1>3 DEF FindOne, Ends
    <3> QED
        BY <3>1, <3>2, <3>3
  <2> QED
      BY <2>1, <2>2, <2>4 DEF FindOne
<1>5. step' \in [Writers -> Stages] /\ step'[w] = how
    BY <1>2, <1>3 DEF Stages
<1>6. CallsOK'
    BY <1>3, <1>4, <1>5, CallsStay DEF WriteInv
<1>7. \A v \in Writers \ {w} : step'[v] = step[v] /\ answer'[v] = answer[v]
    BY <1>2, <1>3, <1>4
<1>8. ~OneByOne(w) /\ ~OneByOne(w)' /\ ~Inserts(w)'
    BY <1>4 DEF OneByOne, Inserts
<1>9. mine[w] = {} /\ answer[w] = {} /\ reading[w] = {} /\ unseen[w] = {}
    BY <1>4, <1>8 DEF WriteInv, Written
<1>10. Written(w)'
    BY <1>4, <1>5, <1>8, <1>9 DEF Written
<1> QED
    BY <1>1, <1>4, <1>6, <1>7, <1>10, OneMoves

LEMMA InsertWrites ==
  ASSUME WriteInv, NEW w \in Writers, Insert(w)
  PROVE  WriteInv'
<1> DEFINE data == call[w].data
           ids == (lastId + 1)..(lastId + Len(data))
<1>1. /\ step \in [Writers -> Stages] /\ DOMAIN answer = Writers
      /\ DOMAIN mine = Writers /\ DOMAIN left = Writers /\ DOMAIN reading = Writers /\ DOMAIN unseen = Writers
      /\ TableOK /\ CallsOK /\ Written(w)
    BY DEF WriteInv, CallsOK, Stages
<1>2. /\ step[w] = "write" /\ call[w].name \in {"insert", "insertMany", "firstOrInsert"} /\ ~OneByOne(w)
      /\ call' = call /\ index' = index /\ dialect' = dialect /\ left' = left /\ gone' = gone
      /\ unseen' = unseen
    BY DEF Insert
<1>3. mine[w] = {} /\ answer[w] = {} /\ reading[w] = {}
    BY <1>1, <1>2 DEF Written
<1>4. ~OneByOne(w)' /\ (Inserts(w)' <=> Inserts(w))
    BY <1>2 DEF OneByOne, Inserts
<1>5. CASE Ends(w, "failed") /\ UNCHANGED <<table, lastId, mine, answer, reading>>
  <2>1. RowsKept /\ TableOK'
      BY <1>1, <1>2, <1>5, SameTable
  <2>2. step' = [step EXCEPT ![w] = "failed"] /\ mine' = mine /\ answer' = answer /\ reading' = reading
      BY <1>5 DEF Ends
  <2>3. step' \in [Writers -> Stages] /\ step'[w] = "failed" /\ \A v \in Writers \ {w} : step'[v] = step[v]
      BY <1>1, <2>2 DEF Stages
  <2>4. CallsOK'
      BY <1>1, <1>2, <2>2, <2>3, CallsStay
  <2>5. Written(w)'
      BY <1>2, <1>3, <1>4, <2>2, <2>3 DEF Written, InsertAnswers
  <2> QED
      BY <1>2, <2>1, <2>2, <2>3, <2>4, <2>5, OneMoves
<1>6. CASE /\ table' = [id \in DOMAIN table \cup ids |-> IF id \in ids THEN data[id - lastId] ELSE table[id]]
           /\ lastId' = lastId + Len(data)
           /\ mine' = [mine EXCEPT ![w] = ids]
           /\ answer' = [answer EXCEPT ![w] = IF dialect \in {"postgres", "mssql"} THEN ids ELSE {}]
           /\ reading' = [reading EXCEPT ![w] = IF dialect \in {"mysql", "sqlite"} THEN ids ELSE {}]
           /\ Ends(w, IF dialect \in {"mysql", "sqlite"} THEN "read" ELSE "done")
  <2>1. PICK d \in Seq(ModelRow) : d = data
      BY <1>1, CallType
  <2>2. PICK n \in Nat : n = Len(data) /\ \A i \in 1..n : data[i] \in ModelRow
    <3>1. Len(d) \in Nat /\ \A i \in 1..Len(d) : d[i] \in ModelRow
        OBVIOUS
    <3> QED
        BY <2>1, <3>1
  <2>3. RowsKept /\ TableOK' /\ ids \subseteq DOMAIN table'
      BY <1>1, <1>2, <1>6, <2>2, RowsInserted
  <2> HIDE DEF ids, data
  <2>4. /\ mine'[w] = ids
        /\ answer'[w] = (IF dialect \in {"postgres", "mssql"} THEN ids ELSE {})
        /\ reading'[w] = (IF dialect \in {"mysql", "sqlite"} THEN ids ELSE {})
        /\ step'[w] = (IF dialect \in {"mysql", "sqlite"} THEN "read" ELSE "done")
        /\ \A v \in Writers \ {w} : /\ step'[v] = step[v] /\ mine'[v] = mine[v]
                                    /\ answer'[v] = answer[v] /\ reading'[v] = reading[v]
        /\ DOMAIN mine' = Writers /\ DOMAIN answer' = Writers /\ DOMAIN reading' = Writers
      BY <1>1, <1>6 DEF Ends
  <2>5. step' \in [Writers -> Stages]
      BY <1>1, <1>6 DEF Ends, Stages
  <2>6. CallsOK'
      BY <1>1, <1>2, <2>4, <2>5, CallsStay
  <2>7. Inserts(w) /\ dialect # "oracledb" => dialect \in {"postgres", "mssql", "mysql", "sqlite"}
      BY <1>1, ModelWritesAssumption DEF CallsOK
  <2>8. Inserts(w)' /\ dialect' # "oracledb" => InsertAnswers(w)'
    <3> SUFFICES ASSUME Inserts(w), dialect # "oracledb" PROVE InsertAnswers(w)'
        BY <1>2, <1>4
    <3>1. CASE dialect \in {"mysql", "sqlite"}
        BY <3>1, <1>2, <2>4 DEF InsertAnswers
    <3>2. CASE dialect \in {"postgres", "mssql"}
        BY <3>2, <1>2, <2>4 DEF InsertAnswers
    <3> QED
        BY <3>1, <3>2, <2>7
  <2>9. mine'[w] \subseteq Known'
      BY <2>3, <2>4 DEF Known
  <2>10. Written(w)'
      BY <1>2, <1>4, <2>4, <2>8, <2>9 DEF Written
  <2> QED
      BY <1>2, <2>3, <2>4, <2>6, <2>10, OneMoves
<1> QED
    BY <1>5, <1>6, Zenon DEF Insert

LEMMA InsertNextWrites ==
  ASSUME WriteInv, NEW w \in Writers, InsertNext(w)
  PROVE  WriteInv'
<1>1. /\ step \in [Writers -> Stages] /\ DOMAIN answer = Writers
      /\ DOMAIN mine = Writers /\ DOMAIN left = Writers /\ DOMAIN reading = Writers /\ DOMAIN unseen = Writers
      /\ TableOK /\ CallsOK /\ Written(w)
    BY DEF WriteInv, CallsOK, Stages
<1>2. PICK i \in left[w] :
        LET row == call[w].data[i]
            refused == Against(row, table, index) # {}
        IN  /\ step[w] \in {"write", "failing"} /\ OneByOne(w)
            /\ dialect = "oracledb" => reading[w] = {} /\ \A j \in left[w] : i <= j
            /\ left' = [left EXCEPT ![w] = IF refused /\ dialect = "oracledb" THEN {} ELSE @ \ {i}]
            /\ \/ refused /\ Ends(w, "failing") /\ UNCHANGED <<table, lastId, mine, reading>>
               \/ /\ ~refused
                  /\ lastId' = lastId + 1
                  /\ table' = [id \in DOMAIN table \cup {lastId'} |-> IF id = lastId' THEN row ELSE table[id]]
                  /\ mine' = [mine EXCEPT ![w] = @ \cup {lastId'}]
                  /\ reading' = [reading EXCEPT ![w] = @ \cup {lastId'}]
                  /\ UNCHANGED step
            /\ UNCHANGED <<dialect, index, call, hidden, answer, gone, unseen>>
    BY Zenon DEF InsertNext
<1>3. /\ step[w] \in {"write", "failing"} /\ OneByOne(w)
      /\ call' = call /\ index' = index /\ dialect' = dialect /\ answer' = answer /\ gone' = gone
      /\ unseen' = unseen
    BY <1>2
<1>4. OneByOne(w)' /\ (Inserts(w)' <=> Inserts(w)) /\ call[w].name = "insertMany" /\ dialect # "mysql"
    BY <1>3 DEF OneByOne, Inserts
<1>5. DOMAIN left' = Writers /\ \A v \in Writers : left'[v] \subseteq left[v]
    BY <1>1, <1>2
<1>6. CASE Ends(w, "failing") /\ UNCHANGED <<table, lastId, mine, reading>>
  <2>1. RowsKept /\ TableOK' /\ Known' = Known /\ Deleted' = Deleted
      BY <1>1, <1>3, <1>6, SameTable
  <2>2. step' \in [Writers -> Stages] /\ step'[w] = "failing" /\ \A v \in Writers \ {w} : step'[v] = step[v]
      BY <1>1, <1>6 DEF Stages, Ends
  <2>3. CallsOK'
      BY <1>1, <1>3, <1>5, <1>6, <2>2, CallsStay
  <2>4. Inserts(w)' /\ dialect' # "oracledb" => InsertAnswers(w)'
      BY <1>1, <1>3, <1>4, <1>6, <2>1, <2>2 DEF Written, InsertAnswers
  <2>5. mine'[w] \subseteq Known'
      BY <1>1, <1>6, <2>1 DEF Written
  <2>6. Written(w)'
      BY <1>3, <1>4, <2>2, <2>4, <2>5 DEF Written
  <2> QED
      BY <1>3, <1>6, <2>1, <2>2, <2>3, <2>6, OneMoves
<1>7. CASE /\ lastId' = lastId + 1
           /\ table' = [id \in DOMAIN table \cup {lastId'} |->
                          IF id = lastId' THEN call[w].data[i] ELSE table[id]]
           /\ mine' = [mine EXCEPT ![w] = @ \cup {lastId'}]
           /\ reading' = [reading EXCEPT ![w] = @ \cup {lastId'}]
           /\ UNCHANGED step
  <2>1. PICK d \in Seq(ModelRow) : d = call[w].data
      BY <1>1, CallType
  <2>2. i \in DOMAIN d
      BY <1>1, <2>1 DEF CallsOK
  <2>3. d[i] \in ModelRow
      BY <2>1, <2>2
  <2>4. lastId \in Nat
      BY <1>1 DEF TableOK
  <2>5. (lastId + 1)..(lastId + 1) = {lastId'} /\ \A id \in {lastId'} : id - lastId = 1
      BY <2>4, <1>7
  <2> DEFINE data == <<d[i]>>
  <2>6. data[1] = d[i] /\ \A k \in 1..1 : data[k] \in ModelRow
      BY <2>3
  <2> HIDE DEF data
  <2>7. table' = [id \in DOMAIN table \cup (lastId + 1)..(lastId + 1) |->
                    IF id \in (lastId + 1)..(lastId + 1) THEN data[id - lastId] ELSE table[id]]
      BY <1>7, <2>1, <2>5, <2>6
  <2>8. RowsKept /\ TableOK' /\ lastId' \in DOMAIN table'
      BY <1>1, <1>3, <1>7, <2>5, <2>6, <2>7, RowsInserted
  <2>9. /\ mine'[w] = mine[w] \cup {lastId'} /\ reading'[w] = reading[w] \cup {lastId'}
        /\ DOMAIN mine' = Writers /\ DOMAIN reading' = Writers
        /\ \A v \in Writers \ {w} : mine'[v] = mine[v] /\ reading'[v] = reading[v]
      BY <1>1, <1>7
  <2>10. CallsOK'
      BY <1>1, <1>3, <1>5, <1>7, <2>9, CallsStay
  <2>11. Known \subseteq Known' /\ Deleted \subseteq Deleted'
      BY <2>8 DEF RowsKept
  <2>12. Inserts(w)' /\ dialect' # "oracledb" => InsertAnswers(w)'
      BY <1>1, <1>3, <1>4, <1>7, <2>9, <2>11 DEF Written, InsertAnswers
  <2>13. mine'[w] \subseteq Known'
      BY <1>1, <2>8, <2>9, <2>11 DEF Written, Known
  <2>14. Written(w)'
      BY <1>3, <1>4, <1>7, <2>12, <2>13 DEF Written
  <2> QED
      BY <1>3, <1>7, <2>8, <2>9, <2>10, <2>14, OneMoves
<1> QED
    BY <1>2, <1>6, <1>7, Zenon

LEMMA ReadBackWrites ==
  ASSUME WriteInv, NEW w \in Writers, ReadBack(w)
  PROVE  WriteInv'
<1>1. /\ step \in [Writers -> Stages] /\ DOMAIN answer = Writers
      /\ DOMAIN mine = Writers /\ DOMAIN left = Writers /\ DOMAIN reading = Writers /\ DOMAIN unseen = Writers
      /\ TableOK /\ CallsOK /\ Written(w)
    BY DEF WriteInv, CallsOK, Stages
<1>2. /\ reading[w] # {}
      /\ UNCHANGED <<dialect, index, call, table, lastId, step, left, mine, gone>>
    BY DEF ReadBack
<1>3. RowsKept /\ TableOK' /\ Known' = Known /\ Deleted' = Deleted
    BY <1>1, <1>2, SameTable
<1>4. /\ DOMAIN answer' = Writers /\ DOMAIN reading' = Writers
      /\ DOMAIN unseen' = Writers
      /\ \A v \in Writers \ {w} : answer'[v] = answer[v] /\ reading'[v] = reading[v] /\ unseen'[v] = unseen[v]
  <2>1. PICK r, a : reading' = [reading EXCEPT ![w] = r] /\ answer' = [answer EXCEPT ![w] = a]
      BY Zenon DEF ReadBack, Finds
  <2>2. unseen' = unseen \/ \E u : unseen' = [unseen EXCEPT ![w] = u]
      BY Zenon DEF ReadBack, Finds
  <2>3. DOMAIN unseen' = Writers /\ \A v \in Writers \ {w} : unseen'[v] = unseen[v]
      BY <1>1, <2>2
  <2> QED
      BY <1>1, <2>1, <2>3
<1>5. CallsOK'
    BY <1>1, <1>2, <1>4, CallsStay DEF CallsOK, Stages
<1>6. /\ (OneByOne(w) <=> OneByOne(w)') /\ (Inserts(w) <=> Inserts(w)')
    BY <1>2 DEF OneByOne, Inserts
<1>7. call[w].name # "upsertMany" /\ ~(step[w] \in {"find", "write"} /\ ~OneByOne(w))
    BY <1>1, <1>2 DEF Written
<1>8. ASSUME Inserts(w), dialect # "oracledb" PROVE InsertAnswers(w)'
  <2>1. InsertAnswers(w) /\ mine[w] \subseteq DOMAIN table \cup Deleted
      BY <1>1, <1>8 DEF Written, Known
  <2>2. CASE /\ dialect = "mysql" /\ reading' = [reading EXCEPT ![w] = {}]
             /\ Finds(w, reading[w] \cap DOMAIN table)
    <3>1. reading[w] = mine[w] /\ reading'[w] = {}
        BY <2>1, <2>2, <1>1, <1>2 DEF InsertAnswers
    <3>2. answer'[w] \subseteq mine[w] /\ mine[w] \cap DOMAIN table \subseteq answer'[w] \cup unseen'[w]
        BY <2>2, <3>1, <1>1 DEF Finds
    <3> QED
        BY <3>1, <3>2, <2>1, <1>2, <1>3 DEF InsertAnswers
  <2>3. ASSUME dialect = "sqlite", unseen' = unseen, NEW id \in reading[w], reading' = [reading EXCEPT ![w] = @ \ {id}],
               answer' = [answer EXCEPT ![w] = @ \cup ({id} \cap DOMAIN table)]
        PROVE  InsertAnswers(w)'
    <3>1. reading'[w] = reading[w] \ {id} /\ answer'[w] = answer[w] \cup ({id} \cap DOMAIN table)
        BY <2>3, <1>1
    <3>2. id \in DOMAIN table \cup Deleted /\ id \in mine[w]
        BY <2>1, <2>3 DEF InsertAnswers
    <3> QED
        BY <3>1, <3>2, <2>1, <2>3, <1>2, <1>3 DEF InsertAnswers
  <2> QED
      BY <2>2, <2>3, <1>8 DEF ReadBack
<1>9. Written(w)'
    BY <1>1, <1>2, <1>3, <1>6, <1>7, <1>8 DEF Written
<1> QED
    BY <1>2, <1>3, <1>4, <1>5, <1>9, OneMoves

LEMMA SettleWrites ==
  ASSUME WriteInv, NEW w \in Writers, Settle(w)
  PROVE  WriteInv'
<1>1. /\ step \in [Writers -> Stages] /\ DOMAIN answer = Writers
      /\ DOMAIN mine = Writers /\ DOMAIN left = Writers /\ DOMAIN reading = Writers /\ DOMAIN unseen = Writers
      /\ TableOK /\ CallsOK /\ Written(w)
    BY DEF WriteInv, CallsOK, Stages
<1>2. /\ step[w] \in {"read", "failing", "write"} /\ reading[w] = {}
      /\ step[w] = "read" \/ OneByOne(w)
      /\ UNCHANGED <<dialect, index, call, table, lastId, left, reading, mine, answer, gone, unseen>>
    BY DEF Settle
<1>3. RowsKept /\ TableOK' /\ Known' = Known /\ Deleted' = Deleted
    BY <1>1, <1>2, SameTable
<1>4. PICK how \in {"failed", "done"} : /\ step' = [step EXCEPT ![w] = how]
                                        /\ how = "failed" => step[w] = "failing"
    BY DEF Settle, Ends
<1>5. step' \in [Writers -> Stages] /\ step'[w] = how /\ \A v \in Writers \ {w} : step'[v] = step[v]
    BY <1>1, <1>4 DEF Stages
<1>6. CallsOK'
    BY <1>1, <1>2, <1>5, CallsStay
<1>7. /\ (OneByOne(w) <=> OneByOne(w)') /\ (Inserts(w) <=> Inserts(w)')
    BY <1>2 DEF OneByOne, Inserts
<1>8. call[w].name # "upsertMany"
    BY <1>1, <1>2 DEF Written, OneByOne
<1>9. how = "failed" => OneByOne(w)'
    BY <1>2, <1>4, <1>7
<1>10. Inserts(w)' /\ dialect' # "oracledb" => InsertAnswers(w)'
    BY <1>1, <1>2, <1>3, <1>5, <1>7 DEF Written, InsertAnswers
<1>11. mine'[w] \subseteq Known'
    BY <1>1, <1>2, <1>3 DEF Written
<1>12. Written(w)'
    BY <1>2, <1>5, <1>8, <1>9, <1>10, <1>11 DEF Written
<1> QED
    BY <1>2, <1>3, <1>5, <1>6, <1>12, OneMoves

LEMMA UpsertWrites ==
  ASSUME WriteInv, NEW w \in Writers, Upsert(w)
  PROVE  WriteInv'
<1> DEFINE data == call[w].data
           columns == call[w].on
           result == PutAll(table, lastId, data, columns, Sets(w))
           refetch == \/ dialect \in {"mysql", "sqlite"}
                      \/ dialect = "postgres" /\ ~call[w].update /\ Cardinality(result.wrote) < Len(data)
                      \/ dialect = "mssql" /\ ~call[w].update /\ result.wrote = {}
<1>1. /\ step \in [Writers -> Stages] /\ DOMAIN answer = Writers
      /\ DOMAIN mine = Writers /\ DOMAIN left = Writers /\ DOMAIN reading = Writers /\ DOMAIN unseen = Writers
      /\ TableOK /\ CallsOK /\ Written(w)
    BY DEF WriteInv, CallsOK, Stages
<1>2. /\ step[w] = "write" /\ call[w].name = "upsertMany"
      /\ call' = call /\ index' = index /\ dialect' = dialect /\ left' = left /\ gone' = gone
      /\ reading' = reading /\ unseen' = unseen
    BY DEF Upsert
<1>3. ~OneByOne(w) /\ ~OneByOne(w)' /\ ~Inserts(w)'
    BY <1>2 DEF OneByOne, Inserts
<1>4. mine[w] = {} /\ answer[w] = {} /\ reading[w] = {} /\ unseen[w] = {}
    BY <1>1, <1>2, <1>3 DEF Written
<1>5. CASE Ends(w, "failed") /\ UNCHANGED <<table, lastId, mine, answer>>
  <2>1. RowsKept /\ TableOK'
      BY <1>1, <1>2, <1>5, SameTable
  <2>2. step' = [step EXCEPT ![w] = "failed"] /\ mine' = mine /\ answer' = answer
      BY <1>5 DEF Ends
  <2>3. step' \in [Writers -> Stages] /\ step'[w] = "failed" /\ \A v \in Writers \ {w} : step'[v] = step[v]
      BY <1>1, <2>2 DEF Stages
  <2>4. CallsOK'
      BY <1>1, <1>2, <2>2, <2>3, CallsStay
  <2>5. Written(w)'
      BY <1>2, <1>3, <1>4, <2>2, <2>3 DEF Written
  <2> QED
      BY <1>2, <2>1, <2>2, <2>3, <2>4, <2>5, OneMoves
<1>6. CASE /\ ~UpsertRefused(w)
           /\ table' = result.t /\ lastId' = result.last
           /\ mine' = [mine EXCEPT ![w] = result.wrote]
           /\ answer' = [answer EXCEPT ![w] = IF refetch THEN {} ELSE result.wrote]
           /\ Ends(w, IF refetch THEN "refetch" ELSE "done")
  <2>1. PICK d \in Seq(ModelRow), u \in BOOLEAN : d = data /\ u = call[w].update
      BY <1>1, CallType
  <2>2. Len(d) \in Nat /\ DOMAIN d = 1..Len(d)
      OBVIOUS
  <2>3. columns = index
      BY <1>1, <1>2 DEF CallsOK
  <2>4. Counted(result, Len(d), table, lastId, d, index, Sets(w))
    <3>1. index \in Seq(Columns)
        BY <1>1 DEF CallsOK
    <3> QED
        BY <1>1, <2>1, <2>3, <3>1, PutAllCounts DEF TableOK
  <2> HIDE DEF result
  <2>5. /\ table' \in [DOMAIN table' -> ModelRow] /\ lastId' \in Nat /\ lastId <= lastId'
        /\ DOMAIN table \subseteq DOMAIN table' /\ DOMAIN table' \subseteq DOMAIN table \cup (lastId + 1)..lastId'
        /\ \A id \in DOMAIN table : Same(table'[id], table[id], index)
        /\ result.wrote \subseteq DOMAIN table'
        /\ \A id \in result.wrote : \E i \in DOMAIN d : Same(table'[id], d[i], index)
        /\ \A i \in DOMAIN d : \E id \in DOMAIN table' : Same(table'[id], d[i], index)
      BY <1>6, <2>2, <2>4 DEF Counted
  <2>6. RowsKept /\ TableOK'
      BY <1>1, <1>2, <2>5, RowsAdded
  <2>7. \A id \in DOMAIN table' : RowOf(id)' = table'[id]
      BY DEF RowOf
  <2>8. PICK again \in BOOLEAN : again <=> refetch
      OBVIOUS
  <2>9. /\ mine'[w] = result.wrote
        /\ answer'[w] = (IF again THEN {} ELSE result.wrote)
        /\ step'[w] = (IF again THEN "refetch" ELSE "done")
        /\ DOMAIN mine' = Writers /\ DOMAIN answer' = Writers
        /\ \A v \in Writers \ {w} : step'[v] = step[v] /\ mine'[v] = mine[v] /\ answer'[v] = answer[v]
    <3> HIDE DEF refetch
    <3> QED
        BY <1>1, <1>6, <2>8 DEF Ends
  <2>10. step' \in [Writers -> Stages]
    <3> HIDE DEF refetch
    <3> QED
        BY <1>1, <1>6 DEF Ends, Stages
  <2>11. CallsOK'
      BY <1>1, <1>2, <2>9, <2>10, CallsStay
  <2>12. ASSUME ~again, ~MergeIgnores(w) \/ (~u /\ result.wrote = {})
         PROVE  \A i \in DOMAIN d : \E id \in result.wrote : Same(table'[id], d[i], index)
    <3>0. dialect \in {"mysql", "postgres", "sqlite", "mssql", "oracledb"} /\ dialect # "oracledb"
        BY <1>1, <1>6, ModelWritesAssumption DEF CallsOK, UpsertRefused
    <3>1. CASE u
      <4>1. Sets(w) # {}
        <5>1. CASE dialect = "mssql"
            BY <3>1, <5>1, <2>12 DEF MergeIgnores
        <5>2. CASE dialect # "mssql"
          <6>1. call[w].sets # {}
              BY <3>1, <5>2, <1>6, <2>1 DEF UpsertRefused
          <6> QED
              BY <3>1, <5>2, <6>1, <2>1 DEF Sets
        <5> QED
            BY <5>1, <5>2
      <4> QED
          BY <4>1, <1>6, <2>2, <2>4 DEF Counted
    <3>2. CASE ~u
      <4>0. Sets(w) = {}
          BY <3>2, <2>1 DEF Sets
      <4>1. dialect = "postgres"
        <5>1. dialect # "mssql"
            BY <4>0, <3>2, <2>1, <2>8, <2>12 DEF MergeIgnores
        <5> QED
            BY <3>0, <5>1, <2>8, <2>12
      <4>2. ~(Cardinality(result.wrote) < Len(d))
          BY <3>2, <4>1, <2>1, <2>8, <2>12
      <4>3. /\ IsFiniteSet(result.wrote) /\ Cardinality(result.wrote) <= Len(d)
            /\ Cardinality(result.wrote) = Len(d) =>
                 \A i \in 1..Len(d) : \E id \in result.wrote : Same(result.t[id], d[i], index)
          BY <4>0, <2>4 DEF Counted
      <4>4. Cardinality(result.wrote) \in Nat
          BY <4>3, FS_CardinalityType
      <4>5. Cardinality(result.wrote) = Len(d)
          BY <4>2, <4>3, <4>4, <2>2
      <4> QED
          BY <4>3, <4>5, <1>6, <2>2
    <3> QED
        BY <3>1, <3>2
  <2> HIDE DEF refetch, data, columns
  <2>13. /\ columns # <<>> /\ call'[w].data = d /\ call'[w].on = index /\ (call'[w].update <=> u)
         /\ index' = index /\ dialect' = dialect
      BY <1>1, <1>2, <2>1, <2>3, CallType DEF data, columns
  <2>14. UpsertReaches(w)'
    <3>1. \A i \in DOMAIN d : \E id \in DOMAIN table' : Same(RowOf(id)', d[i], index)
        BY <2>5, <2>7
    <3>2. DOMAIN table' \subseteq Known'
        BY DEF Known
    <3>3. \A i \in DOMAIN d : \E id \in Known' : Same(RowOf(id)', d[i], index)
        BY <3>1, <3>2, Zenon
    <3> QED
        BY <3>3, <2>3, <2>13 DEF UpsertReaches
  <2>15. ASSUME ~again PROVE UpsertAnswers(w)'
    <3>1. answer'[w] = result.wrote /\ answer'[w] \subseteq DOMAIN table'
        BY <2>5, <2>9, <2>15
    <3>2. \A id \in answer'[w] : \E i \in DOMAIN d : Same(RowOf(id)', d[i], index)
        BY <2>5, <2>7, <3>1
    <3>3. ~MergeIgnores(w)' \/ (~u /\ mine'[w] = {}) =>
            \A i \in DOMAIN d : \E id \in answer'[w] \cup Deleted' \cup unseen'[w] : Same(RowOf(id)', d[i], index)
      <4>1. MergeIgnores(w)' <=> MergeIgnores(w)
          BY <1>2 DEF MergeIgnores, Sets
      <4> QED
          BY <2>9, <2>12, <2>15, <2>7, <3>1, <4>1
    <3>4. answer'[w] \cup unseen'[w] \subseteq Known'
        BY <3>1, <1>2, <1>4 DEF Known
    <3> QED
        BY <3>2, <3>3, <3>4, <2>13 DEF UpsertAnswers
  <2>16. mine'[w] \subseteq Known'
      BY <2>5, <2>9 DEF Known
  <2>17. Written(w)'
      BY <1>2, <1>3, <1>4, <2>9, <2>14, <2>15, <2>16 DEF Written
  <2> QED
      BY <1>2, <2>6, <2>9, <2>11, <2>17, OneMoves
<1> QED
    BY <1>5, <1>6, Zenon DEF Upsert

LEMMA RefetchWrites ==
  ASSUME WriteInv, NEW w \in Writers, Refetch(w)
  PROVE  WriteInv'
<1> DEFINE data == call[w].data
           columns == call[w].on
<1>1. /\ step \in [Writers -> Stages] /\ DOMAIN answer = Writers
      /\ DOMAIN mine = Writers /\ DOMAIN left = Writers /\ DOMAIN reading = Writers /\ DOMAIN unseen = Writers
      /\ TableOK /\ CallsOK /\ Written(w)
    BY DEF WriteInv, CallsOK, Stages
<1>2. /\ step[w] = "refetch"
      /\ Finds(w, {id \in DOMAIN table : table[id][columns[1]] \in {data[i][columns[1]] : i \in DOMAIN data}})
      /\ step' = [step EXCEPT ![w] = "done"]
      /\ UNCHANGED <<dialect, index, call, table, lastId, left, reading, mine, gone>>
    BY Zenon DEF Refetch, Ends
<1>3. call[w].name = "upsertMany" /\ UpsertReaches(w) /\ reading[w] = {} /\ columns # <<>> /\ columns \in Seq(Columns)
    BY <1>1, <1>2, CallType DEF Written, UpsertReaches
<1>4. 1 \in DOMAIN columns
    BY <1>3
<1>5. ~OneByOne(w)' /\ ~Inserts(w)'
    BY <1>2, <1>3 DEF OneByOne, Inserts
<1>6. /\ RowsKept /\ TableOK' /\ Known' = Known /\ Deleted' = Deleted
      /\ \A id : RowOf(id)' = RowOf(id)
    BY <1>1, <1>2, SameTable
<1>7. /\ step' \in [Writers -> Stages] /\ step'[w] = "done" /\ DOMAIN answer' = Writers /\ DOMAIN unseen' = Writers
      /\ \A v \in Writers \ {w} : step'[v] = step[v] /\ answer'[v] = answer[v] /\ unseen'[v] = unseen[v]
    BY <1>1, <1>2 DEF Stages, Finds
<1>8. CallsOK'
    BY <1>1, <1>2, <1>7, CallsStay
<1>9. \A id : id \in answer'[w] \cup unseen'[w] <=>
                 id \in DOMAIN table /\ \E i \in DOMAIN data : table[id][columns[1]] = data[i][columns[1]]
  <2> DEFINE ids == {id \in DOMAIN table : table[id][columns[1]] \in {data[i][columns[1]] : i \in DOMAIN data}}
  <2>1. \A id : id \in ids <=>
                   id \in DOMAIN table /\ \E i \in DOMAIN data : table[id][columns[1]] = data[i][columns[1]]
      OBVIOUS
  <2> HIDE DEF ids
  <2>2. answer'[w] \cup unseen'[w] = ids
      BY <1>1, <1>2 DEF Finds, ids
  <2> QED
      BY <2>1, <2>2
<1> HIDE DEF data, columns
<1>10. ASSUME Len(columns) = 1, NEW id \in answer'[w]
       PROVE  \E i \in DOMAIN data : Same(RowOf(id), data[i], columns)
  <2>1. PICK i \in DOMAIN data : id \in DOMAIN table /\ table[id][columns[1]] = data[i][columns[1]]
      BY <1>9, <1>10
  <2>2. DOMAIN columns = {1}
      BY <1>3, <1>10
  <2>3. Same(table[id], data[i], columns)
      BY <2>1, <2>2 DEF Same
  <2> QED
      BY <2>1, <2>3 DEF RowOf
<1>11. ASSUME NEW i \in DOMAIN data
       PROVE  \E id \in answer'[w] \cup Deleted \cup unseen'[w] : Same(RowOf(id), data[i], columns)
  <2>1. PICK id \in Known : Same(RowOf(id), data[i], columns)
      BY <1>3 DEF UpsertReaches, data, columns
  <2>2. CASE id \in DOMAIN table
    <3>1. table[id][columns[1]] = data[i][columns[1]]
        BY <2>1, <2>2, <1>4 DEF RowOf, Same
    <3> QED
        BY <2>1, <2>2, <3>1, <1>9
  <2> QED
      BY <2>1, <2>2 DEF Known
<1>12. answer'[w] \cup unseen'[w] \subseteq Known
    BY <1>9 DEF Known
<1>13. UpsertAnswers(w)'
  <2>1. call'[w].data = data /\ call'[w].on = columns
      BY <1>2 DEF data, columns
  <2> QED
      BY <1>6, <1>10, <1>11, <1>12, <2>1 DEF UpsertAnswers
<1>14. mine'[w] \subseteq Known'
    BY <1>1, <1>2, <1>6 DEF Written
<1>15. Written(w)'
    BY <1>2, <1>3, <1>5, <1>7, <1>13, <1>14 DEF Written
<1> QED
    BY <1>2, <1>6, <1>7, <1>8, <1>15, OneMoves

LEMMA UpdateRecordWrites ==
  ASSUME WriteInv, NEW w \in Writers, UpdateRecord(w)
  PROVE  WriteInv'
<1>1. /\ step \in [Writers -> Stages] /\ DOMAIN answer = Writers
      /\ DOMAIN mine = Writers /\ DOMAIN left = Writers /\ DOMAIN reading = Writers /\ DOMAIN unseen = Writers
      /\ TableOK /\ CallsOK /\ Written(w)
    BY DEF WriteInv, CallsOK, Stages
<1>2. /\ step[w] = "write" /\ call[w].name = "updateRecord"
      /\ mine' = [mine EXCEPT ![w] = {call[w].id} \cap DOMAIN table]
      /\ step' = [step EXCEPT ![w] = "find one"]
      /\ UNCHANGED <<dialect, index, call, lastId, left, reading, answer, gone, unseen>>
    BY DEF UpdateRecord, Ends
<1>3. PICK id, v : id = call[w].id /\ v = call[w].data[1].v /\ v \in Nat
    BY <1>1, <1>2, CallType
<1>4. table' = [x \in DOMAIN table |-> IF x = id THEN [table[x] EXCEPT !.v = v] ELSE table[x]]
    BY <1>3 DEF UpdateRecord
<1>5. ASSUME NEW x \in DOMAIN table
      PROVE  table'[x] \in ModelRow /\ table'[x].a = table[x].a /\ table'[x].b = table[x].b
  <2>1. table[x] \in ModelRow
      BY <1>1 DEF TableOK
  <2> QED
      BY <2>1, <1>3, <1>4 DEF ModelRow
<1>6. \A i \in DOMAIN index : index[i] \in {"a", "b"}
  <2>1. index \in Seq({"a", "b"})
      BY <1>1 DEF CallsOK, Columns
  <2> QED
      BY <2>1
<1>7. DOMAIN table' = DOMAIN table /\ table' = [x \in DOMAIN table |-> table'[x]]
    BY <1>4
<1>8. \A x \in DOMAIN table : Same(table'[x], table[x], index)
  <2> SUFFICES ASSUME NEW x \in DOMAIN table, NEW i \in DOMAIN index
               PROVE  table'[x][index[i]] = table[x][index[i]]
      BY DEF Same
  <2>1. CASE index[i] = "a"
      BY <2>1, <1>5
  <2>2. CASE index[i] = "b"
      BY <2>2, <1>5
  <2> QED
      BY <2>1, <2>2, <1>6
<1>9. table' \in [DOMAIN table' -> ModelRow]
    BY <1>5, <1>7
<1>10. RowsKept /\ TableOK'
  <2>1. lastId \in Nat /\ lastId' = lastId
      BY <1>1, <1>2 DEF TableOK
  <2>2. lastId' \in Nat /\ lastId <= lastId' /\ DOMAIN table' = DOMAIN table
      BY <1>7, <2>1
  <2>3. DOMAIN table \subseteq DOMAIN table' /\ DOMAIN table' \subseteq DOMAIN table \cup (lastId + 1)..lastId'
      BY <2>2
  <2> QED
      BY <1>1, <1>2, <1>8, <1>9, <2>2, <2>3, RowsAdded
<1>11. /\ step' \in [Writers -> Stages] /\ step'[w] = "find one" /\ DOMAIN mine' = Writers
       /\ mine'[w] = {call[w].id} \cap DOMAIN table
       /\ \A x \in Writers \ {w} : step'[x] = step[x] /\ mine'[x] = mine[x]
    BY <1>1, <1>2 DEF Stages
<1>12. CallsOK'
    BY <1>1, <1>2, <1>11, CallsStay
<1>13. ~Inserts(w)'
    BY <1>2 DEF Inserts
<1>14. mine'[w] \subseteq Known'
    BY <1>7, <1>11 DEF Known
<1>15. Written(w)'
    BY <1>2, <1>11, <1>13, <1>14 DEF Written
<1> QED
    BY <1>2, <1>10, <1>11, <1>12, <1>15, OneMoves

LEMMA FindUpdatedWrites ==
  ASSUME WriteInv, NEW w \in Writers, FindUpdated(w)
  PROVE  WriteInv'
<1>1. /\ step \in [Writers -> Stages] /\ DOMAIN answer = Writers
      /\ DOMAIN mine = Writers /\ DOMAIN left = Writers /\ DOMAIN reading = Writers /\ DOMAIN unseen = Writers
      /\ TableOK /\ CallsOK /\ Written(w)
    BY DEF WriteInv, CallsOK, Stages
<1>2. /\ step[w] = "find one"
      /\ answer' = [answer EXCEPT ![w] = {call[w].id} \cap DOMAIN table]
      /\ step' = [step EXCEPT ![w] = IF {call[w].id} \cap DOMAIN table = {} THEN "failed" ELSE "done"]
      /\ UNCHANGED <<dialect, index, call, table, lastId, left, reading, mine, gone, unseen>>
    BY Zenon DEF FindUpdated, Ends
<1>3. RowsKept /\ TableOK' /\ Known' = Known /\ Deleted' = Deleted
    BY <1>1, <1>2, SameTable
<1>4. call[w].name = "updateRecord" /\ mine[w] \subseteq {call[w].id} /\ mine[w] \subseteq Known
    BY <1>1, <1>2 DEF Written
<1>5. /\ step' \in [Writers -> Stages] /\ DOMAIN answer' = Writers
      /\ step'[w] = IF {call[w].id} \cap DOMAIN table = {} THEN "failed" ELSE "done"
      /\ \A v \in Writers \ {w} : step'[v] = step[v] /\ answer'[v] = answer[v]
    BY <1>1, <1>2 DEF Stages
<1>6. CallsOK'
    BY <1>1, <1>2, <1>5, CallsStay
<1>7. ~Inserts(w)'
    BY <1>2, <1>4 DEF Inserts
<1>8. step'[w] = "failed" => mine'[w] \subseteq Deleted'
    BY <1>2, <1>3, <1>4, <1>5 DEF Known
<1>9. step'[w] \in {"failed", "done"}
    BY <1>5
<1>10. Written(w)'
    BY <1>2, <1>3, <1>4, <1>7, <1>8, <1>9 DEF Written
<1> QED
    BY <1>2, <1>3, <1>5, <1>6, <1>10, OneMoves

LEMMA DeleteRecordWrites ==
  ASSUME WriteInv, NEW w \in Writers, DeleteRecord(w)
  PROVE  WriteInv'
<1>1. /\ step \in [Writers -> Stages] /\ DOMAIN answer = Writers
      /\ DOMAIN mine = Writers /\ DOMAIN left = Writers /\ DOMAIN reading = Writers /\ DOMAIN unseen = Writers
      /\ TableOK /\ CallsOK /\ Written(w)
    BY DEF WriteInv, CallsOK, Stages
<1>2. /\ step[w] = "write" /\ call[w].name = "deleteRecord" /\ step' = [step EXCEPT ![w] = "done"]
      /\ UNCHANGED <<dialect, index, call, lastId, left, reading, mine, answer, unseen>>
    BY DEF DeleteRecord, Ends
<1>3. RowsKept /\ TableOK'
  <2>1. PICK id : id = call[w].id
      OBVIOUS
  <2>2. /\ gone' = gone \cup {<<x, table[x]>> : x \in {id} \cap DOMAIN table}
        /\ table' = [x \in DOMAIN table \ {id} |-> table[x]]
      BY <2>1, Zenon DEF DeleteRecord
  <2> QED
      BY <1>1, <1>2, <2>2, RowsDeleted
<1>4. step' \in [Writers -> Stages] /\ step'[w] = "done" /\ \A v \in Writers \ {w} : step'[v] = step[v]
    BY <1>1, <1>2 DEF Stages
<1>5. CallsOK'
    BY <1>1, <1>2, <1>4, CallsStay
<1>6. ~Inserts(w)'
    BY <1>2 DEF Inserts
<1>7. mine'[w] \subseteq Known'
    BY <1>1, <1>2, <1>3 DEF Written, RowsKept
<1>8. Written(w)'
    BY <1>2, <1>4, <1>6, <1>7 DEF Written
<1> QED
    BY <1>2, <1>3, <1>4, <1>5, <1>8, OneMoves

\* Rows keep their unique columns and are not lost, and every call has answered, or
\* will still read, what it wrote.
THEOREM WriteInvariant == WriteSpec => []WriteInv
<1>1. WriteInit => WriteInv
    BY WriteInvInitially
<1>2. WriteInv /\ [WriteNext]_writeVars => WriteInv'
  <2> SUFFICES ASSUME WriteInv, [WriteNext]_writeVars PROVE WriteInv'
      OBVIOUS
  <2>1. ASSUME NEW w \in Writers, FindOne(w) PROVE WriteInv'
      BY <2>1, FindOneWrites
  <2>2. ASSUME NEW w \in Writers, Insert(w) PROVE WriteInv'
      BY <2>2, InsertWrites
  <2>3. ASSUME NEW w \in Writers, InsertNext(w) PROVE WriteInv'
      BY <2>3, InsertNextWrites
  <2>4. ASSUME NEW w \in Writers, ReadBack(w) PROVE WriteInv'
      BY <2>4, ReadBackWrites
  <2>5. ASSUME NEW w \in Writers, Settle(w) PROVE WriteInv'
      BY <2>5, SettleWrites
  <2>6. ASSUME NEW w \in Writers, Upsert(w) PROVE WriteInv'
      BY <2>6, UpsertWrites
  <2>7. ASSUME NEW w \in Writers, Refetch(w) PROVE WriteInv'
      BY <2>7, RefetchWrites
  <2>8. ASSUME NEW w \in Writers, UpdateRecord(w) PROVE WriteInv'
      BY <2>8, UpdateRecordWrites
  <2>9. ASSUME NEW w \in Writers, FindUpdated(w) PROVE WriteInv'
      BY <2>9, FindUpdatedWrites
  <2>10. ASSUME NEW w \in Writers, DeleteRecord(w) PROVE WriteInv'
      BY <2>10, DeleteRecordWrites
  <2>11. ASSUME UNCHANGED writeVars PROVE WriteInv'
    <3>1. RowsKept /\ TableOK'
        BY <2>11, SameTable DEF WriteInv, writeVars
    <3>2. CallsOK'
        BY <2>11 DEF WriteInv, CallsOK, writeVars
    <3>3. ASSUME NEW w \in Writers PROVE Written(w)'
        BY <2>11, <3>1, WrittenKept DEF WriteInv, writeVars
    <3> QED
        BY <3>1, <3>2, <3>3 DEF WriteInv
  <2> QED
      BY <2>1, <2>2, <2>3, <2>4, <2>5, <2>6, <2>7, <2>8, <2>9, <2>10, <2>11, Zenon DEF WriteNext
<1> QED
    BY <1>1, <1>2, PTL DEF WriteSpec

\* A call that settles answers the rows it wrote and no others, an upsert a row for every
\* model, and a rejected one has written nothing, but for the causes that the property
\* names: for any number of writers, models and rows, whatever a hook hides, on all five
\* databases
\* (model_manager.ts 217-878).
THEOREM WritesAnswerTheirRows == WriteSpec => []AnswersItsRows
<1>1. WriteInv => AnswersItsRows
  <2> SUFFICES ASSUME WriteInv, NEW w \in Writers
               PROVE  /\ step[w] = "failed" /\ ~OneByOne(w) => mine[w] \subseteq Deleted
                      /\ step[w] = "done" /\ Inserts(w) /\ dialect # "oracledb" =>
                           answer[w] \subseteq mine[w] /\ mine[w] \ Deleted \subseteq answer[w] \cup unseen[w]
                      /\ step[w] = "done" /\ call[w].name = "upsertMany" =>
                           /\ Len(call[w].on) = 1 =>
                                \A id \in answer[w] : \E i \in DOMAIN call[w].data :
                                  Same(RowOf(id), call[w].data[i], call[w].on)
                           /\ ~MergeIgnores(w) \/ (~call[w].update /\ mine[w] = {}) =>
                                \A i \in DOMAIN call[w].data :
                                  \E id \in answer[w] \cup Deleted \cup unseen[w] :
                                    Same(RowOf(id), call[w].data[i], call[w].on)
      BY DEF AnswersItsRows
  <2>1. Written(w)
      BY DEF WriteInv
  <2>2. step[w] = "failed" /\ ~OneByOne(w) => mine[w] \subseteq Deleted
      BY <2>1, Zenon DEF Written
  <2>3. step[w] = "done" /\ Inserts(w) /\ dialect # "oracledb" =>
          answer[w] \subseteq mine[w] /\ mine[w] \ Deleted \subseteq answer[w] \cup unseen[w]
      BY <2>1 DEF Written, InsertAnswers
  <2>4. step[w] = "done" /\ call[w].name = "upsertMany" => UpsertAnswers(w)
      BY <2>1, Zenon DEF Written
  <2> QED
      BY <2>2, <2>3, <2>4, Zenon DEF UpsertAnswers
<1> QED
    BY <1>1, WriteInvariant, PTL

-----------------------------------------------------------------------------
(* Relations: counting rows.                                               *)

LEMMA AtMostOne ==
  ASSUME NEW S, \A x, y \in S : x = y
  PROVE  IsFiniteSet(S) /\ Cardinality(S) \in Nat /\ Cardinality(S) <= 1
<1>1. CASE S = {}
    BY <1>1, FS_EmptySet
<1>2. CASE S # {}
  <2>1. PICK x : S = {x}
      BY <1>2
  <2> QED
      BY <2>1, FS_Singleton
<1> QED
    BY <1>1, <1>2

LEMMA LeastOf ==
  ASSUME NEW S \in SUBSET Nat, S # {}
  PROVE  \E c \in S : \A x \in S : c <= x
<1>1. PICK c \in S : \A x \in S : ~ (<<x, c>> \in OpToRel(<, Nat))
    BY WFMin, NatLessThanWellFounded, Zenon
<1>2. \A x \in S : ~(x < c)
    BY <1>1 DEF OpToRel
<1> QED
    BY <1>2

LEMMA GreatestOf ==
  ASSUME NEW S \in SUBSET Nat, S # {}, IsFiniteSet(S)
  PROVE  \E c \in S : \A x \in S : x <= c
<1> DEFINE Above(c) == {x \in S : c < x}
           sizes == {n \in Nat : \E c \in S : Cardinality(Above(c)) = n}
<1>1. \A c \in S : IsFiniteSet(Above(c)) /\ Cardinality(Above(c)) \in Nat
  <2> SUFFICES ASSUME NEW c \in S PROVE IsFiniteSet(Above(c)) /\ Cardinality(Above(c)) \in Nat
      OBVIOUS
  <2>1. Above(c) \in SUBSET S
      OBVIOUS
  <2> HIDE DEF Above
  <2> QED
      BY <2>1, FS_Subset, FS_CardinalityType
<1>2. sizes # {} /\ sizes \in SUBSET Nat
  <2> HIDE DEF Above
  <2> QED
      BY <1>1
<1>3. PICK n \in sizes : \A m \in sizes : n <= m
  <2> HIDE DEF sizes
  <2> QED
      BY <1>2, LeastOf
<1>4. PICK c \in S : Cardinality(Above(c)) = n
  <2> HIDE DEF Above
  <2> QED
      BY <1>3
<1>5. ASSUME NEW x \in S, ~(x <= c) PROVE FALSE
  <2>1. x \in Above(c) /\ x \notin Above(x) /\ Above(x) \in SUBSET Above(c)
    <3>1. c \in Nat /\ x \in Nat /\ c < x /\ \A y \in S : y \in Nat
        BY <1>5
    <3>2. \A y \in S : x < y => c < y
        BY <3>1
    <3>3. x \in Above(c) /\ x \notin Above(x)
        BY <3>1
    <3>4. \A y \in Above(x) : y \in Above(c)
        BY <3>2
    <3> HIDE DEF Above
    <3> QED
        BY <3>3, <3>4
  <2> HIDE DEF Above
  <2>2. /\ IsFiniteSet(Above(c)) /\ Cardinality(Above(c)) \in Nat
        /\ IsFiniteSet(Above(x)) /\ Cardinality(Above(x)) \in Nat
      BY <1>1
  <2>3. /\ Cardinality(Above(x)) <= Cardinality(Above(c))
        /\ Cardinality(Above(c)) = Cardinality(Above(x)) => Above(c) = Above(x)
      BY <2>1, <2>2, FS_Subset
  <2>4. Cardinality(Above(x)) \in sizes
      BY <2>2
  <2>5. Cardinality(Above(c)) <= Cardinality(Above(x))
      BY <1>3, <1>4, <2>4
  <2>6. Above(c) = Above(x)
      BY <2>2, <2>3, <2>5
  <2> QED
      BY <2>1, <2>6
<1> QED
    BY <1>5

LEMMA PageOfRows ==
  ASSUME NEW rows, NEW order, NEW span
  PROVE  Page(rows, order, span) \subseteq rows /\ Page(rows, order, All) = rows
BY DEF Page

\* A limit is kept: no two rows of a page have the same rank.
LEMMA PageLimit ==
  ASSUME NEW rows, rows \subseteq Parents \cup Children, NEW span \in Nat \X Nat, span[1] # 0
  PROVE  /\ IsFiniteSet(Page(rows, Less, span)) /\ Cardinality(Page(rows, Less, span)) \in Nat
         /\ Cardinality(Page(rows, Less, span)) <= span[1]
<1> DEFINE Below(r) == {x \in rows : <<x, r>> \in Less}
           page == Page(rows, Less, span)
           first == span[2]
           last == span[2] + span[1] - 1
<1>1. rows \subseteq Nat /\ IsFiniteSet(rows)
  <2>1. IsFiniteSet(Parents \cup Children)
      BY RelationLoadingAssumption, FS_Union
  <2> QED
      BY <2>1, FS_Subset, RelationLoadingAssumption
<1>2. \A r, x \in rows : <<x, r>> \in Less <=> x < r
    BY DEF Less
<1>3. \A r : Below(r) \in SUBSET rows
    OBVIOUS
<1>4. \A r, x \in rows : x \in Below(r) <=> x < r
    BY <1>2
<1>5. page \subseteq rows /\ \A r \in page : Cardinality(Below(r)) \in first..last
  <2>1. span # All /\ span[1] \in Nat /\ span[2] \in Nat
      BY DEF All
  <2>2. page = {r \in rows : Cardinality(Below(r)) >= span[2] /\ (span[1] = 0 \/ Cardinality(Below(r)) < span[2] + span[1])}
      BY <2>1 DEF Page
  <2> HIDE DEF Below, page
  <2>3. \A r \in page : r \in rows /\ Cardinality(Below(r)) >= span[2] /\ Cardinality(Below(r)) < span[2] + span[1]
      BY <2>2
  <2>4. \A r \in rows : Cardinality(Below(r)) \in Nat
      BY <1>1, <1>3, FS_Subset, FS_CardinalityType
  <2> QED
      BY <2>1, <2>3, <2>4
<1>6. \A r, x \in rows : x < r => Cardinality(Below(x)) # Cardinality(Below(r))
  <2> SUFFICES ASSUME NEW r \in rows, NEW x \in rows, x < r, Cardinality(Below(x)) = Cardinality(Below(r)) PROVE FALSE
      OBVIOUS
  <2>1. Below(x) \in SUBSET Below(r) /\ x \in Below(r) /\ x \notin Below(x)
    <3>1. ASSUME NEW y \in Below(x) PROVE y \in Below(r)
      <4>1. y \in rows
          OBVIOUS
      <4> HIDE DEF Below
      <4> QED
          BY <3>1, <4>1, <1>1, <1>4
    <3> HIDE DEF Below
    <3> QED
        BY <3>1, <1>1, <1>4
  <2> HIDE DEF Below
  <2>2. IsFiniteSet(Below(r))
      BY <1>1, <1>3, FS_Subset
  <2>3. Below(r) = Below(x)
      BY <2>1, <2>2, FS_Subset
  <2> QED
      BY <2>1, <2>3
<1> HIDE DEF Below, page
<1> DEFINE f == [r \in page |-> Cardinality(Below(r))]
<1>7. f \in Injection(page, first..last)
  <2>1. f \in [page -> first..last]
      BY <1>5
  <2>2. ASSUME NEW a \in page, NEW b \in page, f[a] = f[b] PROVE a = b
    <3>1. a \in Nat /\ b \in Nat /\ a \in rows /\ b \in rows
        BY <1>1, <1>5
    <3>2. ~(a < b) /\ ~(b < a)
        BY <3>1, <1>6, <2>2
    <3> QED
        BY <3>1, <3>2
  <2> QED
      BY <2>1, <2>2 DEF Injection, IsInjective
<1>8. IsFiniteSet(first..last) /\ Cardinality(first..last) = span[1]
  <2>1. first \in Int /\ last \in Int /\ ~(first > last) /\ last - first + 1 = span[1]
      OBVIOUS
  <2> HIDE DEF first, last
  <2> QED
      BY <2>1, FS_Interval
<1> HIDE DEF f, first, last
<1>9. IsFiniteSet(page) /\ Cardinality(page) <= Cardinality(first..last)
    BY <1>7, <1>8, FS_Injection
<1> QED
    BY <1>8, <1>9, FS_CardinalityType DEF page

-----------------------------------------------------------------------------
(* Relations: what a read attaches.                                        *)

\* The property, of one parent and of what is attached to it.
ReadFrom(a) == IF load.type = "belongsTo" /\ ~a.joined THEN held ELSE a.links

AskedFor(p, a) ==
  Page(RelatedTo(p, ReadFrom(a)) \cap (Accepted \ load.hidden), Less, load.span)

CauseOf(p, a) ==
  LET filtered == ~Unfiltered \/ load.hidden # {}
  IN  \/ IF a.joined THEN a.times > 0 /\ p \notin a.earlier ELSE a.times > 1
      \/ ~a.joined /\ (IF load.type = "belongsTo" THEN <<p, 0>> \in held ELSE p = 0)
      \/ ~a.joined /\ load.span # All /\ (Single \/ filtered)
      \/ a.joined /\ Single /\ PageRead # All /\ 
           (filtered \/ load.type = "hasOne" \/ a.between \/ a.times > 0)
      \/ a.joined /\ p \notin a.answering

Own(p, a) ==
  /\ a.rows \subseteq RelatedTo(p, ReadFrom(a))
  /\ a.rows \subseteq Accepted \/ (a.joined /\ p \in a.earlier)
  /\ ~a.joined =>
       LET bound == a.rows \ AcceptedBefore
       IN  /\ bound \cap load.hidden = {}
           /\ load.span[1] # 0 => Cardinality(bound) <= load.span[1]
  /\ Single => Cardinality(a.rows) <= 1

Whole(p, a) ==
  CauseOf(p, a) \/ IF Single THEN AskedFor(p, a) # {} => a.rows # {} ELSE AskedFor(p, a) \subseteq a.rows

Pairs == SUBSET (Parents \X Children)

LoadTypes ==
  /\ load \in Loads /\ links \in Pairs /\ held \in Pairs
  /\ load.type = "belongsTo" => \A x, y \in links : x[1] = y[1] => x = y
  /\ parents \subseteq Parents /\ waiting \subseteq parents
  /\ offset \in Nat /\ writes \in Nat /\ readAt \in Nat /\ readAt <= writes
  /\ batches \in Seq(SUBSET (Parents \cup Children))

LEMMA LoadShape ==
  ASSUME LoadTypes
  PROVE  /\ load.type \in Types /\ load.where \in Seq(SUBSET Children) \ {<<>>} /\ load.hidden \in SUBSET Children
         /\ load.span \in Nat \X Nat /\ load.page \in Nat \X Nat
  BY RelationLoadingAssumption DEF LoadTypes, Query

\* The parts of the relation's where are sets of children; the last is one of them.
LEMMA WhereParts ==
  ASSUME LoadTypes
  PROVE  /\ Len(load.where) \in DOMAIN load.where /\ DOMAIN load.where = 1..Len(load.where)
         /\ Len(load.where) \in Nat \ {0}
         /\ Accepted \in SUBSET Children /\ AcceptedBefore \in SUBSET Accepted
         /\ Unfiltered => Accepted = Children /\ AcceptedBefore = {}
<1>1. PICK w \in Seq(SUBSET Children) : w = load.where /\ w # <<>>
    BY LoadShape
<1>2. Len(w) \in Nat \ {0} /\ DOMAIN w = 1..Len(w) /\ \A i \in DOMAIN w : w[i] \in SUBSET Children
    BY <1>1
<1>3. /\ Accepted = UNION {w[i] : i \in DOMAIN w}
      /\ AcceptedBefore = UNION {w[i] : i \in DOMAIN w \ {Len(w)}}
    BY <1>1 DEF Accepted, AcceptedBefore
<1>4. Accepted \in SUBSET Children /\ AcceptedBefore \in SUBSET Accepted
    BY <1>2, <1>3
<1>5. ASSUME Unfiltered PROVE Accepted = Children /\ AcceptedBefore = {}
  <2>1. w = <<Children>>
      BY <1>1, <1>5 DEF Unfiltered
  <2>2. DOMAIN w = {1} /\ Len(w) = 1 /\ w[1] = Children
      BY <2>1
  <2> QED
      BY <1>3, <2>2
<1> QED
    BY <1>1, <1>2, <1>4, <1>5

\* A part of the parents' conditions is before another, or is the last.
LEMMA PartsAreAll == Answering \in SUBSET Parents /\ EarlierParts \cup LastPart = Answering
BY DEF Answering, EarlierParts, LastPart, Branch

\* What is joined before any batch, without a where: the rows of the parents.
LEMMA PlainJoin ==
  ASSUME LoadTypes, Unfiltered, batches = <<>>
  PROVE  JoinedRows = {row \in links : row[1] \in Answering}
                        \cup {<<p, Nothing>> : p \in {x \in Answering : RelatedTo(x, links) = {}}}
<1>1. load.where = <<Children>> /\ DOMAIN load.where = {1} /\ load.where[1] = Children /\ Len(load.where) = 1
    BY DEF Unfiltered
<1>2. DOMAIN batches = {}
    OBVIOUS
<1>3. \A row \in links : InBatches(row) /\ row[2] \in Children
    BY <1>2 DEF InBatches, LoadTypes, Pairs
<1>4. Answering \in SUBSET Parents /\ EarlierParts \cup LastPart = Answering
    BY PartsAreAll
<1> QED
    BY <1>1, <1>3, <1>4 DEF JoinedRows

\* The children of a set of pairs are numbers.
LEMMA RelatedChildren ==
  ASSUME NEW p, NEW pairs
  PROVE  /\ RelatedTo(p, pairs) \in SUBSET Children /\ RelatedTo(p, pairs) \in SUBSET Nat
         /\ \A S \in SUBSET Children : S \in SUBSET Nat /\ IsFiniteSet(S)
  BY RelationLoadingAssumption, FS_Subset DEF RelatedTo

\* The joined rows of a belongsTo without a where are one per parent that answers, so
\* that they have the limit and offset of the parents.
LEMMA JoinedRank ==
  ASSUME LoadTypes, load.type = "belongsTo", Unfiltered, batches = <<>>,
         NEW p \in Answering, NEW c \in Children, <<p, c>> \in links
  PROVE  Cardinality({x \in Answering : <<x, p>> \in Less}) =
           Cardinality({x \in JoinedRows : <<x, <<p, c>>>> \in RowLess})
<1> DEFINE before == {x \in Answering : <<x, p>> \in Less}
           rowsBefore == {x \in JoinedRows : <<x, <<p, c>>>> \in RowLess}
           f == [x \in rowsBefore |-> x[1]]
<1>1. Answering \in SUBSET Parents /\ Answering \in SUBSET Nat /\ Children \in SUBSET Nat /\ Nothing \in Nat \ Children
    BY RelationLoadingAssumption, PartsAreAll
<1>2. \A x \in JoinedRows : /\ x \in Parents \X (Children \cup {Nothing}) /\ x = <<x[1], x[2]>>
                            /\ x[1] \in Answering /\ x[2] \in Nat
    BY <1>1, PlainJoin DEF LoadTypes, Pairs
<1>3. \A x, y \in JoinedRows : x[1] = y[1] => x = y
  <2> SUFFICES ASSUME NEW x \in JoinedRows, NEW y \in JoinedRows, x[1] = y[1] PROVE x = y
      OBVIOUS
  <2>1. CASE x \in links /\ y \in links
      BY <2>1 DEF LoadTypes
  <2>2. ASSUME NEW u \in JoinedRows, u \in links PROVE RelatedTo(u[1], links) # {}
      BY <2>2 DEF RelatedTo, LoadTypes, Pairs
  <2>3. ASSUME NEW u \in JoinedRows, u \notin links PROVE RelatedTo(u[1], links) = {} /\ u = <<u[1], Nothing>>
      BY <2>3, PlainJoin
  <2> QED
      BY <2>1, <2>2, <2>3
<1>4. <<p, c>> \in JoinedRows
    BY PlainJoin
<1>5. \A x \in JoinedRows : <<x, <<p, c>>>> \in RowLess <=> <<x[1], p>> \in Less
  <2> SUFFICES ASSUME NEW x \in JoinedRows PROVE <<x, <<p, c>>>> \in RowLess <=> <<x[1], p>> \in Less
      OBVIOUS
  <2>1. x[1] \in Nat /\ p \in Nat /\ c \in Nat /\ x[2] \in Nat
      BY <1>1, <1>2
  <2>2. <<x, <<p, c>>>> \in RowLess <=> x[1] < p \/ (x[1] = p /\ x[2] < c)
      BY <1>1, <1>2 DEF RowLess
  <2>3. <<x[1], p>> \in Less <=> x[1] < p
      BY <1>1, <1>2 DEF Less
  <2>4. x[1] = p => x = <<p, c>>
      BY <1>3, <1>4
  <2>5. ~(x[1] = p /\ x[2] < c)
      BY <2>1, <2>4
  <2> QED
      BY <2>2, <2>3, <2>5
<1>6. \A x \in Answering : \E y \in JoinedRows : y[1] = x
  <2> SUFFICES ASSUME NEW x \in Answering PROVE \E y \in JoinedRows : y[1] = x
      OBVIOUS
  <2>1. CASE RelatedTo(x, links) = {}
    <3>1. <<x, Nothing>> \in JoinedRows
        BY <2>1, PlainJoin
    <3> QED
        BY <3>1
  <2>2. ASSUME NEW d \in RelatedTo(x, links) PROVE \E y \in JoinedRows : y[1] = x
    <3>1. <<x, d>> \in JoinedRows
        BY <2>2, PlainJoin DEF RelatedTo
    <3> QED
        BY <3>1
  <2> QED
      BY <2>1, <2>2
<1>7. f \in Bijection(rowsBefore, before)
  <2>1. f \in [rowsBefore -> before]
      BY <1>2, <1>5
  <2>2. \A a, b \in rowsBefore : f[a] = f[b] => a = b
      BY <1>3
  <2>3. \A x \in before : \E a \in rowsBefore : f[a] = x
      BY <1>5, <1>6
  <2> HIDE DEF f, rowsBefore, before
  <2> QED
      BY <2>1, <2>2, <2>3 DEF Bijection, Injection, IsInjective, Surjection
<1>8. IsFiniteSet(before)
    BY <1>1, FS_Subset, RelationLoadingAssumption
<1>9. ExistsBijection(before, rowsBefore)
  <2> HIDE DEF f, rowsBefore, before
  <2> QED
      BY <1>7, Fun_ExistsBijSymmetric DEF ExistsBijection
<1> QED
    BY <1>8, <1>9, FS_Bijection

\* A parent that is found again on its page gets its row of a belongsTo.
LEMMA JoinedPage ==
  ASSUME LoadTypes, load.type = "belongsTo", Unfiltered, batches = <<>>,
         parents = Page(Answering, Less, PageRead),
         NEW p \in parents, NEW c \in Children, <<p, c>> \in links
  PROVE  <<p, c>> \in Page(JoinedRows, RowLess, PageRead)
<1>1. p \in Answering
    BY PageOfRows
<1>2. <<p, c>> \in JoinedRows
    BY <1>1, PlainJoin
<1>3. Cardinality({x \in Answering : <<x, p>> \in Less}) =
        Cardinality({x \in JoinedRows : <<x, <<p, c>>>> \in RowLess})
    BY <1>1, JoinedRank
<1>4. PICK span : span = PageRead
    OBVIOUS
<1>5. CASE span = All
    BY <1>2, <1>4, <1>5, PageOfRows
<1>6. CASE span # All
  <2> DEFINE InSpan(n) == n >= span[2] /\ (span[1] = 0 \/ n < span[1] + span[2])
  <2>1. InSpan(Cardinality({x \in Answering : <<x, p>> \in Less}))
      BY <1>4, <1>6 DEF Page
  <2>2. InSpan(Cardinality({x \in JoinedRows : <<x, <<p, c>>>> \in RowLess}))
      BY <1>3, <2>1
  <2> QED
      BY <1>2, <1>4, <1>6, <2>2 DEF Page
<1> QED
    BY <1>5, <1>6

LEMMA JoinIsRight ==
  ASSUME LoadTypes, writes = readAt => parents = Page(Answering, Less, PageRead),
         NEW p \in parents, NEW a, a = Attach(Joined, TRUE)[p]
  PROVE  Own(p, a) /\ Whole(p, a)
<1> DEFINE found == IF Single THEN Page(JoinedRows, RowLess, PageRead) ELSE JoinedRows
           of == {c \in Children : <<p, c>> \in found}
           least == {c \in of : \A x \in of : c <= x}
<1>1. /\ a.rows = IF Single THEN least ELSE of
      /\ a.links = links /\ a.answering = Answering /\ a.earlier = EarlierParts /\ a.times = Len(batches)
      /\ a.joined /\ (a.between <=> writes # readAt)
    BY DEF Attach, Joined
<1>2. of \in SUBSET Children /\ of \in SUBSET Nat
    BY RelatedChildren
<1>3. found \subseteq JoinedRows
    BY PageOfRows
<1>4. of \subseteq RelatedTo(p, links) /\ (of \subseteq Accepted \/ p \in EarlierParts)
  <2>1. \A c \in Children : c # Nothing
      BY RelationLoadingAssumption
  <2>2. \A c \in Children : <<p, c>> \in JoinedRows => <<p, c>> \in links /\ (p \in EarlierParts \/ c \in Accepted)
      BY <2>1 DEF JoinedRows, Accepted
  <2> HIDE DEF found
  <2> QED
      BY <1>3, <2>2 DEF RelatedTo
<1>5. ReadFrom(a) = links
    BY <1>1 DEF ReadFrom
<1>6. Own(p, a)
  <2>1. Cardinality(least) <= 1
    <3>1. \A x, y \in least : x = y
        BY <1>2
    <3> HIDE DEF least
    <3> QED
        BY <3>1, AtMostOne
  <2>2. least \subseteq of
      OBVIOUS
  <2> HIDE DEF least, of
  <2> QED
      BY <1>1, <1>4, <1>5, <2>1, <2>2 DEF Own
<1>7. ASSUME of # {} PROVE least # {}
  <2> HIDE DEF found
  <2>1. PICK c \in of : \A x \in of : c <= x
    <3> HIDE DEF of
    <3> QED
        BY <1>2, <1>7, LeastOf
  <2> QED
      BY <2>1
<1>8. ASSUME ~CauseOf(p, a), NEW c \in AskedFor(p, a)
      PROVE  IF Single THEN of # {} ELSE c \in of
  <2>1. /\ p \in Answering /\ (Len(batches) > 0 => p \in EarlierParts)
        /\ Single /\ PageRead # All =>
             /\ Unfiltered /\ load.hidden = {} /\ load.type # "hasOne" /\ writes = readAt
             /\ ~(Len(batches) > 0)
      BY <1>1, <1>8 DEF CauseOf
  <2>2. c \in RelatedTo(p, links) /\ c \in Accepted /\ c \in Children /\ <<p, c>> \in links
      BY <1>5, PageOfRows DEF AskedFor, RelatedTo
  <2>0. ~(Len(batches) > 0) => batches = <<>> /\ DOMAIN batches = {}
    <3>1. PICK b \in Seq(SUBSET (Parents \cup Children)) : b = batches
        BY DEF LoadTypes
    <3>2. ~(Len(b) > 0) => b = <<>> /\ DOMAIN b = {}
        BY <3>1
    <3> QED
        BY <3>1, <3>2
  <2>3. <<p, c>> \in JoinedRows
    <3>1. CASE p \in EarlierParts
        BY <2>2, <3>1 DEF JoinedRows
    <3>2. CASE p \notin EarlierParts
      <4>1. p \in LastPart /\ batches = <<>> /\ InBatches(<<p, c>>)
          BY <2>0, <2>1, <3>2, PartsAreAll DEF InBatches
      <4>2. PICK i \in DOMAIN load.where : c \in load.where[i]
          BY <2>2 DEF Accepted
      <4> QED
          BY <2>2, <4>1, <4>2 DEF JoinedRows
    <3> QED
        BY <3>1, <3>2
  <2>4. CASE ~Single \/ PageRead = All
    <3>1. <<p, c>> \in found
        BY <2>3, <2>4, PageOfRows
    <3> HIDE DEF found
    <3> QED
        BY <2>2, <3>1
  <2>5. CASE Single /\ PageRead # All
    <3>1. load.type = "belongsTo"
        BY <2>1, <2>5 DEF Single
    <3>2. <<p, c>> \in found
        BY <2>0, <2>1, <2>2, <2>5, <3>1, JoinedPage
    <3> HIDE DEF found
    <3> QED
        BY <2>2, <3>2
  <2> HIDE DEF of
  <2> QED
      BY <2>4, <2>5
<1>9. Whole(p, a)
  <2> HIDE DEF of, least
  <2> QED
      BY <1>1, <1>7, <1>8 DEF Whole
<1> QED
    BY <1>6, <1>9

\* The rows of one fetch by the keys of some of the parents.
LEMMA BatchIsRight ==
  ASSUME LoadTypes, NEW rows, rows \subseteq parents, Len(batches) > 0,
         Len(batches) = 1 => batches[1] = Keys(rows),
         NEW p \in rows, NEW a, a = Attach(Batched(rows), FALSE)[p]
  PROVE  Own(p, a) /\ Whole(p, a)
<1> DEFINE pairs == IF load.type = "belongsTo" THEN held ELSE links
           Meets(c, bound) == c \in AcceptedBefore \/ (c \in Accepted \ load.hidden /\ bound)
           InPage(pair) == pair[2] \in Page(RelatedTo(pair[1], pairs), Less, load.span)
           of == {pair[2] : pair \in {x \in Fetched : x[1] = p /\ Key(x) # 0}}
           greatest == {c \in of : \A x \in of : x <= c}
           page == Page(RelatedTo(p, pairs), Less, load.span)
           found == {c \in Children : Meets(c, \E pair \in pairs : pair[2] = c /\ InBatches(pair))}
           one == Page(found, Less, load.span)
<1>1. /\ a.rows = IF Single THEN greatest ELSE of
      /\ a.links = links /\ ~a.joined /\ a.times = Len(batches)
    BY DEF Attach, Batched
<1>2. ReadFrom(a) = pairs
    BY <1>1 DEF ReadFrom
<1>3. pairs \in Pairs /\ \A x \in pairs : x = <<x[1], x[2]>> /\ x[2] \in Children
    BY DEF LoadTypes, Pairs
<1>4. Fetched = IF Single THEN {pair \in pairs : pair[2] \in one}
                ELSE {pair \in pairs : /\ Meets(pair[2], InBatches(pair) /\ InPage(pair))
                                       /\ Numbered => Key(pair) \in batches[1]}
    BY DEF Fetched
<1>5. Accepted \in SUBSET Children /\ AcceptedBefore \in SUBSET Accepted
    BY WhereParts
<1>6. one \subseteq found
    BY PageOfRows
<1>7. of \subseteq RelatedTo(p, pairs) /\ of \subseteq Accepted /\ of \cap load.hidden \subseteq AcceptedBefore
  <2> SUFFICES ASSUME NEW x \in Fetched, x[1] = p
               PROVE  /\ x[2] \in RelatedTo(p, pairs) /\ x[2] \in Accepted
                      /\ x[2] \in load.hidden => x[2] \in AcceptedBefore
      OBVIOUS
  <2>1. x \in pairs /\ \E bound \in BOOLEAN : Meets(x[2], bound)
    <3>1. CASE Single
      <4> HIDE DEF one, pairs
      <4> QED
          BY <1>4, <1>6, <3>1
    <3>2. CASE ~Single
      <4> HIDE DEF one, pairs
      <4> QED
          BY <1>4, <3>2
    <3> QED
        BY <3>1, <3>2
  <2> HIDE DEF pairs
  <2> QED
      BY <1>3, <1>5, <2>1 DEF RelatedTo
<1>8. of \in SUBSET Children /\ of \in SUBSET Nat /\ IsFiniteSet(of)
  <2> HIDE DEF of
  <2> QED
      BY <1>7, RelatedChildren
<1>9. Cardinality(greatest) <= 1
  <2>1. \A x, y \in greatest : x = y
    <3> HIDE DEF of
    <3> QED
        BY <1>8
  <2> HIDE DEF greatest
  <2> QED
      BY <2>1, AtMostOne
<1>10. ASSUME ~Single, load.span[1] # 0
       PROVE  /\ IsFiniteSet(page) /\ Cardinality(page) \in Nat /\ Cardinality(page) <= load.span[1]
              /\ of \ AcceptedBefore \in SUBSET page
  <2>1. of \ AcceptedBefore \in SUBSET page
    <3> SUFFICES ASSUME NEW x \in Fetched, x[1] = p, x[2] \notin AcceptedBefore PROVE x[2] \in page
        OBVIOUS
    <3>1. InPage(x)
      <4> HIDE DEF pairs, page
      <4> QED
          BY <1>4, <1>10
    <3> HIDE DEF pairs
    <3> QED
        BY <3>1
  <2>2. PICK rows2 : rows2 = RelatedTo(p, pairs) /\ rows2 \subseteq Parents \cup Children
    <3> HIDE DEF pairs
    <3> QED
        BY RelatedChildren
  <2>3. PICK span \in Nat \X Nat : span = load.span
      BY LoadShape
  <2>4. /\ IsFiniteSet(Page(rows2, Less, span)) /\ Cardinality(Page(rows2, Less, span)) \in Nat
        /\ Cardinality(Page(rows2, Less, span)) <= span[1]
      BY <1>10, <2>2, <2>3, PageLimit
  <2>5. page = Page(rows2, Less, span)
    <3> HIDE DEF pairs
    <3> QED
        BY <2>2, <2>3
  <2> HIDE DEF page, of
  <2> QED
      BY <2>1, <2>3, <2>4, <2>5
<1>11. Own(p, a)
  <2>1. greatest \subseteq of
      OBVIOUS
  <2> DEFINE bound == a.rows \ AcceptedBefore
  <2>2. load.span[1] \in Nat
      BY LoadShape
  <2> HIDE DEF greatest, of, pairs, page
  <2>3. a.rows \subseteq of
      BY <1>1, <2>1
  <2>4. a.rows \subseteq RelatedTo(p, ReadFrom(a)) /\ a.rows \subseteq Accepted /\ bound \cap load.hidden = {}
      BY <1>2, <1>7, <2>3
  <2>5. Single => Cardinality(a.rows) <= 1
      BY <1>1, <1>9
  <2>6. load.span[1] # 0 => Cardinality(bound) <= load.span[1]
    <3>1. CASE Single
      <4>1. a.rows = greatest /\ bound \in SUBSET greatest
          BY <1>1, <3>1
      <4>2. IsFiniteSet(greatest)
          BY <1>8, <2>1, FS_Subset
      <4>3. Cardinality(greatest) \in Nat /\ Cardinality(bound) \in Nat /\ Cardinality(bound) <= Cardinality(greatest)
        <5> HIDE DEF bound
        <5> QED
            BY <4>1, <4>2, FS_Subset, FS_CardinalityType
      <4>4. PICK n \in Nat : n = load.span[1]
          BY <2>2
      <4>5. n # 0 => Cardinality(bound) <= n
          BY <4>3, <1>9
      <4> QED
          BY <4>4, <4>5
    <3>2. CASE ~Single /\ load.span[1] # 0
      <4>1. bound \in SUBSET page /\ IsFiniteSet(page) /\ Cardinality(page) \in Nat /\ Cardinality(page) <= load.span[1]
          BY <1>1, <1>10, <3>2
      <4>2. Cardinality(bound) \in Nat /\ Cardinality(bound) <= Cardinality(page)
        <5> HIDE DEF bound
        <5> QED
            BY <4>1, FS_Subset, FS_CardinalityType
      <4> QED
          BY <2>2, <4>1, <4>2
    <3> QED
        BY <3>1, <3>2
  <2> QED
      BY <2>4, <2>5, <2>6 DEF Own
<1>12. ASSUME ~CauseOf(p, a), NEW c \in AskedFor(p, a) PROVE c \in of
  <2>1. /\ ~(Len(batches) > 1)
        /\ IF load.type = "belongsTo" THEN <<p, 0>> \notin held ELSE p # 0
        /\ load.span # All => ~Single /\ Unfiltered /\ load.hidden = {}
      BY <1>1, <1>12 DEF CauseOf
  <2>2. DOMAIN batches = {1} /\ batches[1] = Keys(rows)
    <3>1. Len(batches) \in Nat /\ DOMAIN batches = 1..Len(batches)
        BY DEF LoadTypes
    <3>2. Len(batches) = 1
        BY <2>1, <3>1
    <3> QED
        BY <3>1, <3>2
  <2>3. c \in RelatedTo(p, pairs) /\ c \in Accepted \ load.hidden
    <3> HIDE DEF pairs
    <3> QED
        BY <1>2, PageOfRows DEF AskedFor
  <2>4. <<p, c>> \in pairs /\ c \in Children
    <3> HIDE DEF pairs
    <3> QED
        BY <2>3 DEF RelatedTo
  <2>5. Key(<<p, c>>) \in Keys(rows)
    <3>1. CASE load.type = "belongsTo"
      <4>1. <<p, c>> \in {x \in held : x[1] \in rows} /\ <<p, c>>[2] = c
          BY <2>4, <3>1
      <4> QED
          BY <3>1, <4>1 DEF Keys, Key
    <3>2. CASE load.type # "belongsTo"
        BY <3>2 DEF Key, Keys
    <3> QED
        BY <3>1, <3>2
  <2>6. InBatches(<<p, c>>) /\ Key(<<p, c>>) \in batches[1]
      BY <2>2, <2>5 DEF InBatches
  <2>7. Key(<<p, c>>) # 0
      BY <2>1, <2>4 DEF Key
  <2>9. <<p, c>>[1] = p /\ <<p, c>>[2] = c
      OBVIOUS
  <2>8. <<p, c>> \in Fetched
    <3>1. CASE Single
      <4>1. c \in found
        <5> HIDE DEF pairs
        <5> QED
            BY <2>3, <2>4, <2>6, <2>9
      <4>2. c \in one
        <5> HIDE DEF found
        <5> QED
            BY <2>1, <3>1, <4>1, PageOfRows
      <4> HIDE DEF one, pairs
      <4> QED
          BY <1>4, <2>4, <2>9, <3>1, <4>2
    <3>2. CASE ~Single
      <4>1. InPage(<<p, c>>)
        <5>1. c \in page
          <6>1. CASE load.span = All
            <7> HIDE DEF pairs
            <7> QED
                BY <2>3, <6>1, PageOfRows
          <6>2. CASE load.span # All
            <7> HIDE DEF pairs
            <7>1. Accepted \ load.hidden = Children
                BY <2>1, <6>2, WhereParts
            <7>2. RelatedTo(p, pairs) \cap (Accepted \ load.hidden) = RelatedTo(p, pairs)
                BY <7>1, RelatedChildren
            <7> QED
                BY <1>2, <1>12, <7>2 DEF AskedFor
          <6> QED
              BY <6>1, <6>2
        <5> HIDE DEF pairs
        <5> QED
            BY <2>9, <5>1
      <4>2. Meets(<<p, c>>[2], InBatches(<<p, c>>) /\ InPage(<<p, c>>))
        <5> HIDE DEF InPage
        <5> QED
            BY <2>3, <2>6, <2>9, <4>1
      <4> HIDE DEF Meets, InPage, pairs, one
      <4> QED
          BY <1>4, <2>4, <2>6, <3>2, <4>2
    <3> QED
        BY <3>1, <3>2
  <2> QED
      BY <2>7, <2>8, <2>9
<1>13. ASSUME of # {} PROVE greatest # {}
  <2>1. PICK c \in of : \A x \in of : x <= c
    <3> HIDE DEF of
    <3> QED
        BY <1>8, <1>13, GreatestOf
  <2> HIDE DEF of
  <2> QED
      BY <2>1
<1>14. Whole(p, a)
  <2> HIDE DEF of, greatest
  <2> QED
      BY <1>1, <1>12, <1>13 DEF Whole
<1> QED
    BY <1>11, <1>14

\* What holds in every state: beside the property, that the page was read from the rows
\* that are there when nobody wrote since, and that the last keys are those of the rows
\* that are fetched next.
LoadInv ==
  /\ LoadTypes
  /\ at = "related" /\ writes = readAt => parents = Page(Answering, Less, PageRead)
  /\ at = "fetch" => Len(batches) > 0 /\ batches[Len(batches)] = Keys(parents)
  /\ at = "rows" =>
       \A p \in waiting : Len(batches) > 0 /\ (Len(batches) = 1 => batches[1] = Keys({p}))
  /\ \A p \in DOMAIN attached : Own(p, attached[p]) /\ Whole(p, attached[p])

\* What was attached stays right while its page is the last one.
LEMMA OwnStays ==
  ASSUME UNCHANGED <<load, held, offset, parents>>, NEW p, NEW a, Own(p, a), Whole(p, a)
  PROVE  Own(p, a)' /\ Whole(p, a)'
<1>1. /\ ReadFrom(a)' = ReadFrom(a) /\ Single' = Single /\ PageRead' = PageRead
      /\ Accepted' = Accepted /\ AcceptedBefore' = AcceptedBefore /\ (Unfiltered' <=> Unfiltered)
    BY DEF ReadFrom, Single, PageRead, Accepted, AcceptedBefore, Unfiltered
<1>2. AskedFor(p, a)' = AskedFor(p, a)
    BY <1>1 DEF AskedFor, Page, RelatedTo
<1>3. CauseOf(p, a)' <=> CauseOf(p, a)
    BY <1>1 DEF CauseOf
<1>4. Own(p, a)'
    BY <1>1 DEF Own, RelatedTo
<1> QED
    BY <1>1, <1>2, <1>3, <1>4 DEF Whole

\* The keys of rows are parents or children.
LEMMA KeysType ==
  ASSUME LoadTypes, NEW rows \in SUBSET parents
  PROVE  Keys(rows) \in SUBSET (Parents \cup Children)
BY DEF LoadTypes, Pairs, Keys

LEMMA LoadInitially ==
  ASSUME LoadInit
  PROVE  LoadInv
<1>1. LoadTypes
    BY LoadShape, RelationLoadingAssumption DEF LoadInit, LoadTypes, Pairs, Query
<1> QED
    BY <1>1 DEF LoadInit, LoadInv

LEMMA ReadParentsLoads ==
  ASSUME LoadInv, ReadParents
  PROVE  LoadInv'
<1> DEFINE span == IF load.call = "chunk" THEN <<load.page[1], offset>> ELSE load.page
           found == Page(Answering, Less, span)
<1>1. /\ parents' = found /\ held' = links /\ attached' = <<>> /\ waiting' = {} /\ readAt' = writes
      /\ offset' = offset + Cardinality(found) /\ at' # "fetch"
      /\ UNCHANGED <<links, matching, load, batches, writes>>
    BY DEF ReadParents
<1>2. LoadTypes
    BY DEF LoadInv
<1>3. found \in SUBSET Parents
    BY PageOfRows, PartsAreAll
<1>4. PICK n \in Nat : n = Cardinality(found)
  <2> HIDE DEF found
  <2> QED
      BY <1>3, RelationLoadingAssumption, FS_Subset, FS_CardinalityType
<1>5. offset' \in Nat /\ offset' - n = offset
    BY <1>1, <1>2, <1>4 DEF LoadTypes
<1>6. LoadTypes'
  <2> HIDE DEF found
  <2> QED
      BY <1>1, <1>2, <1>3, <1>5 DEF LoadTypes
<1>7. PageRead' = span
  <2> HIDE DEF found
  <2> QED
      BY <1>1, <1>4, <1>5 DEF PageRead
<1>8. Page(Answering, Less, PageRead)' = found
  <2>1. Answering' = Answering
      BY <1>1 DEF Answering, EarlierParts, LastPart, Branch, Splits, Condition, HasRelated, RelatedTo
  <2>2. PICK s : s = PageRead'
      OBVIOUS
  <2>3. Page(Answering, Less, PageRead)' = Page(Answering', Less, s)
      BY <2>2
  <2> QED
      BY <1>7, <2>1, <2>2, <2>3
<1> HIDE DEF found
<1>9. DOMAIN attached' = {}
    BY <1>1
<1> QED
    BY <1>1, <1>6, <1>8, <1>9 DEF LoadInv

LEMMA JoinLoads ==
  ASSUME LoadInv, LoadRelationViaJoin
  PROVE  LoadInv'
<1>1. /\ at = "related" /\ at' \in {"parents", "done", "refused"}
      /\ attached' = attached \/ attached' = Attach(Joined, TRUE)
      /\ UNCHANGED <<links, matching, load, parents, held, offset, batches, waiting, writes, readAt>>
    BY DEF LoadRelationViaJoin, AfterPage
<1>2. LoadTypes'
    BY <1>1 DEF LoadInv, LoadTypes
<1>3. ASSUME NEW p \in DOMAIN attached' PROVE Own(p, attached[p])' /\ Whole(p, attached[p])'
  <2>1. PICK a : a = attached'[p]
      OBVIOUS
  <2>2. CASE attached' = attached
      BY <1>1, <2>1, <2>2, OwnStays DEF LoadInv
  <2>3. CASE attached' = Attach(Joined, TRUE)
    <3>1. p \in parents
        BY <2>3 DEF Attach, Joined
    <3>2. Own(p, a) /\ Whole(p, a)
        BY <1>1, <2>1, <2>3, <3>1, JoinIsRight DEF LoadInv
    <3>3. Own(p, a)' /\ Whole(p, a)'
        BY <1>1, <3>2, OwnStays
    <3> QED
        BY <2>1, <3>3
  <2> QED
      BY <1>1, <2>2, <2>3
<1> QED
    BY <1>1, <1>2, <1>3 DEF LoadInv

LEMMA AttachedAsBefore ==
  ASSUME LoadInv, UNCHANGED <<load, held, offset, parents, attached>>
  PROVE  \A p \in DOMAIN attached : Own(p, attached[p])' /\ Whole(p, attached[p])'
<1> SUFFICES ASSUME NEW p \in DOMAIN attached PROVE Own(p, attached[p])' /\ Whole(p, attached[p])'
    OBVIOUS
<1>1. PICK a : a = attached[p]
    OBVIOUS
<1>2. Own(p, a)' /\ Whole(p, a)'
    BY <1>1, OwnStays DEF LoadInv
<1> QED
    BY <1>1, <1>2

LEMMA BatchLoads ==
  ASSUME LoadInv, LoadRelationViaBatch
  PROVE  LoadInv'
<1>1. /\ batches' = Append(batches, Keys(parents)) /\ at' = "fetch"
      /\ UNCHANGED <<links, matching, load, parents, held, offset, waiting, attached, writes, readAt>>
    BY DEF LoadRelationViaBatch
<1>2. LoadTypes
    BY DEF LoadInv
<1>3. PICK k \in SUBSET (Parents \cup Children) : k = Keys(parents)
    BY <1>2, KeysType
<1>4. batches \in Seq(SUBSET (Parents \cup Children)) /\ batches' = Append(batches, k)
    BY <1>1, <1>2, <1>3 DEF LoadTypes
<1>5. /\ batches' \in Seq(SUBSET (Parents \cup Children))
      /\ Len(batches') > 0 /\ batches'[Len(batches')] = k
    BY <1>4
<1>6. LoadTypes'
    BY <1>1, <1>2, <1>5 DEF LoadTypes
<1>7. Keys(parents)' = k
    BY <1>1, <1>3 DEF Keys
<1>8. \A p \in DOMAIN attached : Own(p, attached[p])' /\ Whole(p, attached[p])'
    BY <1>1, AttachedAsBefore
<1>9. (batches[Len(batches)])' = k
    BY <1>5
<1> QED
    BY <1>1, <1>5, <1>6, <1>7, <1>8, <1>9 DEF LoadInv

LEMMA FetchLoads ==
  ASSUME LoadInv, Fetch
  PROVE  LoadInv'
<1>1. /\ at = "fetch" /\ at' \in {"refused", "parents", "done"}
      /\ attached' = attached \/ attached' = Attach(Batched(parents), FALSE)
      /\ UNCHANGED <<links, matching, load, parents, held, offset, batches, waiting, writes, readAt>>
    BY DEF Fetch, AfterPage
<1>2. LoadTypes /\ LoadTypes'
    BY <1>1 DEF LoadInv, LoadTypes
<1>3. CASE attached' = attached
  <2>1. \A p \in DOMAIN attached : Own(p, attached[p])' /\ Whole(p, attached[p])'
      BY <1>1, <1>3, AttachedAsBefore
  <2> QED
      BY <1>1, <1>2, <1>3, <2>1 DEF LoadInv
<1>4. CASE attached' = Attach(Batched(parents), FALSE)
  <2>1. ASSUME NEW p \in DOMAIN attached' PROVE Own(p, attached[p])' /\ Whole(p, attached[p])'
    <3>1. PICK a : a = attached'[p]
        OBVIOUS
    <3>2. p \in parents
        BY <1>4 DEF Attach, Batched
    <3>3. Len(batches) > 0 /\ batches[Len(batches)] = Keys(parents)
        BY <1>1 DEF LoadInv
    <3>4. Own(p, a) /\ Whole(p, a)
        BY <1>2, <1>4, <3>1, <3>2, <3>3, BatchIsRight
    <3>5. Own(p, a)' /\ Whole(p, a)'
        BY <1>1, <3>4, OwnStays
    <3> QED
        BY <3>1, <3>5
  <2> QED
      BY <1>1, <1>2, <2>1 DEF LoadInv
<1> QED
    BY <1>1, <1>3, <1>4

LEMMA StreamRowLoads ==
  ASSUME LoadInv, NEW p \in Parents, StreamRow(p)
  PROVE  LoadInv'
<1>1. /\ at = "rows" /\ p \in parents /\ batches' = Append(batches, Keys({p})) /\ waiting' = waiting \cup {p}
      /\ UNCHANGED <<links, matching, load, at, parents, held, offset, attached, writes, readAt>>
    BY DEF StreamRow
<1>2. LoadTypes
    BY DEF LoadInv
<1>3. PICK k \in SUBSET (Parents \cup Children) : k = Keys({p})
    BY <1>1, <1>2, KeysType
<1>4. batches \in Seq(SUBSET (Parents \cup Children)) /\ batches' = Append(batches, k)
    BY <1>1, <1>2, <1>3 DEF LoadTypes
<1>5. PICK n \in Nat : n = Len(batches)
    BY <1>4
<1>6. /\ batches' \in Seq(SUBSET (Parents \cup Children)) /\ Len(batches') = n + 1
      /\ n = 0 => batches'[1] = k
    BY <1>4, <1>5
<1>7. LoadTypes'
    BY <1>1, <1>2, <1>6 DEF LoadTypes
<1>8. \A q \in DOMAIN attached : Own(q, attached[q])' /\ Whole(q, attached[q])'
    BY <1>1, AttachedAsBefore
<1>9. \A q : Keys({q})' = Keys({q})
    BY <1>1 DEF Keys
<1>10. n = 0 => waiting = {}
    BY <1>1, <1>5 DEF LoadInv
<1>11. ASSUME NEW q \in waiting'
       PROVE  Len(batches') > 0 /\ (Len(batches') = 1 => batches'[1] = Keys({q})')
  <2>1. n = 0 => q = p
      BY <1>1, <1>10
  <2>2. Keys({q})' = Keys({q}) /\ (q = p => Keys({q}) = k)
      BY <1>3, <1>9
  <2> QED
      BY <1>6, <2>1, <2>2
<1> QED
    BY <1>1, <1>7, <1>8, <1>11 DEF LoadInv

LEMMA FillRowLoads ==
  ASSUME LoadInv, NEW p \in Parents, FillRow(p)
  PROVE  LoadInv'
<1>1. /\ at = "rows" /\ p \in waiting /\ waiting' = waiting \ {p} /\ at' \in {"refused", "done", "rows"}
      /\ \/ attached' = attached
         \/ attached' = [q \in DOMAIN attached \cup {p} |->
                           IF q = p THEN Attach(Batched({p}), FALSE)[p] ELSE attached[q]]
      /\ UNCHANGED <<links, matching, load, parents, held, offset, batches, writes, readAt>>
    BY DEF FillRow
<1>2. LoadTypes /\ LoadTypes'
    BY <1>1 DEF LoadInv, LoadTypes
<1>3. \A q : Keys({q})' = Keys({q})
    BY <1>1 DEF Keys
<1>4. \A q \in waiting' : Len(batches') > 0 /\ (Len(batches') = 1 => batches'[1] = Keys({q})')
    BY <1>1, <1>3 DEF LoadInv
<1>5. ASSUME NEW q \in DOMAIN attached' PROVE Own(q, attached[q])' /\ Whole(q, attached[q])'
  <2>1. PICK new : new = Attach(Batched({p}), FALSE)[p]
      OBVIOUS
  <2>2. (q \in DOMAIN attached /\ attached'[q] = attached[q]) \/ (q = p /\ attached'[q] = new)
      BY <1>1, <2>1
  <2>3. CASE q \in DOMAIN attached /\ attached'[q] = attached[q]
    <3>1. PICK a : a = attached[q]
        OBVIOUS
    <3>2. Own(q, a)' /\ Whole(q, a)'
        BY <1>1, <2>3, <3>1, OwnStays DEF LoadInv
    <3> QED
        BY <2>3, <3>1, <3>2
  <2>4. CASE q = p /\ attached'[q] = new
    <3>1. Len(batches) > 0 /\ (Len(batches) = 1 => batches[1] = Keys({p})) /\ p \in parents
        BY <1>1, <1>2 DEF LoadInv, LoadTypes
    <3>2. Own(p, new) /\ Whole(p, new)
        BY <1>2, <2>1, <3>1, BatchIsRight
    <3>3. Own(p, new)' /\ Whole(p, new)'
        BY <1>1, <3>2, OwnStays
    <3> QED
        BY <2>4, <3>3
  <2> QED
      BY <2>2, <2>3, <2>4
<1> QED
    BY <1>1, <1>2, <1>4, <1>5 DEF LoadInv

\* A write of another changes the tables only, and counts.
LEMMA OthersWrite ==
  ASSUME LoadInv, writes' = writes + 1, links' \in Pairs,
         load.type = "belongsTo" => \A x, y \in links' : x[1] = y[1] => x = y,
         UNCHANGED <<load, at, parents, held, offset, batches, waiting, attached, readAt>>
  PROVE  LoadInv'
<1>1. LoadTypes
    BY DEF LoadInv
<1>2. LoadTypes' /\ writes' # readAt'
    BY <1>1 DEF LoadTypes
<1>3. \A p \in DOMAIN attached : Own(p, attached[p])' /\ Whole(p, attached[p])'
    BY AttachedAsBefore
<1>4. \A rows : Keys(rows)' = Keys(rows)
    BY DEF Keys
<1>5. Keys(parents)' = Keys(parents)
    BY DEF Keys
<1> QED
    BY <1>2, <1>3, <1>4, <1>5 DEF LoadInv

LEMMA RelinkLoads ==
  ASSUME LoadInv, NEW p \in Parents, NEW c \in Children, Relink(p, c)
  PROVE  LoadInv'
<1> DEFINE freed == {x \in links : IF load.type = "belongsTo" THEN x[1] = p
                                   ELSE load.type # "manyToMany" /\ x[2] = c}
<1>1. /\ writes' = writes + 1
      /\ links' = IF <<p, c>> \in links THEN links \ {<<p, c>>} ELSE (links \ freed) \cup {<<p, c>>}
      /\ UNCHANGED <<matching, load, at, parents, held, offset, batches, waiting, attached, readAt>>
    BY DEF Relink
<1>2. links' \in Pairs
    BY <1>1 DEF LoadInv, LoadTypes, Pairs
<1>3. ASSUME load.type = "belongsTo" PROVE \A x, y \in links' : x[1] = y[1] => x = y
  <2>1. \A x, y \in links : x[1] = y[1] => x = y
      BY <1>3 DEF LoadInv, LoadTypes
  <2>2. \A x \in freed : x[1] = p
      BY <1>3
  <2>3. \A x \in links \ freed : x[1] # p
      BY <1>3
  <2> HIDE DEF freed
  <2> QED
      BY <1>1, <2>1, <2>3
<1> QED
    BY <1>1, <1>2, <1>3, OthersWrite

LEMMA AlterLoads ==
  ASSUME LoadInv, NEW p \in Parents, Alter(p)
  PROVE  LoadInv'
<1>1. /\ writes' = writes + 1
      /\ UNCHANGED <<links, load, at, parents, held, offset, batches, waiting, attached, readAt>>
    BY DEF Alter
<1>2. links' \in Pairs /\ (load.type = "belongsTo" => \A x, y \in links' : x[1] = y[1] => x = y)
    BY <1>1 DEF LoadInv, LoadTypes
<1> QED
    BY <1>1, <1>2, OthersWrite

\* The keys that a fetch goes by are those of the rows it is for, and what is attached to
\* the rows of the last page is right: for every table, page and number of writes.
THEOREM LoadInvariant == LoadSpec => []LoadInv
<1>1. LoadInit => LoadInv
    BY LoadInitially
<1>2. LoadInv /\ [LoadNext]_loadVars => LoadInv'
  <2> SUFFICES ASSUME LoadInv, [LoadNext]_loadVars PROVE LoadInv'
      OBVIOUS
  <2>1. ASSUME ReadParents PROVE LoadInv'
      BY <2>1, ReadParentsLoads
  <2>2. ASSUME LoadRelationViaJoin PROVE LoadInv'
      BY <2>2, JoinLoads
  <2>3. ASSUME LoadRelationViaBatch PROVE LoadInv'
      BY <2>3, BatchLoads
  <2>4. ASSUME Fetch PROVE LoadInv'
      BY <2>4, FetchLoads
  <2>5. ASSUME NEW p \in Parents, StreamRow(p) PROVE LoadInv'
      BY <2>5, StreamRowLoads
  <2>6. ASSUME NEW p \in Parents, FillRow(p) PROVE LoadInv'
      BY <2>6, FillRowLoads
  <2>7. ASSUME NEW p \in Parents, Alter(p) PROVE LoadInv'
      BY <2>7, AlterLoads
  <2>8. ASSUME NEW p \in Parents, NEW c \in Children, Relink(p, c) PROVE LoadInv'
      BY <2>8, RelinkLoads
  <2>9. ASSUME UNCHANGED loadVars PROVE LoadInv'
    <3>1. LoadTypes'
        BY <2>9 DEF LoadInv, LoadTypes, loadVars
    <3>2. \A p \in DOMAIN attached : Own(p, attached[p])' /\ Whole(p, attached[p])'
        BY <2>9, AttachedAsBefore DEF loadVars
    <3>3. Answering' = Answering /\ PageRead' = PageRead /\ \A rows : Keys(rows)' = Keys(rows)
        BY <2>9 DEF Answering, EarlierParts, LastPart, Branch, Splits, Condition, HasRelated, RelatedTo,
                   PageRead, Keys, loadVars
    <3>4. Page(Answering, Less, PageRead)' = Page(Answering, Less, PageRead) /\ Keys(parents)' = Keys(parents)
        BY <2>9, <3>3 DEF Page, Keys, loadVars
    <3> QED
        BY <2>9, <3>1, <3>2, <3>3, <3>4 DEF LoadInv, loadVars
  <2> QED
      BY <2>1, <2>2, <2>3, <2>4, <2>5, <2>6, <2>7, <2>8, <2>9, Zenon DEF LoadNext
<1> QED
    BY <1>1, <1>2, PTL DEF LoadSpec

\* What load() attaches to a parent is related to it and accepted by the relation's where,
\* and all of it unless one of the causes that the property names applies: joined, in one
\* batch, in chunks and in streams, with any writes between the two reads
\* (model_query_builder.ts 2242-2720).
THEOREM LoadsAreRelated == LoadSpec => []LoadsRelated
<1>1. LoadInv => LoadsRelated
  <2> SUFFICES ASSUME LoadInv PROVE LoadsRelated
      OBVIOUS
  <2>1. ASSUME NEW p \in DOMAIN attached
        PROVE  Own(p, attached[p]) /\ Whole(p, attached[p]) /\ ReadFrom(attached[p]) = Truth(p)
      BY DEF LoadInv, ReadFrom, Truth
  <2>2. NothingForeign
      BY <2>1 DEF NothingForeign, Own
  <2>3. ASSUME NEW p \in DOMAIN attached
        PROVE  Excused(p) \/ IF Single THEN Wanted(p) # {} => attached[p].rows # {}
                             ELSE Wanted(p) \subseteq attached[p].rows
    <3>1. AskedFor(p, attached[p]) = Wanted(p)
        BY <2>1 DEF AskedFor, Wanted
    <3>2. CauseOf(p, attached[p]) <=> Excused(p)
        BY DEF CauseOf, Excused
    <3> QED
        BY <2>1, <3>1, <3>2, Zenon DEF Whole
  <2>4. NothingMissing
      BY <2>3, Zenon DEF NothingMissing
  <2> QED
      BY <2>2, <2>4 DEF LoadsRelated
<1> QED
    BY <1>1, LoadInvariant, PTL
=================================================================================
