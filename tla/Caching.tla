------------------------------- MODULE Caching --------------------------------
(***************************************************************************)
(* useCache(), invalidCache() and invalidateAllCache() with the in-memory  *)
(* and the redis adapter, while the rows behind the cached values change.  *)
(*                                                                         *)
(* A cached key is a name of cacheKeys with the hash of the arguments; 0   *)
(* stands for no hash.  Values are versions of the rows a handler reads.   *)
(***************************************************************************)
EXTENDS Naturals, FiniteSets

CONSTANTS
  Adapters,   \* those considered
  Names,      \* keys of the cacheKeys configuration
  Prefixed,   \* <<m, n>> when the name n begins with m
  Users,      \* the callers of useCache()
  MaxVersion  \* bound on the changes of the rows

ASSUME CachingAssumption ==
  /\ Adapters \subseteq {"memory", "redis"} /\ MaxVersion \in Nat
  /\ Prefixed \subseteq Names \X Names

VARIABLES
  adapter,
  version,  \* of the rows
  store,    \* cached key -> value
  timers,   \* cached key -> whether a timer runs for it
  use,      \* the useCache() call of each user
  doomed,   \* the keys an invalidateAll() of redis has still to delete
  fresh,    \* history: the version a cached key was last invalidated at
  sets      \* history: what each timer was started for

cacheVars == <<adapter, version, store, timers, use, doomed, fresh, sets>>

CachedKeys == Names \X {0, 1}   \* 1: the hash of the arguments the callers give
Empty == 0                      \* versions begin at 1

Idle == [at |-> "idle", key |-> <<>>, value |-> Empty, ttl |-> FALSE]

CacheInit ==
  /\ adapter \in Adapters /\ version = 1
  /\ store = [k \in CachedKeys |-> Empty] /\ timers = [k \in CachedKeys |-> FALSE]
  /\ use = [u \in Users |-> Idle] /\ doomed = {}
  /\ fresh = [k \in CachedKeys |-> 0] /\ sets = [k \in CachedKeys |-> Empty]

\* useCache() up to its get(), where a value that is found is the answer and nothing
\* changes.  A list of arguments always has a hash.
Get(u, name, ttl) ==
  LET key == <<name, 1>>
  IN  /\ use[u].at = "idle" /\ store[key] = Empty
      /\ use' = [use EXCEPT ![u] = [at |-> "missed", key |-> key, value |-> Empty, ttl |-> ttl]]
      /\ UNCHANGED <<adapter, version, store, timers, doomed, fresh, sets>>

\* The handler reads the rows.
Handle(u) ==
  /\ use[u].at = "missed"
  /\ use' = [use EXCEPT ![u].at = "read", ![u].value = version]
  /\ UNCHANGED <<adapter, version, store, timers, doomed, fresh, sets>>

\* A mutant: the timer of the entry that is overwritten goes on.
SetKeepingTimer(u) ==
  LET key == use[u].key
  IN  /\ use[u].at = "read"
      /\ store' = [store EXCEPT ![key] = use[u].value]
      /\ timers' = [timers EXCEPT ![key] = @ \/ use[u].ttl]
      /\ sets' = [sets EXCEPT ![key] = IF use[u].ttl THEN use[u].value ELSE @]
      /\ use' = [use EXCEPT ![u] = Idle]
      /\ UNCHANGED <<adapter, version, doomed, fresh>>

\* set() drops the timer of the entry it overwrites.
Set(u) ==
  LET key == use[u].key
  IN  /\ use[u].at = "read"
      /\ store' = [store EXCEPT ![key] = use[u].value]
      /\ timers' = [timers EXCEPT ![key] = use[u].ttl]
      /\ sets' = [sets EXCEPT ![key] = IF use[u].ttl THEN use[u].value ELSE Empty]
      /\ use' = [use EXCEPT ![u] = Idle]
      /\ UNCHANGED <<adapter, version, doomed, fresh>>

\* The time to live of an entry is over.
Expire(key) ==
  /\ timers[key]
  /\ store' = [store EXCEPT ![key] = Empty]
  /\ timers' = [timers EXCEPT ![key] = FALSE]
  /\ sets' = [sets EXCEPT ![key] = Empty]
  /\ UNCHANGED <<adapter, version, use, doomed, fresh>>

Change ==
  /\ version < MaxVersion
  /\ version' = version + 1
  /\ UNCHANGED <<adapter, store, timers, use, doomed, fresh, sets>>

Removed(keys) ==
  /\ store' = [k \in CachedKeys |-> IF k \in keys THEN Empty ELSE store[k]]
  /\ timers' = [k \in CachedKeys |-> IF k \in keys THEN FALSE ELSE timers[k]]
  /\ sets' = [k \in CachedKeys |-> IF k \in keys THEN Empty ELSE sets[k]]

\* A fill that has read its rows stores them after the invalidation: such a key is
\* not known to be fresh, and one without a hash never has a value.
Racing(key) == \E u \in Users : use[u].at = "read" /\ use[u].key = key

Refreshed(keys) ==
  fresh' = [k \in CachedKeys |-> IF k \in keys /\ k[2] # 0 /\ ~Racing(k) THEN version ELSE fresh[k]]

\* invalidCache(): without the arguments of a handler that has some, the key has no
\* hash, and no value is stored under it.
InvalidCache(name, hash) ==
  /\ Removed({<<name, hash>>}) /\ Refreshed({<<name, hash>>})
  /\ UNCHANGED <<adapter, version, use, doomed>>

\* The in-memory adapter takes every key that begins with the name, another name's
\* too; redis those with a hash, found first and then deleted one by one.
Beginning(name) ==
  IF adapter = "memory" THEN {k \in CachedKeys : k[1] = name \/ <<name, k[1]>> \in Prefixed}
  ELSE {k \in CachedKeys : k[1] = name /\ k[2] # 0}

InvalidateAll(name) ==
  LET keys == Beginning(name)
  IN  /\ doomed = {}
      /\ \/ /\ adapter = "memory"
            /\ Removed(keys) /\ Refreshed(keys) /\ UNCHANGED doomed
         \/ /\ adapter = "redis"
            /\ doomed' = {k \in keys : store[k] # Empty}
            /\ UNCHANGED <<store, timers, sets, fresh>>
      /\ UNCHANGED <<adapter, version, use>>

DeleteOne(key) ==
  /\ key \in doomed /\ doomed' = doomed \ {key}
  /\ Removed({key}) /\ Refreshed({key})
  /\ UNCHANGED <<adapter, version, use>>

CacheNext ==
  \/ \E u \in Users, name \in Names, ttl \in BOOLEAN : Get(u, name, ttl)
  \/ \E u \in Users : Handle(u) \/ Set(u)
  \/ \E key \in CachedKeys : Expire(key) \/ DeleteOne(key)
  \/ Change
  \/ \E name \in Names, hash \in {0, 1} : InvalidCache(name, hash)
  \/ \E name \in Names : InvalidateAll(name)

CacheSpec == CacheInit /\ [][CacheNext]_cacheVars

-----------------------------------------------------------------------------
(* Properties.                                                             *)

\* What is cached is not older than the last invalidation of its key, and a timer
\* runs for the value it was started with; but for a fill that had read its rows
\* before the invalidation and stores them after it (sql_data_source.ts 697-698,
\* in_memory.ts 11-36).
NeverStale ==
  \A k \in CachedKeys :
    /\ store[k] # Empty => store[k] >= fresh[k]
    /\ timers[k] => store[k] = sets[k]
=============================================================================
