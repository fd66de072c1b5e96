----------------------------- MODULE MCDataAccess ------------------------------
(* The modules of the data path instantiated for TLC.  They share no state, so   *)
(* every behaviour is one of them, chosen at first, with the others at rest.     *)
EXTENDS RelationLoading, ModelWrites, Streaming, Caching, Replication, MongoQuery, MongoSession,
        RedisSource

VARIABLE part   \* the module whose behaviour it is

-----------------------------------------------------------------------------
(* Relation loading: parents 0, 1, 2 and related rows 1, 2.                     *)

Load0 ==
  [type |-> "hasMany", strategy |-> "auto", nested |-> FALSE, where |-> <<Children>>, hidden |-> {},
   span |-> All, alike |-> FALSE, call |-> "many", page |-> All, having |-> <<>>]

\* Which of the foreign keys a table of the type can hold, one row left out of the
\* through tables.
MCTables ==
  LET all == SUBSET (Parents \X Children)
      one(side) == {t \in all : \A x, y \in t : x[side] = y[side] => x = y}
  IN  [hasOne |-> one(2), hasMany |-> one(2), belongsTo |-> one(1), manyToMany |-> {t \in all : <<2, 1>> \notin t}]

OneHaving(or) == {[or |-> or, not |-> FALSE, counts |-> 0..1], [or |-> or, not |-> TRUE, counts |-> 1..2]}

Having ==
  {<<x>> : x \in OneHaving(FALSE) \cup OneHaving(TRUE)}
    \cup {<<x, y>> : x \in OneHaving(FALSE), y \in OneHaving(TRUE)}

\* The last chunk of a page of two has one parent, which is joined.
MCLoads ==
  UNION
    {{[Load0 EXCEPT !.type = t, !.strategy = s] : s \in {"auto", "join", "batched"}}
       \cup {[Load0 EXCEPT !.type = t, !.having = h] :
               h \in IF t = "manyToMany" THEN {x \in Having : Len(x) = 1} ELSE Having}
       \cup {[Load0 EXCEPT !.type = t, !.strategy = "join", !.having = <<x>>, !.where = w] :
               x \in {y \in OneHaving(TRUE) : ~y.not}, w \in {<<{1}>>, <<{1}, {2}>>}}
       \cup {[Load0 EXCEPT !.type = t, !.strategy = s, !.where = w, !.hidden = h, !.page = p] :
               s \in {"join", "batched"}, w \in {<<{1}>>, <<Children>>}, h \in {{}, {1}}, p \in {All, <<2, 1>>}}
       \cup {[Load0 EXCEPT !.type = t, !.span = <<1, 0>>, !.where = w] : w \in {<<{2}>>, <<Children>>}}
       \cup {[Load0 EXCEPT !.type = t, !.strategy = s, !.where = <<{1}, {2}>>, !.hidden = h, !.span = l] :
               s \in {"join", "batched"}, h \in {{}, {1, 2}}, l \in {All, <<1, 1>>}}
       \cup {[Load0 EXCEPT !.type = t, !.call = "chunk", !.page = <<1, 0>>, !.strategy = s] :
               s \in {"join", "batched"}}
       \cup {[Load0 EXCEPT !.type = t, !.call = "chunk", !.page = <<2, 0>>, !.span = l, !.alike = a] :
               l \in {All, <<1, 0>>}, a \in BOOLEAN}
       \cup {[Load0 EXCEPT !.type = t, !.call = "chunk", !.page = <<2, 0>>, !.having = <<x>>] : x \in OneHaving(TRUE)}
       \cup {[Load0 EXCEPT !.type = t, !.call = "stream"], [Load0 EXCEPT !.type = t, !.nested = TRUE]}
     : t \in Types}

-----------------------------------------------------------------------------
(* Writes: rows with equal and with different unique columns.                   *)

Row(a, b, v) == [a |-> a, b |-> b, v |-> v]
Call0(name, data) == [name |-> name, data |-> data, on |-> <<>>, update |-> FALSE, sets |-> {}, id |-> 1]

\* <<1, 1>> is in the table at first, the others are not.
MCCalls ==
  {Call0("insert", <<r>>) : r \in {Row(2, 1, 1), Row(1, 1, 1)}}
    \cup {Call0("insertMany", d) :
            d \in {<<Row(2, 2, 1), Row(3, 1, 1)>>, <<Row(2, 1, 1), Row(1, 1, 1)>>, <<Row(2, 2, 1), Row(2, 2, 1)>>}}
    \cup {[Call0("upsertMany", d) EXCEPT !.on = c, !.update = s # {}, !.sets = s] :
            d \in {<<Row(2, 1, 2), Row(1, 1, 2)>>, <<Row(2, 1, 2), Row(2, 2, 2)>>, <<Row(1, 2, 2)>>},
            c \in Indexes \ {<<>>}, s \in {{}, {"a"}, {"a", "v"}}}
    \cup {[Call0("upsertMany", <<Row(1, 2, 2)>>) EXCEPT !.on = <<"a">>, !.update = TRUE]}
    \cup {Call0("firstOrInsert", <<Row(2, 1, 3)>>)}
    \cup {[Call0("updateRecord", <<Row(1, 1, 4)>>) EXCEPT !.id = i] : i \in {1, 2}}
    \cup {[Call0("deleteRecord", <<>>) EXCEPT !.id = i] : i \in {1, 2}}

-----------------------------------------------------------------------------
(* Mongo: clauses on _id and on the field, and the calls of two managers.       *)

Clause0(method, or, on, values, op) ==
  [method |-> method, or |-> or, on |-> on, values |-> values, op |-> op]

\* Those that are misread are given once, the others with "and" and with "or".
MCClauses ==
  UNION
    {{Clause0("where", or, "field", <<2>>, op) : op \in {"$eq", "$ne", "$gt"}}
       \cup {Clause0("where", or, "id", <<v>>, "$eq") : v \in {2, 3}}
       \cup {Clause0(m, or, "field", <<>>, "$eq") : m \in {"exists", "notExists", "null", "notNull"}}
       \cup {Clause0(m, or, "field", <<2>>, "$eq") : m \in {"not", "like", "notLike"}}
       \cup {Clause0(m, or, "field", <<2, 3>>, "$eq") : m \in {"in", "notIn", "between"}}
       \cup {Clause0(m, or, "id", <<2, 3>>, "$eq") : m \in {"in", "notIn"}}
       \cup {Clause0("raw", or, "field", <<3>>, "$eq")}
     : or \in BOOLEAN}
    \cup {Clause0("where", FALSE, "id", <<2>>, "$gt")}
    \cup {Clause0(m, FALSE, "id", <<2, 3>>, "$eq") : m \in {"exists", "null", "not", "between"}}
    \cup {Clause0("notBetween", or, on, <<2, 3>>, "$eq") : or \in BOOLEAN, on \in {"id", "field"}}
    \cup {Clause0("raw", FALSE, "field", <<3>>, op) : op \in {"$and", "$or"}}
    \cup {Clause0("raw", FALSE, "field", <<2, 3>>, "$eq")}

MCContents == {<<0, 1, 2, 3>>}
MCHooks == {<<>>, <<Clause0("notNull", FALSE, "field", <<>>, "$eq")>>}

MCSessionCalls ==
  {[name |-> "insert", many |-> n, id |-> 0, v |-> 0] : n \in 1..2}
    \cup {[name |-> n, many |-> 1, id |-> 1, v |-> 2] :
            n \in {"query insert", "find", "updateRecord", "deleteRecord"}}
    \cup {[name |-> "updateRecord", many |-> 1, id |-> 2, v |-> 2]}

-----------------------------------------------------------------------------
(* Redis: keys of three types, one channel.                                     *)

RedisKey(do, type) == [do |-> do, type |-> type, value |-> "a text"]

MCCommands ==
  {[RedisKey("write", x[1]) EXCEPT !.value = x[2]] :
     x \in {<<"string", "false">>, <<"hash", "object">>, <<"list", "number">>}}
    \cup {RedisKey("read", t) : t \in {"string", "hash"}}
    \cup {RedisKey("consume", t) : t \in {"string", "list"}}
    \cup {RedisKey("delete", "string")}
    \cup {[do |-> d, channel |-> "c"] : d \in {"subscribe", "unsubscribe", "publish"}}
    \cup {[do |-> d] : d \in {"ask", "connect", "disconnect"}}

-----------------------------------------------------------------------------
(* The rest of the constants, and the whole.                                    *)

MCHidings == {{}, {1, 4}, {2}}
MCIndexes == {<<>>, <<"a">>, <<"a", "b">>}
MCPrefixed == {<<"u", "us">>}
MCConfigurations == {c \in Configuration : (c.random => c.callback) /\ ~(c.lazy /\ c.callback)}
\* A query builder without a mode reads as with "slave", rawQuery() as with "master".
MCRequests == {r \in Request : IF r.raw THEN r.mode # "none" ELSE r.mode # "slave"}

LoadAtRest == load = Load0 /\ links = {} /\ LoadInit
WriteAtRest ==
  dialect = "mysql" /\ index = <<>> /\ hidden = {} /\ call = [w \in Writers |-> Call0("deleteRecord", <<>>)] /\ WriteInit
StreamAtRest == driver = "sqlite" /\ onData = FALSE /\ StreamInit
CacheAtRest == adapter = "memory" /\ CacheInit
ReplAtRest ==
  /\ setup = [lazy |-> FALSE, callback |-> FALSE, random |-> FALSE]
  /\ request = [u \in Readers |-> [inside |-> FALSE, raw |-> FALSE, mode |-> "none"]]
  /\ ReplInit
FilterAtRest == field = <<0, 1, 2, 3>> /\ hook = <<>> /\ MongoInit
SessionAtRest == SessionInit
RedisAtRest == lazyLoad = FALSE /\ RedisInit

\* Every module at rest but one.
OthersAtRest(name) ==
  /\ name = "load" \/ LoadAtRest
  /\ name = "write" \/ WriteAtRest
  /\ name = "stream" \/ StreamAtRest
  /\ name = "cache" \/ CacheAtRest
  /\ name = "replicas" \/ ReplAtRest
  /\ name = "filter" \/ FilterAtRest
  /\ name = "session" \/ SessionAtRest
  /\ name = "redis" \/ RedisAtRest

DataInit ==
  \/ part = "load" /\ LoadInit /\ OthersAtRest("load")
  \/ part = "write" /\ WriteInit /\ OthersAtRest("write")
  \/ part = "stream" /\ StreamInit /\ OthersAtRest("stream")
  \/ part = "cache" /\ CacheInit /\ OthersAtRest("cache")
  \/ part = "replicas" /\ ReplInit /\ OthersAtRest("replicas")
  \/ part = "filter" /\ MongoInit /\ OthersAtRest("filter")
  \/ part = "session" /\ SessionInit /\ OthersAtRest("session")
  \/ part = "redis" /\ RedisInit /\ OthersAtRest("redis")

Part(name) == part = name /\ UNCHANGED part

DataNext ==
  \/ Part("load") /\ LoadNext
     /\ UNCHANGED <<writeVars, streamVars, cacheVars, replVars, mongoVars, sessionVars, redisVars>>
  \/ Part("write") /\ WriteNext
     /\ UNCHANGED <<loadVars, streamVars, cacheVars, replVars, mongoVars, sessionVars, redisVars>>
  \/ Part("stream") /\ StreamNext
     /\ UNCHANGED <<loadVars, writeVars, cacheVars, replVars, mongoVars, sessionVars, redisVars>>
  \/ Part("cache") /\ CacheNext
     /\ UNCHANGED <<loadVars, writeVars, streamVars, replVars, mongoVars, sessionVars, redisVars>>
  \/ Part("replicas") /\ ReplNext
     /\ UNCHANGED <<loadVars, writeVars, streamVars, cacheVars, mongoVars, sessionVars, redisVars>>
  \/ Part("filter") /\ MongoNext
     /\ UNCHANGED <<loadVars, writeVars, streamVars, cacheVars, replVars, sessionVars, redisVars>>
  \/ Part("session") /\ SessionNext
     /\ UNCHANGED <<loadVars, writeVars, streamVars, cacheVars, replVars, mongoVars, redisVars>>
  \/ Part("redis") /\ RedisNext
     /\ UNCHANGED <<loadVars, writeVars, streamVars, cacheVars, replVars, mongoVars, sessionVars>>

DataSpec ==
  /\ DataInit
  /\ [][DataNext]_<<part, loadVars, writeVars, streamVars, cacheVars, replVars, mongoVars, sessionVars, redisVars>>
=============================================================================
