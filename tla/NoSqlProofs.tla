------------------------------ MODULE NoSqlProofs ------------------------------
(***************************************************************************)
(* What the data sources without SQL promise, for any number of callers,   *)
(* clients, channels, documents and clauses.                               *)
(***************************************************************************)
EXTENDS RedisSource, MongoSession, MongoQuery,
        TLAPS, FiniteSetTheorems, SequenceTheorems, WellFoundedInduction

-----------------------------------------------------------------------------
(* Redis: types.                                                           *)

Progress ==
  {"done", "rejected", "importing", "pinging", "quitting", "waiting", "ready", "consuming", "subscribed"}

LifeTypeOK ==
  /\ isConnected \in BOOLEAN
  /\ made \in 0..MaxClients /\ ioRedis \in 0..made /\ opened \subseteq 1..made
  /\ connecting \in RedisUsers \cup {"none"}

DataTypeOK ==
  /\ texts \in [DataTypes -> SUBSET Texts] /\ stored \in [DataTypes -> SUBSET (Typed \cup Texts)]
  /\ consumed \in [RedisUsers -> SUBSET Texts]
  /\ fetched \in [RedisUsers -> SUBSET (Typed \cup Texts)]

SubTypeOK ==
  /\ channels \in [1..MaxClients -> SUBSET Channels]
  /\ handlers \in [1..MaxClients -> SUBSET (Channels \X RedisUsers)]
  /\ listening \subseteq Channels \X RedisUsers /\ undelivered \subseteq Channels \X RedisUsers

UserTypeOK ==
  /\ commanded \in [RedisUsers -> Nat] /\ command \in [RedisUsers -> Command]
  /\ progress \in [RedisUsers -> Progress] /\ awaited \in [RedisUsers -> 0..made]

RedisTypeOK == LifeTypeOK /\ DataTypeOK /\ SubTypeOK /\ UserTypeOK

\* A command that waits for a handler is a subscribe(), one that is about to delete the
\* key it read a consume() of a text.
Halves ==
  \A u \in RedisUsers :
    /\ progress[u] = "subscribed" => command[u].do = "subscribe"
    /\ progress[u] = "consuming" => command[u].do = "consume" /\ command[u].type = "string"

\* A command belongs to the kind its name says.
LEMMA CommandFields ==
  ASSUME NEW c \in Command
  PROVE  /\ c.do \in {"write", "read", "consume", "delete"} =>
              c.type \in DataTypes /\ c.value \in Typed \cup Texts
         /\ c.do \in {"subscribe", "unsubscribe", "publish"} => c.channel \in Channels
         /\ c.do \in {"write", "read", "consume", "delete", "subscribe", "unsubscribe", "publish",
                      "ask", "connect", "disconnect"}
BY DEF Command

\* Texts read as values.
LEMMA TextsAndValues ==
  /\ \A v \in Typed \cup Texts : Stored(v) \in Texts /\ GetValue(Stored(v)) \subseteq ReadsAs(v)
  /\ \A t \in Texts : GetValue(t) \subseteq Typed \cup Texts
  /\ \A ts \in SUBSET Texts : Values(ts) \subseteq Typed \cup Texts
<1>1. ASSUME NEW v \in Typed \cup Texts PROVE Stored(v) \in Texts /\ GetValue(Stored(v)) \subseteq ReadsAs(v)
    BY DEF Typed, Texts, Stored, GetValue, ReadsAs
<1>2. \A t \in Texts : GetValue(t) \subseteq Typed \cup Texts
    BY DEF Texts, Typed, GetValue
<1>3. \A ts \in SUBSET Texts : Values(ts) \subseteq Typed \cup Texts
    BY <1>2 DEF Values
<1> QED
    BY <1>1, <1>2, <1>3

LEMMA RedisTypesInitially == RedisInit => RedisTypeOK /\ Halves
<1> SUFFICES ASSUME RedisInit PROVE RedisTypeOK /\ Halves
    OBVIOUS
<1>1. [do |-> "connect"] \in Command
    BY DEF Command
<1>2. LifeTypeOK
  <2>1. isConnected = FALSE /\ ioRedis = 0 /\ made = 0 /\ opened = {} /\ connecting = "none"
      BY DEF RedisInit
  <2>2. isConnected \in BOOLEAN /\ connecting \in RedisUsers \cup {"none"}
      BY <2>1, Zenon
  <2>3. made \in 0..MaxClients /\ ioRedis \in 0..made /\ opened \subseteq 1..made
      BY <2>1, RedisAssumption
  <2> QED
      BY <2>2, <2>3 DEF LifeTypeOK
<1>3. DataTypeOK /\ SubTypeOK
  <2>1. /\ texts = [t \in DataTypes |-> {}] /\ stored = texts
        /\ consumed = [u \in RedisUsers |-> {}] /\ fetched = consumed
        /\ channels = [k \in 1..MaxClients |-> {}] /\ handlers = channels
        /\ listening = {} /\ undelivered = {}
      BY DEF RedisInit
  <2> QED
      BY <2>1 DEF DataTypeOK, SubTypeOK
<1>4. UserTypeOK /\ Halves
    BY <1>1, RedisAssumption DEF RedisInit, UserTypeOK, Progress, Halves
<1> QED
    BY <1>2, <1>3, <1>4 DEF RedisTypeOK

-----------------------------------------------------------------------------
(* Redis: what a step does to its caller.                                  *)

\* A caller gives a command, which runs up to its first await.
LEMMA Given ==
  ASSUME RedisTypeOK, NEW u \in RedisUsers, GiveCommand(u)
  PROVE  \E c \in Command, to \in Progress :
           /\ command' = [command EXCEPT ![u] = c] /\ commanded' \in [RedisUsers -> Nat]
           /\ fetched' = [fetched EXCEPT ![u] = {}]
           /\ progress' = [progress EXCEPT ![u] = to] /\ progress[u] \in {"done", "rejected"}
           /\ awaited' = awaited \/ awaited' = [awaited EXCEPT ![u] = ioRedis]
           /\ UNCHANGED <<texts, consumed, stored, subVars, isConnected, ioRedis, opened, made>>
           /\ to \in {"done", "rejected", "ready", "importing", "waiting", "quitting"}
           /\ to = "quitting" => isConnected /\ awaited' = [awaited EXCEPT ![u] = ioRedis]
           /\ to = "importing" => ~isConnected
           /\ \/ disturbed' = disturbed /\ (to = "importing" => c.do = "connect" /\ Connects = {})
              \/ disturbed' = disturbed /\ c.do # "connect" /\ connecting = "none" /\ Explicit = {}
              \/ disturbed' = disturbed \cup {"overlap"}
           /\ \/ connecting' = connecting /\ (to = "importing" => c.do = "connect")
              \/ connecting = "none" /\ connecting' = u /\ to = "importing" /\ c.do # "connect"
<1>1. PICK c \in Commands :
        /\ commanded' = [commanded EXCEPT ![u] = @ + 1] /\ command' = [command EXCEPT ![u] = c]
        /\ fetched' = [fetched EXCEPT ![u] = {}]
        /\ \/ c.do = "connect" /\ Connect(u)
           \/ c.do = "disconnect" /\ Disconnect(u)
           \/ Direct(c) /\ Send(u)
           \/ /\ c.do \notin {"connect", "disconnect"} /\ ~Direct(c)
              /\ \/ Await(u)
                 \/ ~isConnected /\ ~lazyLoad /\ Rejects(u, "CONNECTION_NOT_ESTABLISHED")
                    /\ UNCHANGED <<connecting, disturbed>>
              /\ UNCHANGED <<lazyLoad, isConnected, ioRedis, opened, made, awaited>>
    BY DEF GiveCommand
<1>2. /\ UNCHANGED <<texts, consumed, stored, subVars>> /\ c \in Command
      /\ progress[u] \in {"done", "rejected"} /\ commanded' \in [RedisUsers -> Nat]
    BY <1>1, RedisAssumption DEF GiveCommand, RedisTypeOK, UserTypeOK
<1>3. CASE c.do = "connect" /\ Connect(u)
  <2>1. UNCHANGED <<isConnected, ioRedis, opened, made, connecting, awaited>>
      BY <1>3 DEF Connect, lifeVars
  <2>2. PICK to \in {"done", "importing"} :
          /\ progress' = [progress EXCEPT ![u] = to]
          /\ to = "importing" => ~isConnected
          /\ to = "done" => isConnected
      BY <1>3 DEF Connect, Resolves, Advance
  <2>3. \/ disturbed' = disturbed /\ (to = "importing" => Connects = {})
        \/ disturbed' = disturbed \cup {"overlap"}
      BY <1>3, <2>2 DEF Connect, Disturb
  <2>4. to \in Progress
      BY DEF Progress
  <2> QED
      BY <1>1, <1>2, <1>3, <2>1, <2>2, <2>3, <2>4
<1>4. CASE c.do = "disconnect" /\ Disconnect(u)
  <2>1. UNCHANGED <<isConnected, ioRedis, opened, made, connecting, disturbed>>
      BY <1>4 DEF Disconnect, lifeVars
  <2>2. PICK to \in {"done", "quitting"} :
          /\ progress' = [progress EXCEPT ![u] = to]
          /\ IF to = "quitting" THEN isConnected /\ awaited' = [awaited EXCEPT ![u] = ioRedis] ELSE awaited' = awaited
      BY <1>4 DEF Disconnect, Advance
  <2>3. to \in Progress
      BY DEF Progress
  <2> QED
      BY <1>1, <1>2, <2>1, <2>2, <2>3
<1>5. CASE Direct(c) /\ Send(u)
  <2>1. UNCHANGED <<isConnected, ioRedis, opened, made, connecting, disturbed>>
      BY <1>5 DEF Send, lifeVars
  <2>2. PICK to \in {"rejected", "ready"} :
          progress' = [progress EXCEPT ![u] = to] /\ awaited' = [awaited EXCEPT ![u] = ioRedis]
      BY <1>5 DEF Send, Advance, Rejects
  <2>3. to \in Progress
      BY DEF Progress
  <2> QED
      BY <1>1, <1>2, <2>1, <2>2, <2>3
<1>6. CASE /\ c.do \notin {"connect", "disconnect"} /\ ~Direct(c) /\ Await(u)
           /\ UNCHANGED <<lazyLoad, isConnected, ioRedis, opened, made, awaited>>
  <2>1. PICK to \in {"ready", "importing", "waiting"} :
          /\ progress' = [progress EXCEPT ![u] = to]
          /\ IF to = "importing"
             THEN ~isConnected /\ connecting = "none" /\ connecting' = u /\ Disturb("overlap", Explicit # {})
             ELSE UNCHANGED <<connecting, disturbed>>
      BY <1>6 DEF Await, Advance, RedisTypeOK, LifeTypeOK
  <2>2. \/ to # "importing" /\ disturbed' = disturbed
        \/ disturbed' = disturbed /\ connecting = "none" /\ Explicit = {}
        \/ disturbed' = disturbed \cup {"overlap"}
      BY <2>1 DEF Disturb
  <2>3. to \in Progress
      BY DEF Progress
  <2> QED
      BY <1>1, <1>2, <1>6, <2>1, <2>2, <2>3
<1>7. CASE /\ Rejects(u, "CONNECTION_NOT_ESTABLISHED") /\ UNCHANGED <<connecting, disturbed>>
           /\ UNCHANGED <<lazyLoad, isConnected, ioRedis, opened, made, awaited>>
  <2>1. progress' = [progress EXCEPT ![u] = "rejected"] /\ "rejected" \in Progress
      BY <1>7 DEF Rejects, Advance, Progress
  <2> QED
      BY <1>1, <1>2, <1>7, <2>1
<1> QED
    BY <1>1, <1>3, <1>4, <1>5, <1>6, <1>7

\* The connect() of u, and the commands that share it, settle.
LEMMA SettledUsers ==
  ASSUME RedisTypeOK, Halves, NEW u \in RedisUsers, NEW to \in {"ready", "rejected"}, NEW why,
         progress[u] = "pinging", Settled(u, to, why), UNCHANGED <<command, commanded, awaited, made>>
  PROVE  /\ UserTypeOK' /\ Halves' /\ connecting' \in RedisUsers \cup {"none"}
         /\ progress'[u] \in {"ready", "rejected", "done"}
         /\ \A v \in RedisUsers \ {u} :
              progress'[v] = progress[v] \/ (progress[v] = "waiting" /\ progress'[v] = to)
         /\ connecting' = connecting \/ (connecting = u /\ connecting' = "none")
<1> DEFINE shared == IF connecting = u THEN {u} \cup {v \in RedisUsers : progress[v] = "waiting"} ELSE {}
<1>1. /\ progress' = [v \in RedisUsers |->
                       CASE v \in shared -> to
                         [] v = u /\ v \notin shared -> IF to = "ready" THEN "done" ELSE to
                         [] OTHER -> progress[v]]
      /\ connecting' = IF connecting = u THEN "none" ELSE connecting
    BY DEF Settled
<1>2. progress'[u] \in {"ready", "rejected", "done"}
    BY <1>1
<1>3. ASSUME NEW v \in RedisUsers \ {u}
      PROVE  progress'[v] = progress[v] \/ (progress[v] = "waiting" /\ progress'[v] = to)
    BY <1>1
<1>4. ASSUME NEW v \in RedisUsers
      PROVE  progress'[v] \in Progress /\ progress'[v] \in {progress[v], "ready", "rejected", "done"}
    BY <1>2, <1>3 DEF Progress, RedisTypeOK, UserTypeOK
<1>5. progress' \in [RedisUsers -> Progress]
    BY <1>1, <1>4
<1>6. UserTypeOK' /\ Halves'
    BY <1>4, <1>5 DEF RedisTypeOK, UserTypeOK, Halves
<1>7. connecting' \in RedisUsers \cup {"none"}
    BY <1>1 DEF RedisTypeOK, LifeTypeOK
<1> QED
    BY <1>1, <1>2, <1>3, <1>6, <1>7

\* A command runs on the client, is refused, or is left half done.
LEMMA Ran ==
  ASSUME RedisTypeOK, NEW u \in RedisUsers, RunCommand(u)
  PROVE  \E to \in {"done", "rejected", "consuming", "subscribed"} :
           /\ progress' = [progress EXCEPT ![u] = to] /\ progress[u] = "ready"
           /\ UNCHANGED <<lifeVars, commanded, command, awaited>>
           /\ to = "subscribed" => command[u].do = "subscribe"
           /\ to = "consuming" => command[u].do = "consume" /\ command[u].type = "string"
           /\ \/ UNCHANGED <<dataVars, subVars, disturbed>> /\ to = "rejected"
              \/ RunWrite(u, command[u])
              \/ RunDelete(u, command[u])
              \/ RunRead(u, command[u])
              \/ RunConsume(u, command[u])
              \/ RunAsk(u, command[u])
              \/ RunPublish(u, command[u])
              \/ RunSubscribe(u, command[u]) /\ ~Refused(ioRedis, command[u])
              \/ RunUnsubscribe(u, command[u]) /\ ~Refused(ioRedis, command[u])
<1> DEFINE c == command[u]
<1>1. /\ progress[u] = "ready" /\ UNCHANGED <<lifeVars, commanded, command>>
      /\ \/ Rejects(u, "FAILED") /\ UNCHANGED <<dataVars, subVars, awaited, disturbed>>
         \/ RunWrite(u, c) \/ RunDelete(u, c) \/ RunRead(u, c) \/ RunConsume(u, c)
         \/ RunAsk(u, c) \/ RunPublish(u, c)
         \/ RunSubscribe(u, c) /\ ~Refused(ioRedis, c)
         \/ RunUnsubscribe(u, c) /\ ~Refused(ioRedis, c)
    BY DEF RunCommand, RunSubscribe, RunUnsubscribe, Direct
<1>2. CASE Rejects(u, "FAILED") /\ UNCHANGED <<dataVars, subVars, awaited, disturbed>>
    BY <1>1, <1>2 DEF Rejects, Advance
<1>3. CASE RunWrite(u, c)
    BY <1>1, <1>3 DEF RunWrite, Resolves, Advance
<1>4. CASE RunDelete(u, c)
    BY <1>1, <1>4 DEF RunDelete, Resolves, Advance
<1>5. CASE RunRead(u, c)
    BY <1>1, <1>5 DEF RunRead, Resolves, Advance
<1>6. CASE RunConsume(u, c)
  <2>1. UNCHANGED awaited /\ c.do = "consume"
      BY <1>6 DEF RunConsume
  <2>2. \/ progress' = [progress EXCEPT ![u] = "done"]
        \/ progress' = [progress EXCEPT ![u] = "consuming"] /\ c.type = "string"
      BY <1>6 DEF RunConsume, Resolves, Advance
  <2> QED
      BY <1>1, <1>6, <2>1, <2>2
<1>7. CASE RunAsk(u, c)
    BY <1>1, <1>7 DEF RunAsk, Resolves, Advance
<1>8. CASE RunPublish(u, c)
    BY <1>1, <1>8 DEF RunPublish, Resolves, Advance
<1>9. CASE RunSubscribe(u, c) /\ ~Refused(ioRedis, c)
    BY <1>1, <1>9 DEF RunSubscribe, Advance
<1>10. CASE RunUnsubscribe(u, c) /\ ~Refused(ioRedis, c)
    BY <1>1, <1>10 DEF RunUnsubscribe, Resolves, Advance
<1> QED
    BY <1>1, <1>2, <1>3, <1>4, <1>5, <1>6, <1>7, <1>8, <1>9, <1>10

\* A caller that advances alone.
LEMMA UserAdvances ==
  ASSUME RedisTypeOK, Halves, NEW u \in RedisUsers, NEW to \in Progress,
         progress' = [progress EXCEPT ![u] = to], UNCHANGED <<command, commanded>>,
         awaited' \in [RedisUsers -> 0..made'],
         to = "subscribed" => command[u].do = "subscribe",
         to = "consuming" => command[u].do = "consume" /\ command[u].type = "string"
  PROVE  UserTypeOK' /\ Halves'
<1>1. progress' \in [RedisUsers -> Progress]
    BY DEF RedisTypeOK, UserTypeOK
<1>2. \A v \in RedisUsers : progress'[v] = IF v = u THEN to ELSE progress[v]
    BY DEF RedisTypeOK, UserTypeOK
<1> QED
    BY <1>1, <1>2 DEF RedisTypeOK, UserTypeOK, Halves

\* The kinds of values that come and go.
LEMMA RanTypes ==
  ASSUME RedisTypeOK, Halves, NEW u \in RedisUsers, RunCommand(u)
  PROVE  RedisTypeOK' /\ Halves'
<1> DEFINE c == command[u]
<1>1. PICK to \in {"done", "rejected", "consuming", "subscribed"} :
           /\ progress' = [progress EXCEPT ![u] = to]
           /\ UNCHANGED <<lifeVars, commanded, command, awaited>>
           /\ to = "subscribed" => command[u].do = "subscribe"
           /\ to = "consuming" => command[u].do = "consume" /\ command[u].type = "string"
           /\ \/ UNCHANGED <<dataVars, subVars, disturbed>>
              \/ RunWrite(u, c) \/ RunDelete(u, c) \/ RunRead(u, c) \/ RunConsume(u, c)
              \/ RunAsk(u, c) \/ RunPublish(u, c)
              \/ RunSubscribe(u, c) /\ ~Refused(ioRedis, c)
              \/ RunUnsubscribe(u, c)
    BY Ran, Zenon
<1>2. UserTypeOK' /\ Halves'
  <2>1. to \in Progress
      BY DEF Progress
  <2>2. awaited' \in [RedisUsers -> 0..made']
      BY <1>1 DEF lifeVars, RedisTypeOK, UserTypeOK
  <2> QED
      BY <1>1, <2>1, <2>2, UserAdvances
<1>3. LifeTypeOK'
  <2>1. UNCHANGED <<isConnected, made, ioRedis, opened, connecting>>
      BY <1>1 DEF lifeVars
  <2> QED
      BY <2>1 DEF LifeTypeOK, RedisTypeOK
<1>4. c \in Command
    BY DEF RedisTypeOK, UserTypeOK
<1>5. DataTypeOK'
  <2>1. CASE UNCHANGED dataVars
      BY <2>1 DEF dataVars, DataTypeOK, RedisTypeOK
  <2>2. CASE RunWrite(u, c)
    <3>1. c.type \in DataTypes /\ c.value \in Typed \cup Texts /\ Stored(c.value) \in Texts
        BY <1>4, <2>2, CommandFields, TextsAndValues DEF RunWrite
    <3>2. Added(c.type, Stored(c.value)) \subseteq Texts
        BY <3>1 DEF Added, SetText, HSet, Push, SAdd, ZAdd, DataTypes, DataTypeOK, RedisTypeOK
    <3> QED
        BY <2>2, <3>1, <3>2 DEF RunWrite, DataTypeOK, RedisTypeOK
  <2>3. CASE RunDelete(u, c)
      BY <2>3 DEF RunDelete, DataTypeOK, RedisTypeOK
  <2>4. CASE RunRead(u, c)
    <3>1. c.type \in DataTypes
        BY <1>4, <2>4, CommandFields DEF RunRead
    <3>2. Answered(c.type) = Values(texts[c.type])
        BY <3>1 DEF Answered, GetText, HGet, LRange, SMembers, ZRange, DataTypes
    <3>3. Answered(c.type) \subseteq Typed \cup Texts
        BY <3>1, <3>2, TextsAndValues DEF DataTypeOK, RedisTypeOK
    <3> QED
        BY <2>4, <3>3 DEF RunRead, DataTypeOK, RedisTypeOK
  <2>5. CASE RunConsume(u, c)
    <3>1. texts.list \subseteq Texts /\ texts.string \subseteq Texts /\ "list" \in DataTypes
        BY DEF DataTypeOK, RedisTypeOK, DataTypes
    <3>2. texts' \in [DataTypes -> SUBSET Texts] /\ stored' = stored
        BY <2>5, <3>1 DEF RunConsume, DataTypeOK, RedisTypeOK
    <3>3. consumed' \in [RedisUsers -> SUBSET Texts]
        BY <2>5, <3>1 DEF RunConsume, DataTypeOK, RedisTypeOK
    <3>4. fetched' \in [RedisUsers -> SUBSET (Typed \cup Texts)]
        BY <2>5, <3>1, TextsAndValues DEF RunConsume, DataTypeOK, RedisTypeOK
    <3> QED
        BY <3>2, <3>3, <3>4 DEF DataTypeOK, RedisTypeOK
  <2> QED
      BY <1>1, <2>1, <2>2, <2>3, <2>4, <2>5 DEF RunAsk, RunPublish, RunSubscribe, RunUnsubscribe
<1>6. SubTypeOK'
  <2>1. CASE UNCHANGED subVars
      BY <2>1 DEF subVars, SubTypeOK, RedisTypeOK
  <2>2. CASE RunPublish(u, c)
      BY <2>2 DEF RunPublish, Deliver, SubTypeOK, RedisTypeOK
  <2>3. CASE RunSubscribe(u, c)
    <3>1. c.channel \in Channels
        BY <1>4, <2>3, CommandFields DEF RunSubscribe
    <3> QED
        BY <2>3, <3>1 DEF RunSubscribe, SubTypeOK, RedisTypeOK
  <2>4. CASE RunUnsubscribe(u, c)
      BY <2>4 DEF RunUnsubscribe, SubTypeOK, RedisTypeOK
  <2> QED
      BY <1>1, <2>1, <2>2, <2>3, <2>4 DEF RunAsk, RunWrite, RunRead, RunDelete, RunConsume
<1> QED
    BY <1>2, <1>3, <1>5, <1>6 DEF RedisTypeOK

LEMMA RedisTypesStep == RedisTypeOK /\ Halves /\ [RedisNext]_redisVars => RedisTypeOK' /\ Halves'
<1> SUFFICES ASSUME RedisTypeOK, Halves, [RedisNext]_redisVars PROVE RedisTypeOK' /\ Halves'
    OBVIOUS
<1> USE DEF RedisTypeOK
<1>1. CASE UNCHANGED redisVars
    BY <1>1 DEF redisVars, lifeVars, dataVars, subVars, userVars,
                LifeTypeOK, DataTypeOK, SubTypeOK, UserTypeOK, Halves
<1>2. ASSUME NEW u \in RedisUsers, GiveCommand(u) PROVE RedisTypeOK' /\ Halves'
  <2>1. PICK c \in Command, to \in Progress :
          /\ command' = [command EXCEPT ![u] = c] /\ commanded' \in [RedisUsers -> Nat]
          /\ fetched' = [fetched EXCEPT ![u] = {}]
          /\ progress' = [progress EXCEPT ![u] = to]
          /\ to \in {"done", "rejected", "ready", "importing", "waiting", "quitting"}
          /\ awaited' = awaited \/ awaited' = [awaited EXCEPT ![u] = ioRedis]
          /\ UNCHANGED <<texts, consumed, stored, subVars, isConnected, ioRedis, opened, made>>
          /\ connecting' \in {connecting, u}
      BY <1>2, Given
  <2>2. LifeTypeOK'
      BY <2>1 DEF LifeTypeOK
  <2>3. DataTypeOK' /\ SubTypeOK'
      BY <2>1 DEF DataTypeOK, SubTypeOK, subVars
  <2>4. UserTypeOK'
      BY <2>1 DEF UserTypeOK, LifeTypeOK
  <2>5. \A v \in RedisUsers \ {u} : progress'[v] = progress[v] /\ command'[v] = command[v]
      BY <2>1 DEF UserTypeOK
  <2>6. progress'[u] = to
      BY <2>1 DEF UserTypeOK
  <2>7. Halves'
      BY <2>1, <2>5, <2>6 DEF Halves
  <2> QED
      BY <2>2, <2>3, <2>4, <2>7
<1>3. ASSUME NEW u \in RedisUsers, NewClient(u) PROVE RedisTypeOK' /\ Halves'
  <2>1. /\ made' = made + 1 /\ ioRedis' = made + 1 /\ opened' = opened \cup {made + 1} /\ made < MaxClients
        /\ awaited' = [awaited EXCEPT ![u] = made + 1] /\ progress' = [progress EXCEPT ![u] = "pinging"]
        /\ UNCHANGED <<isConnected, connecting, dataVars, subVars, commanded, command>>
      BY <1>3 DEF NewClient, Advance
  <2>2. made \in Nat /\ made + 1 \in 0..MaxClients
      BY <2>1, RedisAssumption DEF LifeTypeOK
  <2>3. made' \in 0..MaxClients /\ ioRedis' \in 0..made' /\ opened' \subseteq 1..made'
      BY <2>1, <2>2 DEF LifeTypeOK
  <2>4. awaited' \in [RedisUsers -> 0..made'] /\ "pinging" \in Progress
      BY <2>1, <2>2 DEF UserTypeOK, Progress
  <2>5. UserTypeOK' /\ Halves'
      BY <2>1, <2>4, UserAdvances
  <2>6. LifeTypeOK'
      BY <2>1, <2>3 DEF LifeTypeOK
  <2> QED
      BY <2>1, <2>5, <2>6 DEF DataTypeOK, SubTypeOK, dataVars, subVars
<1>4. ASSUME NEW u \in RedisUsers, Pinged(u) \/ PingFails(u) PROVE RedisTypeOK' /\ Halves'
  <2>1. PICK to \in {"ready", "rejected"}, why \in {"none", "CONNECTION_NOT_ESTABLISHED"} :
          Settled(u, to, why)
      BY <1>4 DEF Pinged, PingFails
  <2>2. /\ UNCHANGED <<ioRedis, opened, made, dataVars, subVars, commanded, command, awaited>>
        /\ progress[u] = "pinging" /\ (isConnected' = TRUE \/ isConnected' = isConnected)
      BY <1>4 DEF Pinged, PingFails
  <2>3. UserTypeOK' /\ Halves' /\ connecting' \in RedisUsers \cup {"none"}
      BY <2>1, <2>2, SettledUsers
  <2>4. LifeTypeOK'
      BY <2>2, <2>3 DEF LifeTypeOK
  <2> QED
      BY <2>2, <2>3, <2>4 DEF DataTypeOK, SubTypeOK, dataVars, subVars
<1>5. ASSUME NEW u \in RedisUsers, RunCommand(u) PROVE RedisTypeOK' /\ Halves'
    BY <1>5, RanTypes
<1>6. ASSUME NEW u \in RedisUsers, Consumed(u) PROVE RedisTypeOK' /\ Halves'
  <2>1. PICK to \in {"done", "rejected"} :
          /\ progress' = [progress EXCEPT ![u] = to]
          /\ \/ UNCHANGED <<texts, fetched>>
             \/ /\ texts' = [texts EXCEPT !.string = {}]
                /\ fetched' = [fetched EXCEPT ![u] = Values(consumed[u])]
      BY <1>6 DEF Consumed, Rejects, Resolves, Advance
  <2>2. UNCHANGED <<lifeVars, consumed, stored, subVars, commanded, command, awaited>> /\ to \in Progress
      BY <1>6 DEF Consumed, Progress
  <2>3. UserTypeOK' /\ Halves'
    <3>1. awaited' \in [RedisUsers -> 0..made']
        BY <2>2 DEF lifeVars, UserTypeOK
    <3> QED
        BY <2>1, <2>2, <3>1, UserAdvances
  <2>4. DataTypeOK'
    <3>1. Values(consumed[u]) \subseteq Typed \cup Texts
        BY TextsAndValues DEF DataTypeOK
    <3> QED
        BY <2>1, <2>2, <3>1 DEF DataTypeOK
  <2> QED
      BY <2>2, <2>3, <2>4 DEF lifeVars, subVars, LifeTypeOK, SubTypeOK
<1>7. ASSUME NEW u \in RedisUsers, Attached(u) PROVE RedisTypeOK' /\ Halves'
  <2>1. PICK to \in {"done", "rejected"} : progress' = [progress EXCEPT ![u] = to]
      BY <1>7 DEF Attached, Rejects, Resolves, Advance
  <2>2. UNCHANGED <<lifeVars, dataVars, commanded, command, awaited>> /\ to \in Progress
      BY <1>7 DEF Attached, Progress
  <2>3. UserTypeOK' /\ Halves'
    <3>1. awaited' \in [RedisUsers -> 0..made']
        BY <2>2 DEF lifeVars, UserTypeOK
    <3> QED
        BY <2>1, <2>2, <3>1, UserAdvances
  <2>4. <<command[u].channel, u>> \in Channels \X RedisUsers
    <3>1. command[u] \in Command /\ command[u].do = "subscribe"
        BY <1>7 DEF Attached, Halves, UserTypeOK
    <3> QED
        BY <3>1, CommandFields
  <2>5. SubTypeOK'
      BY <1>7, <2>4 DEF Attached, SubTypeOK, subVars
  <2> QED
      BY <2>2, <2>3, <2>5 DEF lifeVars, dataVars, LifeTypeOK, DataTypeOK
<1>8. ASSUME NEW u \in RedisUsers, Quitted(u) PROVE RedisTypeOK' /\ Halves'
  <2>1. progress' = [progress EXCEPT ![u] = "done"] /\ "done" \in Progress
      BY <1>8 DEF Quitted, Resolves, Advance, Progress
  <2>2. UNCHANGED <<connecting, made, dataVars, channels, handlers, undelivered, commanded, command, awaited>>
      BY <1>8 DEF Quitted
  <2>3. UserTypeOK' /\ Halves'
    <3>1. awaited' \in [RedisUsers -> 0..made']
        BY <2>2 DEF UserTypeOK
    <3> QED
        BY <2>1, <2>2, <3>1, UserAdvances
  <2>4. opened' \subseteq opened /\ ioRedis' \in {0, ioRedis} /\ listening' \subseteq listening
      BY <1>8 DEF Quitted
  <2>5. isConnected' \in BOOLEAN
      BY <1>8, Zenon DEF Quitted, LifeTypeOK
  <2>6. LifeTypeOK' /\ SubTypeOK'
      BY <2>2, <2>4, <2>5 DEF LifeTypeOK, SubTypeOK
  <2> QED
      BY <2>2, <2>3, <2>6 DEF dataVars, DataTypeOK
<1>9. ASSUME NEW c \in Channels, Message(c) PROVE RedisTypeOK' /\ Halves'
    BY <1>9 DEF Message, Deliver, lifeVars, dataVars, userVars,
                LifeTypeOK, DataTypeOK, SubTypeOK, UserTypeOK, Halves
<1> QED
    BY <1>1, <1>2, <1>3, <1>4, <1>5, <1>6, <1>7, <1>8, <1>9 DEF RedisNext

-----------------------------------------------------------------------------
(* Redis: values.                                                          *)

\* What was written to the key of a type, as texts and as it may be read.
Written(type) == {Stored(v) : v \in stored[type]}
Readable(type) == UNION {ReadsAs(v) : v \in stored[type]}

\* Keys and what a consume() has read of one hold texts that were written there, and
\* what is answered is what such a text reads as.
ValuesKept ==
  /\ \A t \in DataTypes : texts[t] \subseteq Written(t)
  /\ \A u \in RedisUsers :
       /\ consumed[u] \subseteq Written("string")
       /\ Direct(command[u]) => fetched[u] \subseteq Readable(command[u].type)

LEMMA ReadsWritten ==
  ASSUME RedisTypeOK, NEW type \in DataTypes, NEW ts, ts \subseteq Written(type)
  PROVE  Values(ts) \subseteq Readable(type)
<1> SUFFICES ASSUME NEW t \in ts, NEW x \in GetValue(t) PROVE x \in Readable(type)
    BY DEF Values
<1>1. PICK v \in stored[type] : t = Stored(v)
    BY DEF Written
<1>2. v \in Typed \cup Texts
    BY DEF RedisTypeOK, DataTypeOK
<1>3. x \in ReadsAs(v)
    BY <1>1, <1>2, TextsAndValues
<1> QED
    BY <1>3 DEF Readable

\* More may have been written, and less be there.
LEMMA ValuesLessen ==
  ASSUME RedisTypeOK, ValuesKept, stored' = stored, \A t \in DataTypes : texts'[t] \subseteq texts[t],
         \A u \in RedisUsers :
           /\ consumed'[u] \subseteq consumed[u] \/ consumed'[u] \subseteq Written("string")
           /\ \/ fetched'[u] = fetched[u] /\ command'[u] = command[u]
              \/ fetched'[u] = {} \/ fetched'[u] \subseteq Readable(command'[u].type)
  PROVE  ValuesKept'
<1>1. \A t : Written(t)' = Written(t) /\ Readable(t)' = Readable(t)
    BY DEF Written, Readable
<1> QED
    BY <1>1 DEF ValuesKept, Direct

LEMMA ValuesStep == RedisTypeOK /\ Halves /\ ValuesKept /\ [RedisNext]_redisVars => ValuesKept'
<1> SUFFICES ASSUME RedisTypeOK, Halves, ValuesKept, [RedisNext]_redisVars PROVE ValuesKept'
    OBVIOUS
<1>1. ASSUME UNCHANGED <<texts, stored, consumed, fetched, command>> PROVE ValuesKept'
    BY <1>1, ValuesLessen
<1>2. ASSUME NEW u \in RedisUsers, GiveCommand(u) PROVE ValuesKept'
  <2>1. PICK c \in Command :
          /\ command' = [command EXCEPT ![u] = c] /\ fetched' = [fetched EXCEPT ![u] = {}]
          /\ UNCHANGED <<texts, consumed, stored>>
      BY <1>2, Given
  <2>2. fetched'[u] = {} /\ \A v \in RedisUsers \ {u} : fetched'[v] = fetched[v] /\ command'[v] = command[v]
      BY <2>1 DEF RedisTypeOK, DataTypeOK, UserTypeOK
  <2> QED
      BY <2>1, <2>2, ValuesLessen
<1>3. ASSUME NEW u \in RedisUsers, RunCommand(u) PROVE ValuesKept'
  <2> DEFINE c == command[u]
  <2>1. /\ c \in Command /\ command' = command
        /\ \/ UNCHANGED dataVars
           \/ RunWrite(u, c) \/ RunDelete(u, c) \/ RunRead(u, c) \/ RunConsume(u, c)
      BY <1>3, Ran DEF RedisTypeOK, UserTypeOK, RunAsk, RunPublish, RunSubscribe, RunUnsubscribe
  <2>2. CASE UNCHANGED dataVars
      BY <1>1, <2>1, <2>2 DEF dataVars
  <2>3. CASE RunWrite(u, c)
    <3>1. c.type \in DataTypes /\ c.value \in Typed \cup Texts
        BY <2>1, <2>3, CommandFields DEF RunWrite
    <3>2. /\ texts' = [texts EXCEPT ![c.type] = Added(c.type, Stored(c.value))]
          /\ stored' = [stored EXCEPT ![c.type] = @ \cup {c.value}]
          /\ UNCHANGED <<consumed, fetched>>
        BY <2>3 DEF RunWrite
    <3>3. \A t \in DataTypes : stored[t] \subseteq stored'[t]
        BY <3>1, <3>2 DEF RedisTypeOK, DataTypeOK
    <3>4. \A t \in DataTypes : Written(t) \subseteq Written(t)' /\ Readable(t) \subseteq Readable(t)'
        BY <3>3 DEF Written, Readable
    <3>5. c.value \in stored'[c.type]
        BY <3>1, <3>2 DEF RedisTypeOK, DataTypeOK
    <3>6. Added(c.type, Stored(c.value)) \subseteq texts[c.type] \cup {Stored(c.value)}
        BY <3>1 DEF Added, SetText, HSet, Push, SAdd, ZAdd, DataTypes
    <3>7. ASSUME NEW t \in DataTypes PROVE texts'[t] \subseteq Written(t)'
      <4>1. texts[t] \subseteq Written(t)'
          BY <3>4 DEF ValuesKept
      <4>2. CASE t = c.type
        <5>1. texts'[t] = Added(c.type, Stored(c.value))
            BY <3>1, <3>2, <4>2 DEF RedisTypeOK, DataTypeOK
        <5>2. texts'[t] \subseteq texts[t] \cup {Stored(c.value)}
            BY <5>1, <3>6, <4>2
        <5>3. Stored(c.value) \in Written(t)'
          <6>1. Written(t)' = {Stored(v) : v \in stored'[t]} /\ c.value \in stored'[t]
              BY <3>5, <4>2 DEF Written
          <6> QED
              BY <6>1
        <5> QED
            BY <4>1, <5>2, <5>3
      <4>3. CASE t # c.type
          BY <3>1, <3>2, <4>1, <4>3 DEF RedisTypeOK, DataTypeOK
      <4> QED
          BY <4>2, <4>3
    <3>8. ASSUME NEW v \in RedisUsers
          PROVE  /\ consumed'[v] \subseteq Written("string")'
                 /\ Direct(command'[v]) => fetched'[v] \subseteq Readable(command[v].type)'
      <4>1. "string" \in DataTypes
          BY DEF DataTypes
      <4>2. PICK d \in Command : d = command[v] /\ command'[v] = d
          BY <2>1 DEF RedisTypeOK, UserTypeOK
      <4>3. Direct(d) => d.type \in DataTypes
          BY CommandFields DEF Direct
      <4>4. Direct(d) => fetched[v] \subseteq Readable(d.type)
          BY <4>2 DEF ValuesKept
      <4>5. Direct(d) => Readable(d.type) \subseteq Readable(d.type)'
          BY <3>4, <4>3
      <4>6. consumed[v] \subseteq Written("string")'
          BY <3>4, <4>1 DEF ValuesKept
      <4> QED
          BY <3>2, <4>2, <4>4, <4>5, <4>6
    <3> QED
        BY <3>7, <3>8 DEF ValuesKept
  <2>4. CASE RunDelete(u, c)
    <3>1. \A t \in DataTypes : texts'[t] \subseteq texts[t]
        BY <2>4 DEF RunDelete, RedisTypeOK, DataTypeOK
    <3> QED
        BY <2>1, <2>4, <3>1, ValuesLessen DEF RunDelete
  <2>5. CASE RunRead(u, c)
    <3>1. c.type \in DataTypes
        BY <2>1, <2>5, CommandFields DEF RunRead
    <3>2. Answered(c.type) = Values(texts[c.type])
        BY <3>1 DEF Answered, GetText, HGet, LRange, SMembers, ZRange, DataTypes
    <3>3. Values(texts[c.type]) \subseteq Readable(c.type)
        BY <3>1, ReadsWritten DEF ValuesKept
    <3>4. /\ fetched'[u] \subseteq Readable(command'[u].type)
          /\ \A v \in RedisUsers \ {u} : fetched'[v] = fetched[v]
        BY <2>1, <2>5, <3>2, <3>3 DEF RunRead, RedisTypeOK, DataTypeOK
    <3> QED
        BY <2>1, <2>5, <3>4, ValuesLessen DEF RunRead
  <2>6. CASE RunConsume(u, c)
    <3>1. "list" \in DataTypes /\ "string" \in DataTypes
        BY DEF DataTypes
    <3>2. stored' = stored
        BY <2>6 DEF RunConsume
    <3>3. \A t \in DataTypes : texts'[t] \subseteq texts[t]
        BY <2>6 DEF RunConsume, RedisTypeOK, DataTypeOK
    <3>4. \A v \in RedisUsers : consumed'[v] = consumed[v] \/ consumed'[v] = texts["string"]
        BY <2>6 DEF RunConsume, RedisTypeOK, DataTypeOK
    <3>5. \A v \in RedisUsers \ {u} : fetched'[v] = fetched[v]
        BY <2>6 DEF RunConsume, RedisTypeOK, DataTypeOK
    <3>6. fetched'[u] = fetched[u] \/ fetched'[u] \subseteq Readable(c.type)
      <4>1. CASE c.type = "list" /\ \E t \in texts.list : fetched' = [fetched EXCEPT ![u] = GetValue(t)]
        <5>1. PICK t \in texts["list"] : fetched' = [fetched EXCEPT ![u] = GetValue(t)]
            BY <4>1
        <5>2. {t} \subseteq Written("list")
            BY <3>1 DEF ValuesKept
        <5>3. Values({t}) = GetValue(t)
            BY DEF Values
        <5>4. GetValue(t) \subseteq Readable("list")
            BY <3>1, <5>2, <5>3, ReadsWritten
        <5> QED
            BY <4>1, <5>1, <5>4 DEF RedisTypeOK, DataTypeOK
      <4>2. CASE fetched' = fetched
          BY <4>2
      <4> QED
          BY <2>6, <4>1, <4>2 DEF RunConsume
    <3>7. \A v \in RedisUsers : consumed'[v] \subseteq consumed[v] \/ consumed'[v] \subseteq Written("string")
        BY <3>1, <3>4 DEF ValuesKept
    <3> QED
        BY <2>1, <3>2, <3>3, <3>5, <3>6, <3>7, ValuesLessen
  <2> QED
      BY <2>1, <2>2, <2>3, <2>4, <2>5, <2>6
<1>4. ASSUME NEW u \in RedisUsers, Consumed(u) PROVE ValuesKept'
  <2>1. UNCHANGED <<consumed, stored, command>>
      BY <1>4 DEF Consumed
  <2>2. CASE UNCHANGED <<texts, fetched>>
      BY <1>1, <2>1, <2>2
  <2>3. CASE texts' = [texts EXCEPT !.string = {}] /\ fetched' = [fetched EXCEPT ![u] = Values(consumed[u])]
    <3>1. command[u].do = "consume" /\ command[u].type = "string" /\ "string" \in DataTypes
        BY <1>4 DEF Consumed, Halves, DataTypes
    <3>2. Values(consumed[u]) \subseteq Readable("string")
        BY <3>1, ReadsWritten DEF ValuesKept
    <3>3. \A t \in DataTypes : texts'[t] \subseteq texts[t]
        BY <2>3 DEF RedisTypeOK, DataTypeOK
    <3>4. fetched'[u] \subseteq Readable(command'[u].type) /\ \A v \in RedisUsers \ {u} : fetched'[v] = fetched[v]
        BY <2>1, <2>3, <3>1, <3>2 DEF RedisTypeOK, DataTypeOK
    <3> QED
        BY <2>1, <3>3, <3>4, ValuesLessen
  <2> QED
      BY <1>4, <2>2, <2>3 DEF Consumed
<1>5. ASSUME NEW u \in RedisUsers, NewClient(u) \/ Pinged(u) \/ PingFails(u) \/ Attached(u) \/ Quitted(u)
      PROVE  ValuesKept'
    BY <1>1, <1>5 DEF NewClient, Pinged, PingFails, Attached, Quitted, dataVars
<1>6. ASSUME NEW c \in Channels, Message(c) PROVE ValuesKept'
    BY <1>1, <1>6 DEF Message, dataVars, userVars
<1>7. CASE UNCHANGED redisVars
    BY <1>1, <1>7 DEF redisVars, dataVars, userVars
<1> QED
    BY <1>2, <1>3, <1>4, <1>5, <1>6, <1>7 DEF RedisNext

LEMMA ValuesInitially == RedisInit => ValuesKept
<1> SUFFICES ASSUME RedisInit PROVE ValuesKept
    OBVIOUS
<1>1. \A t \in DataTypes : texts[t] = {}
    BY DEF RedisInit
<1>2. \A u \in RedisUsers : consumed[u] = {} /\ fetched[u] = {}
    BY DEF RedisInit
<1> QED
    BY <1>1, <1>2 DEF ValuesKept

-----------------------------------------------------------------------------
(* Redis: clients.                                                         *)

\* A command that connects without being told to is the one that others share.
Shared == \A u \in Connects \ Explicit : connecting = u

\* One caller connects at a time, to the client that the source has; one that closes a
\* client closes that of a source that is connected.
OneClient ==
  /\ \A u, v \in Connects : u = v
  /\ Connects # {} => ~isConnected
  /\ isConnected => ioRedis \in opened
  /\ \A u \in RedisUsers : progress[u] = "pinging" => awaited[u] = ioRedis
  /\ \A u \in RedisUsers :
       progress[u] = "quitting" /\ awaited[u] \in opened => awaited[u] = ioRedis /\ isConnected

\* No client is left behind.
NoneLeft ==
  /\ opened \subseteq {ioRedis}
  /\ opened # {} => isConnected \/ \E u \in RedisUsers : progress[u] = "pinging"

OneConnects ==
  /\ Shared
  /\ "overlap" \notin disturbed => OneClient
  /\ "overlap" \notin disturbed /\ "failure" \notin disturbed => NoneLeft

LEMMA OneConnectsInitially == RedisInit => OneConnects
<1> SUFFICES ASSUME RedisInit PROVE OneConnects
    OBVIOUS
<1>1. \A u \in RedisUsers : progress[u] = "done"
    BY DEF RedisInit
<1>2. Connects = {}
    BY <1>1 DEF Connects
<1>3. isConnected = FALSE /\ opened = {}
    BY DEF RedisInit
<1>4. Shared
    BY <1>2 DEF Shared
<1>5. OneClient
    BY <1>1, <1>2, <1>3, Zenon DEF OneClient
<1>6. NoneLeft
    BY <1>3 DEF NoneLeft
<1> QED
    BY <1>4, <1>5, <1>6 DEF OneConnects

\* Callers that neither connect nor did leave the clients to those that do.
LEMMA ConnectsKept ==
  ASSUME OneConnects, disturbed \subseteq disturbed',
         UNCHANGED <<isConnected, ioRedis, opened, connecting>>,
         \A v \in RedisUsers :
           \/ progress'[v] = progress[v] /\ awaited'[v] = awaited[v] /\ command'[v] = command[v]
           \/ /\ progress[v] \notin {"importing", "pinging"} /\ progress'[v] \notin {"importing", "pinging"}
              /\ progress'[v] = "quitting" => awaited'[v] = ioRedis /\ isConnected
  PROVE  OneConnects'
<1>1. Connects' = Connects /\ Explicit' = Explicit
    BY DEF Connects, Explicit
<1>2. \A u \in RedisUsers :
        progress'[u] = "pinging" <=> progress[u] = "pinging"
    OBVIOUS
<1>3. \A u \in RedisUsers : progress[u] = "pinging" => awaited'[u] = awaited[u]
    OBVIOUS
<1>4. Shared'
    BY <1>1 DEF Shared, OneConnects
<1>5. OneClient => OneClient'
  <2> SUFFICES ASSUME OneClient PROVE OneClient'
      OBVIOUS
  <2>1. ASSUME NEW u \in RedisUsers, progress'[u] = "quitting", awaited'[u] \in opened'
        PROVE  awaited'[u] = ioRedis' /\ isConnected'
      BY <2>1 DEF OneClient
  <2>2. \A u \in RedisUsers : progress'[u] = "pinging" => awaited'[u] = ioRedis'
      BY <1>2, <1>3 DEF OneClient
  <2>3. /\ \A u, v \in Connects' : u = v
        /\ Connects' # {} => ~isConnected'
        /\ isConnected' => ioRedis' \in opened'
      BY <1>1 DEF OneClient
  <2> QED
      BY <2>1, <2>2, <2>3 DEF OneClient
<1>6. NoneLeft => NoneLeft'
    BY <1>2 DEF NoneLeft
<1> QED
    BY <1>4, <1>5, <1>6 DEF OneConnects

\* A caller begins to connect.
LEMMA BeginsToConnect ==
  ASSUME RedisTypeOK, OneConnects, NEW u \in RedisUsers, GiveCommand(u), progress'[u] = "importing"
  PROVE  OneConnects'
<1>1. PICK c \in Command, to \in Progress :
        /\ command' = [command EXCEPT ![u] = c]
        /\ progress' = [progress EXCEPT ![u] = to] /\ progress[u] \in {"done", "rejected"}
        /\ awaited' = awaited \/ awaited' = [awaited EXCEPT ![u] = ioRedis]
        /\ UNCHANGED <<isConnected, ioRedis, opened>>
        /\ to = "importing" => ~isConnected
        /\ \/ disturbed' = disturbed /\ (to = "importing" => c.do = "connect" /\ Connects = {})
           \/ disturbed' = disturbed /\ c.do # "connect" /\ connecting = "none" /\ Explicit = {}
           \/ disturbed' = disturbed \cup {"overlap"}
        /\ \/ connecting' = connecting /\ (to = "importing" => c.do = "connect")
           \/ connecting = "none" /\ connecting' = u /\ to = "importing" /\ c.do # "connect"
    BY Given, Zenon
<1>2. /\ progress'[u] = to /\ to = "importing" /\ command'[u] = c
      /\ \A v \in RedisUsers \ {u} :
           progress'[v] = progress[v] /\ command'[v] = command[v] /\ awaited'[v] = awaited[v]
    BY <1>1 DEF RedisTypeOK, UserTypeOK
<1>3. Connects' = Connects \cup {u} /\ u \notin Connects
    BY <1>1, <1>2 DEF Connects
<1>4. \A v \in Connects : v \in Explicit' <=> v \in Explicit
    BY <1>2, <1>3 DEF Explicit, Connects
<1>5. u \in Explicit' <=> c.do = "connect"
    BY <1>2, <1>3 DEF Explicit
<1>6. connecting = "none" => Connects \subseteq Explicit
    BY RedisAssumption DEF OneConnects, Shared, Connects
<1>7. Shared'
    BY <1>1, <1>2, <1>3, <1>4, <1>5, <1>6 DEF OneConnects, Shared
<1>8. "overlap" \notin disturbed' => "overlap" \notin disturbed /\ Connects = {}
    BY <1>1, <1>2, <1>6
<1>9. ASSUME OneClient, Connects = {} PROVE OneClient'
  <2>1. Connects' = {u} /\ ~isConnected'
      BY <1>1, <1>2, <1>3, <1>9
  <2>2. \A v \in RedisUsers : progress'[v] # "pinging"
      BY <1>2, <1>9 DEF Connects
  <2>3. ASSUME NEW v \in RedisUsers, progress'[v] = "quitting", awaited'[v] \in opened'
        PROVE  awaited'[v] = ioRedis' /\ isConnected'
      BY <1>1, <1>2, <1>9, <2>3 DEF OneClient
  <2> QED
      BY <2>1, <2>2, <2>3 DEF OneClient
<1>10. ASSUME NoneLeft, Connects = {} PROVE NoneLeft'
  <2>1. \A v \in RedisUsers : progress[v] # "pinging"
      BY <1>10 DEF Connects
  <2> QED
      BY <1>1, <1>10, <2>1 DEF NoneLeft
<1>11. disturbed \subseteq disturbed'
    BY <1>1
<1> QED
    BY <1>7, <1>8, <1>9, <1>10, <1>11 DEF OneConnects

\* The new client of a caller that connects.
LEMMA ClientMade ==
  ASSUME RedisTypeOK, OneConnects, NEW u \in RedisUsers, NewClient(u)
  PROVE  OneConnects'
<1>1. /\ progress[u] = "importing" /\ progress' = [progress EXCEPT ![u] = "pinging"]
      /\ ioRedis' = made + 1 /\ opened' = opened \cup {made + 1}
      /\ awaited' = [awaited EXCEPT ![u] = made + 1]
      /\ disturbed \subseteq disturbed' /\ UNCHANGED <<isConnected, connecting, command>>
      /\ "overlap" \in disturbed' => "overlap" \in disturbed
      /\ "failure" \in disturbed' => "failure" \in disturbed
    BY DEF NewClient, Advance, Disturb
<1>2. /\ progress'[u] = "pinging" /\ awaited'[u] = made + 1
      /\ \A v \in RedisUsers \ {u} : progress'[v] = progress[v] /\ awaited'[v] = awaited[v]
    BY <1>1 DEF RedisTypeOK, UserTypeOK
<1>3. Connects' = Connects /\ Explicit' = Explicit /\ u \in Connects
    BY <1>1, <1>2 DEF Connects, Explicit
<1>4. Shared'
    BY <1>1, <1>3 DEF OneConnects, Shared
<1>5. \A v \in RedisUsers : awaited[v] # made + 1
    BY DEF RedisTypeOK, LifeTypeOK, UserTypeOK
<1>6. ASSUME OneClient PROVE OneClient'
  <2>1. isConnected' = isConnected /\ ~isConnected
      BY <1>1, <1>3, <1>6 DEF OneClient
  <2>2. \A v, w \in Connects' : v = w
      BY <1>3, <1>6 DEF OneClient
  <2>3. \A v \in RedisUsers : progress'[v] = "pinging" => awaited'[v] = ioRedis'
    <3> SUFFICES ASSUME NEW v \in RedisUsers, progress'[v] = "pinging" PROVE v = u
        BY <1>1, <1>2
    <3>1. v \in Connects
        BY <1>3 DEF Connects
    <3> QED
        BY <1>3, <1>6, <3>1 DEF OneClient
  <2>4. \A v \in RedisUsers : ~(progress'[v] = "quitting" /\ awaited'[v] \in opened')
      BY <1>1, <1>2, <1>5, <1>6, <2>1 DEF OneClient
  <2> QED
      BY <2>1, <2>2, <2>3, <2>4 DEF OneClient
<1>7. ASSUME OneClient, NoneLeft PROVE NoneLeft'
  <2>1. \A v \in RedisUsers : progress[v] # "pinging"
    <3> SUFFICES ASSUME NEW v \in RedisUsers, progress[v] = "pinging" PROVE FALSE
        OBVIOUS
    <3>1. v \in Connects
        BY DEF Connects
    <3> QED
        BY <1>1, <1>3, <1>7, <3>1 DEF OneClient
  <2>2. opened = {}
      BY <1>3, <1>7, <2>1 DEF OneClient, NoneLeft
  <2> QED
      BY <1>1, <1>2, <2>2 DEF NoneLeft
<1> QED
    BY <1>1, <1>4, <1>6, <1>7 DEF OneConnects

\* A ping is answered or fails.
LEMMA PingSettles ==
  ASSUME RedisTypeOK, Halves, OneConnects, NEW u \in RedisUsers, Pinged(u) \/ PingFails(u)
  PROVE  OneConnects'
<1>1. PICK to \in {"ready", "rejected"}, why \in {"none", "CONNECTION_NOT_ESTABLISHED"} :
        Settled(u, to, why)
    BY DEF Pinged, PingFails
<1>2. /\ UNCHANGED <<ioRedis, opened, made, command, commanded, awaited>> /\ progress[u] = "pinging"
    BY DEF Pinged, PingFails
<1>3. /\ progress'[u] \in {"ready", "rejected", "done"}
      /\ \A v \in RedisUsers \ {u} :
           progress'[v] = progress[v] \/ (progress[v] = "waiting" /\ progress'[v] = to)
      /\ connecting' = connecting \/ (connecting = u /\ connecting' = "none")
    BY <1>1, <1>2, SettledUsers
<1>4. Connects' = Connects \ {u} /\ u \in Connects
    BY <1>2, <1>3 DEF Connects
<1>5. Explicit' = Explicit \ {u}
    BY <1>2, <1>4 DEF Explicit
<1>6. Shared'
    BY <1>3, <1>4, <1>5 DEF OneConnects, Shared
<1>7. ASSUME OneClient PROVE OneClient'
  <2>1. Connects' = {}
      BY <1>4, <1>7 DEF OneClient
  <2>2. awaited[u] = ioRedis
      BY <1>2, <1>7 DEF OneClient
  <2>3. isConnected' => ioRedis' \in opened'
      BY <1>2, <1>7, <2>2 DEF OneClient, Pinged, PingFails
  <2>4. \A v \in RedisUsers : progress'[v] # "pinging"
      BY <2>1 DEF Connects
  <2>5. isConnected => isConnected'
      BY DEF Pinged, PingFails
  <2>6. \A v \in RedisUsers : progress'[v] = "quitting" => progress[v] = "quitting"
      BY <1>3
  <2>7. \A v \in RedisUsers :
          progress'[v] = "quitting" /\ awaited'[v] \in opened' => awaited'[v] = ioRedis' /\ isConnected'
      BY <1>2, <1>7, <2>5, <2>6 DEF OneClient
  <2> QED
      BY <2>1, <2>3, <2>4, <2>7 DEF OneClient
<1>8. CASE Pinged(u)
  <2>1. isConnected' /\ disturbed' = disturbed
      BY <1>8 DEF Pinged
  <2>2. NoneLeft => NoneLeft'
      BY <1>2, <2>1 DEF NoneLeft
  <2> QED
      BY <1>6, <1>7, <2>1, <2>2 DEF OneConnects
<1>9. CASE PingFails(u)
  <2>1. disturbed' = disturbed \cup {"failure"}
      BY <1>9 DEF PingFails, Disturb
  <2> QED
      BY <1>6, <1>7, <2>1 DEF OneConnects
<1> QED
    BY <1>8, <1>9

\* A client has quit.
LEMMA ClientQuits ==
  ASSUME RedisTypeOK, OneConnects, NEW u \in RedisUsers, Quitted(u)
  PROVE  OneConnects'
<1>1. /\ progress[u] = "quitting" /\ progress' = [progress EXCEPT ![u] = "done"]
      /\ UNCHANGED <<connecting, command, awaited>>
    BY DEF Quitted, Resolves, Advance
<1>2. /\ progress'[u] = "done" /\ \A v \in RedisUsers \ {u} : progress'[v] = progress[v]
    BY <1>1 DEF RedisTypeOK, UserTypeOK
<1>3. CASE awaited[u] \notin opened
  <2>1. UNCHANGED <<opened, isConnected, ioRedis, disturbed>>
      BY <1>3 DEF Quitted
  <2> QED
      BY <1>1, <1>2, <2>1, ConnectsKept
<1>4. CASE awaited[u] \in opened
  <2>1. /\ opened' = opened \ {awaited[u]} /\ ~isConnected' /\ ioRedis' = 0
        /\ disturbed \subseteq disturbed'
      BY <1>4 DEF Quitted, Disturb
  <2>2. Connects' = Connects /\ Explicit' = Explicit
      BY <1>1, <1>2 DEF Connects, Explicit
  <2>3. Shared'
      BY <1>1, <2>2 DEF OneConnects, Shared
  <2>4. ASSUME OneClient PROVE OneClient'
    <3>1. Connects = {} /\ awaited[u] = ioRedis
        BY <1>1, <1>4, <2>4 DEF OneClient
    <3>2. \A v \in RedisUsers : progress'[v] # "pinging"
        BY <2>2, <3>1 DEF Connects
    <3>3. \A v \in RedisUsers : ~(progress'[v] = "quitting" /\ awaited'[v] \in opened')
        BY <1>1, <1>2, <2>1, <2>4, <3>1 DEF OneClient
    <3> QED
        BY <2>1, <2>2, <3>1, <3>2, <3>3 DEF OneClient
  <2>5. ASSUME OneClient, NoneLeft PROVE NoneLeft'
      BY <1>1, <1>4, <2>1, <2>5 DEF OneClient, NoneLeft
  <2>6. "overlap" \notin disturbed' => "overlap" \notin disturbed
      BY <2>1
  <2> QED
      BY <2>1, <2>3, <2>4, <2>5 DEF OneConnects
<1> QED
    BY <1>3, <1>4

LEMMA OneConnectsStep ==
  RedisTypeOK /\ Halves /\ OneConnects /\ [RedisNext]_redisVars => OneConnects'
<1> SUFFICES ASSUME RedisTypeOK, Halves, OneConnects, [RedisNext]_redisVars PROVE OneConnects'
    OBVIOUS
<1>1. CASE UNCHANGED redisVars
    BY <1>1, ConnectsKept DEF redisVars, lifeVars, userVars
<1>2. ASSUME NEW u \in RedisUsers, GiveCommand(u) PROVE OneConnects'
  <2>1. PICK c \in Command, to \in Progress :
          /\ command' = [command EXCEPT ![u] = c]
          /\ progress' = [progress EXCEPT ![u] = to] /\ progress[u] \in {"done", "rejected"}
          /\ awaited' = awaited \/ awaited' = [awaited EXCEPT ![u] = ioRedis]
          /\ UNCHANGED <<isConnected, ioRedis, opened>>
          /\ to \in {"done", "rejected", "ready", "importing", "waiting", "quitting"}
          /\ to = "quitting" => isConnected /\ awaited' = [awaited EXCEPT ![u] = ioRedis]
          /\ disturbed \subseteq disturbed'
          /\ connecting' = connecting \/ to = "importing"
      BY <1>2, Given
  <2>2. /\ progress'[u] = to
        /\ \A v \in RedisUsers \ {u} :
             progress'[v] = progress[v] /\ command'[v] = command[v] /\ awaited'[v] = awaited[v]
      BY <2>1 DEF RedisTypeOK, UserTypeOK
  <2>3. CASE to = "importing"
      BY <1>2, <2>2, <2>3, BeginsToConnect
  <2>4. CASE to # "importing"
    <3>1. to = "quitting" => isConnected /\ awaited'[u] = ioRedis
        BY <2>1 DEF RedisTypeOK, UserTypeOK
    <3> QED
        BY <2>1, <2>2, <2>4, <3>1, ConnectsKept
  <2> QED
      BY <2>3, <2>4
<1>3. ASSUME NEW u \in RedisUsers, NewClient(u) PROVE OneConnects'
    BY <1>3, ClientMade
<1>4. ASSUME NEW u \in RedisUsers, Pinged(u) \/ PingFails(u) PROVE OneConnects'
    BY <1>4, PingSettles
<1>5. ASSUME NEW u \in RedisUsers, RunCommand(u) PROVE OneConnects'
  <2>1. PICK to \in {"done", "rejected", "consuming", "subscribed"} :
          /\ progress' = [progress EXCEPT ![u] = to] /\ progress[u] = "ready"
          /\ UNCHANGED <<lifeVars, commanded, command, awaited>>
      BY <1>5, Ran, Zenon
  <2>2. progress'[u] = to /\ \A v \in RedisUsers \ {u} : progress'[v] = progress[v]
      BY <2>1 DEF RedisTypeOK, UserTypeOK
  <2>3. disturbed \subseteq disturbed'
      BY <1>5 DEF RunCommand, RunWrite, RunDelete, RunRead, RunConsume, RunAsk, RunPublish,
                  RunSubscribe, RunUnsubscribe, Disturb
  <2> QED
      BY <2>1, <2>2, <2>3, ConnectsKept DEF lifeVars
<1>6. ASSUME NEW u \in RedisUsers, Consumed(u) \/ Attached(u) PROVE OneConnects'
  <2>1. PICK to \in {"done", "rejected"} :
          /\ progress' = [progress EXCEPT ![u] = to] /\ progress[u] \in {"consuming", "subscribed"}
          /\ UNCHANGED <<lifeVars, command, awaited, disturbed>>
      BY <1>6 DEF Consumed, Attached, Rejects, Resolves, Advance
  <2>2. progress'[u] = to /\ \A v \in RedisUsers \ {u} : progress'[v] = progress[v]
      BY <2>1 DEF RedisTypeOK, UserTypeOK
  <2> QED
      BY <2>1, <2>2, ConnectsKept DEF lifeVars
<1>7. ASSUME NEW u \in RedisUsers, Quitted(u) PROVE OneConnects'
    BY <1>7, ClientQuits
<1>8. ASSUME NEW c \in Channels, Message(c) PROVE OneConnects'
    BY <1>8, ConnectsKept DEF Message, lifeVars, userVars
<1> QED
    BY <1>1, <1>2, <1>3, <1>4, <1>5, <1>6, <1>7, <1>8 DEF RedisNext

-----------------------------------------------------------------------------
(* Redis: messages.                                                        *)

\* A handler in force is attached to an open client that the server subscribed to its
\* channel, and so will be that of a subscribe() that is half done.
Reached ==
  /\ \A h \in listening : \E k \in opened : h \in handlers[k] /\ h[1] \in channels[k]
  /\ \A u \in RedisUsers :
       progress[u] = "subscribed" => ioRedis \in opened /\ command[u].channel \in channels[ioRedis]

Heard == "between" \notin disturbed => undelivered = {} /\ Reached

LEMMA HeardInitially == RedisInit => Heard
BY DEF RedisInit, Heard, Reached

\* What has no part in subscribing leaves who hears what as it is.
LEMMA HeardKept ==
  ASSUME Heard, disturbed \subseteq disturbed',
         UNCHANGED <<channels, handlers, listening, undelivered, opened, ioRedis>>,
         \A v \in RedisUsers :
           progress'[v] = "subscribed" => progress[v] = "subscribed" /\ command'[v] = command[v]
  PROVE  Heard'
<1> SUFFICES ASSUME Reached PROVE Reached'
    BY DEF Heard
<1>1. \A h \in listening' : \E k \in opened' : h \in handlers'[k] /\ h[1] \in channels'[k]
    BY DEF Reached
<1>2. \A u \in RedisUsers :
        progress'[u] = "subscribed" => ioRedis' \in opened' /\ command'[u].channel \in channels'[ioRedis']
    BY DEF Reached
<1> QED
    BY <1>1, <1>2 DEF Reached

\* A message misses nobody who is reached.
LEMMA NobodyMissed ==
  ASSUME Reached, NEW c, Deliver(c)
  PROVE  undelivered' = undelivered
<1> DEFINE receivers == UNION {handlers[k] : k \in {k \in opened : c \in channels[k]}}
<1>1. ASSUME NEW h \in listening, h[1] = c PROVE h \in receivers
    BY <1>1 DEF Reached
<1>2. undelivered' = undelivered \cup {h \in listening : h[1] = c /\ h \notin receivers}
    BY DEF Deliver
<1> HIDE DEF receivers
<1> QED
    BY <1>1, <1>2

LEMMA RunHeard ==
  ASSUME RedisTypeOK, Halves, Heard, NEW u \in RedisUsers, RunCommand(u)
  PROVE  Heard'
<1> DEFINE c == command[u]
<1>1. PICK to \in {"done", "rejected", "consuming", "subscribed"} :
        /\ progress' = [progress EXCEPT ![u] = to] /\ progress[u] = "ready"
        /\ UNCHANGED <<lifeVars, commanded, command, awaited>>
        /\ to = "subscribed" => command[u].do = "subscribe"
        /\ to = "consuming" => command[u].do = "consume" /\ command[u].type = "string"
        /\ \/ UNCHANGED <<dataVars, subVars, disturbed>> /\ to = "rejected"
           \/ RunWrite(u, c)
           \/ RunDelete(u, c)
           \/ RunRead(u, c)
           \/ RunConsume(u, c)
           \/ RunAsk(u, c)
           \/ RunPublish(u, c)
           \/ RunSubscribe(u, c) /\ ~Refused(ioRedis, c)
           \/ RunUnsubscribe(u, c) /\ ~Refused(ioRedis, c)
    BY Ran, Zenon
<1>2. progress'[u] = to /\ \A v \in RedisUsers \ {u} : progress'[v] = progress[v]
    BY <1>1 DEF RedisTypeOK, UserTypeOK
<1>3. UNCHANGED <<opened, ioRedis, command>>
    BY <1>1 DEF lifeVars
<1>4. PICK d \in Command : d = c
    BY DEF RedisTypeOK, UserTypeOK
<1>5. ASSUME UNCHANGED <<subVars, disturbed>>, d.do # "subscribe" PROVE Heard'
    BY <1>1, <1>2, <1>3, <1>4, <1>5, HeardKept DEF subVars
<1>6. CASE UNCHANGED <<dataVars, subVars, disturbed>> /\ to = "rejected"
    BY <1>1, <1>2, <1>3, <1>6, HeardKept DEF subVars
<1>7. CASE RunWrite(u, c) \/ RunDelete(u, c) \/ RunRead(u, c) \/ RunConsume(u, c) \/ RunAsk(u, c)
  <2>1. UNCHANGED <<subVars, disturbed>> /\ d.do # "subscribe"
      BY <1>4, <1>7 DEF RunWrite, RunDelete, RunRead, RunConsume, RunAsk
  <2> QED
      BY <1>5, <2>1
<1>8. CASE RunPublish(u, c)
  <2>1. /\ Deliver(d.channel) /\ d.do = "publish"
        /\ UNCHANGED <<channels, handlers, listening, disturbed>>
      BY <1>4, <1>8 DEF RunPublish
  <2>2. CASE "between" \in disturbed
      BY <2>1, <2>2 DEF Heard
  <2>3. CASE "between" \notin disturbed
    <3>1. undelivered' = undelivered
        BY <2>1, <2>3, NobodyMissed DEF Heard
    <3> QED
        BY <1>1, <1>2, <1>3, <1>4, <2>1, <3>1, HeardKept
  <2> QED
      BY <2>2, <2>3
<1>9. CASE RunSubscribe(u, c) /\ ~Refused(ioRedis, c)
  <2>1. /\ channels' = [channels EXCEPT ![ioRedis] = @ \cup {d.channel}]
        /\ UNCHANGED <<handlers, listening, undelivered, disturbed>>
      BY <1>4, <1>9 DEF RunSubscribe
  <2>2. ioRedis \in opened /\ ioRedis \in 1..MaxClients
    <3>1. ioRedis \in opened
        BY <1>9 DEF Refused
    <3>2. opened \subseteq 1..made /\ made \in 0..MaxClients
        BY DEF RedisTypeOK, LifeTypeOK
    <3> QED
        BY <3>1, <3>2, RedisAssumption
  <2>3. \A k \in opened : channels[k] \subseteq channels'[k]
      BY <2>1 DEF RedisTypeOK, SubTypeOK
  <2>4. d.channel \in channels'[ioRedis]
      BY <2>1, <2>2 DEF RedisTypeOK, SubTypeOK
  <2> SUFFICES ASSUME Reached PROVE Reached'
      BY <2>1 DEF Heard
  <2>5. \A h \in listening' : \E k \in opened' : h \in handlers'[k] /\ h[1] \in channels'[k]
      BY <1>3, <2>1, <2>3 DEF Reached
  <2>6. ASSUME NEW v \in RedisUsers, progress'[v] = "subscribed"
        PROVE  ioRedis' \in opened' /\ command'[v].channel \in channels'[ioRedis']
    <3>1. CASE v = u
        BY <1>3, <1>4, <2>2, <2>4, <3>1
    <3>2. CASE v # u
        BY <1>2, <1>3, <2>2, <2>3, <2>6, <3>2 DEF Reached
    <3> QED
        BY <3>1, <3>2
  <2> QED
      BY <2>5, <2>6 DEF Reached
<1>10. CASE RunUnsubscribe(u, c) /\ ~Refused(ioRedis, c)
  <2>1. /\ channels' = [channels EXCEPT ![ioRedis] = @ \ {d.channel}]
        /\ listening' = {h \in listening : h[1] # d.channel}
        /\ Disturb("between", HalfSubscribed) /\ d.do = "unsubscribe"
        /\ UNCHANGED <<handlers, undelivered>>
      BY <1>4, <1>10 DEF RunUnsubscribe
  <2>2. CASE HalfSubscribed \/ "between" \in disturbed
      BY <2>1, <2>2 DEF Heard, Disturb
  <2>3. CASE ~HalfSubscribed /\ "between" \notin disturbed
    <3>1. \A v \in RedisUsers : progress'[v] # "subscribed"
        BY <1>1, <1>2, <1>4, <2>1, <2>3 DEF HalfSubscribed
    <3>2. \A k \in opened : channels[k] \ {d.channel} \subseteq channels'[k]
        BY <2>1 DEF RedisTypeOK, SubTypeOK
    <3>3. ASSUME NEW h \in listening'
          PROVE  \E k \in opened' : h \in handlers'[k] /\ h[1] \in channels'[k]
      <4>1. h \in listening /\ h[1] # d.channel
          BY <2>1
      <4>2. PICK k \in opened : h \in handlers[k] /\ h[1] \in channels[k]
          BY <2>3, <4>1 DEF Heard, Reached
      <4> QED
          BY <1>3, <2>1, <3>2, <4>1, <4>2
    <3>4. undelivered' = {}
        BY <2>1, <2>3 DEF Heard
    <3> QED
        BY <3>1, <3>3, <3>4 DEF Heard, Reached
  <2> QED
      BY <2>2, <2>3
<1> QED
    BY <1>1, <1>6, <1>7, <1>8, <1>9, <1>10

LEMMA HeardStep == RedisTypeOK /\ Halves /\ Heard /\ [RedisNext]_redisVars => Heard'
<1> SUFFICES ASSUME RedisTypeOK, Halves, Heard, [RedisNext]_redisVars PROVE Heard'
    OBVIOUS
<1>1. CASE UNCHANGED redisVars
    BY <1>1, HeardKept DEF redisVars, lifeVars, subVars, userVars
<1>2. ASSUME NEW u \in RedisUsers, GiveCommand(u) PROVE Heard'
  <2>1. PICK c \in Command, to \in Progress :
          /\ command' = [command EXCEPT ![u] = c]
          /\ progress' = [progress EXCEPT ![u] = to]
          /\ UNCHANGED <<subVars, ioRedis, opened>>
          /\ to \in {"done", "rejected", "ready", "importing", "waiting", "quitting"}
          /\ disturbed \subseteq disturbed'
      BY <1>2, Given
  <2>2. /\ progress'[u] = to
        /\ \A v \in RedisUsers \ {u} : progress'[v] = progress[v] /\ command'[v] = command[v]
      BY <2>1 DEF RedisTypeOK, UserTypeOK
  <2> QED
      BY <2>1, <2>2, HeardKept DEF subVars
<1>3. ASSUME NEW u \in RedisUsers, NewClient(u) PROVE Heard'
  <2>1. /\ opened' = opened \cup {made + 1} /\ progress' = [progress EXCEPT ![u] = "pinging"]
        /\ Disturb("between", HalfSubscribed)
        /\ UNCHANGED <<channels, handlers, listening, undelivered>>
      BY <1>3 DEF NewClient, Advance, subVars
  <2>2. CASE HalfSubscribed \/ "between" \in disturbed
      BY <2>1, <2>2 DEF Heard, Disturb
  <2>3. CASE ~HalfSubscribed /\ "between" \notin disturbed
    <3>1. \A v \in RedisUsers : progress'[v] # "subscribed"
        BY <2>1, <2>3 DEF HalfSubscribed, RedisTypeOK, UserTypeOK
    <3> QED
        BY <2>1, <2>3, <3>1 DEF Heard, Reached
  <2> QED
      BY <2>2, <2>3
<1>4. ASSUME NEW u \in RedisUsers, Pinged(u) \/ PingFails(u) PROVE Heard'
  <2>1. PICK to \in {"ready", "rejected"}, why \in {"none", "CONNECTION_NOT_ESTABLISHED"} :
          Settled(u, to, why)
      BY <1>4 DEF Pinged, PingFails
  <2>2. /\ UNCHANGED <<ioRedis, opened, made, subVars, commanded, command, awaited>>
        /\ progress[u] = "pinging" /\ disturbed \subseteq disturbed'
      BY <1>4 DEF Pinged, PingFails, Disturb
  <2>3. /\ progress'[u] \in {"ready", "rejected", "done"}
        /\ \A v \in RedisUsers \ {u} :
             progress'[v] = progress[v] \/ (progress[v] = "waiting" /\ progress'[v] = to)
      BY <2>1, <2>2, SettledUsers
  <2> QED
      BY <2>2, <2>3, HeardKept DEF subVars
<1>5. ASSUME NEW u \in RedisUsers, RunCommand(u) PROVE Heard'
    BY <1>5, RunHeard
<1>6. ASSUME NEW u \in RedisUsers, Consumed(u) PROVE Heard'
  <2>1. PICK to \in {"done", "rejected"} :
          /\ progress' = [progress EXCEPT ![u] = to]
          /\ UNCHANGED <<lifeVars, subVars, command, disturbed>>
      BY <1>6 DEF Consumed, Rejects, Resolves, Advance
  <2>2. progress'[u] = to /\ \A v \in RedisUsers \ {u} : progress'[v] = progress[v]
      BY <2>1 DEF RedisTypeOK, UserTypeOK
  <2> QED
      BY <2>1, <2>2, HeardKept DEF lifeVars, subVars
<1>7. ASSUME NEW u \in RedisUsers, Attached(u) PROVE Heard'
  <2> DEFINE h == <<command[u].channel, u>>
  <2>1. PICK to \in {"done", "rejected"} :
          /\ progress' = [progress EXCEPT ![u] = to] /\ progress[u] = "subscribed"
          /\ UNCHANGED <<lifeVars, command, disturbed>>
      BY <1>7 DEF Attached, Rejects, Resolves, Advance
  <2>2. progress'[u] = to /\ \A v \in RedisUsers \ {u} : progress'[v] = progress[v]
      BY <2>1 DEF RedisTypeOK, UserTypeOK
  <2>3. CASE UNCHANGED subVars
      BY <2>1, <2>2, <2>3, HeardKept DEF lifeVars, subVars
  <2>4. CASE /\ handlers' = [handlers EXCEPT ![ioRedis] = @ \cup {h}] /\ listening' = listening \cup {h}
             /\ UNCHANGED <<channels, undelivered>>
    <3> SUFFICES ASSUME Reached PROVE Reached'
        BY <2>1, <2>4 DEF Heard
    <3>1. ioRedis \in opened /\ h[1] \in channels[ioRedis]
        BY <2>1 DEF Reached
    <3>2. ioRedis \in 1..MaxClients
      <4>1. opened \subseteq 1..made /\ made \in 0..MaxClients
          BY DEF RedisTypeOK, LifeTypeOK
      <4> QED
          BY <3>1, <4>1, RedisAssumption
    <3>3. h \in handlers'[ioRedis] /\ \A k \in opened : handlers[k] \subseteq handlers'[k]
        BY <2>4, <3>2 DEF RedisTypeOK, SubTypeOK
    <3>4. UNCHANGED <<opened, ioRedis, channels, command>>
        BY <2>1, <2>4 DEF lifeVars
    <3>5. \A g \in listening' : \E k \in opened' : g \in handlers'[k] /\ g[1] \in channels'[k]
      <4> HIDE DEF h
      <4> QED
          BY <2>4, <3>1, <3>3, <3>4 DEF Reached
    <3>6. \A v \in RedisUsers :
            progress'[v] = "subscribed" => ioRedis' \in opened' /\ command'[v].channel \in channels'[ioRedis']
        BY <2>2, <3>4 DEF Reached
    <3> QED
        BY <3>5, <3>6 DEF Reached
  <2> QED
      BY <1>7, <2>3, <2>4 DEF Attached
<1>8. ASSUME NEW u \in RedisUsers, Quitted(u) PROVE Heard'
  <2>1. progress' = [progress EXCEPT ![u] = "done"] /\ UNCHANGED <<channels, handlers, undelivered, command>>
      BY <1>8 DEF Quitted, Resolves, Advance
  <2>2. progress'[u] = "done" /\ \A v \in RedisUsers \ {u} : progress'[v] = progress[v]
      BY <2>1 DEF RedisTypeOK, UserTypeOK
  <2>3. CASE UNCHANGED <<opened, ioRedis, listening, disturbed>>
      BY <2>1, <2>2, <2>3, HeardKept
  <2>4. CASE listening' = {} /\ Disturb("between", HalfSubscribed)
    <3>1. CASE HalfSubscribed \/ "between" \in disturbed
        BY <2>4, <3>1 DEF Heard, Disturb
    <3>2. CASE ~HalfSubscribed /\ "between" \notin disturbed
      <4>1. \A v \in RedisUsers : progress'[v] # "subscribed"
          BY <2>2, <3>2 DEF HalfSubscribed
      <4> QED
          BY <2>1, <2>4, <3>2, <4>1 DEF Heard, Reached
    <3> QED
        BY <3>1, <3>2
  <2> QED
      BY <1>8, <2>3, <2>4 DEF Quitted
<1>9. ASSUME NEW c \in Channels, Message(c) PROVE Heard'
  <2>1. /\ Deliver(c)
        /\ UNCHANGED <<channels, handlers, listening, opened, ioRedis, progress, command, disturbed>>
      BY <1>9 DEF Message, lifeVars, userVars
  <2>2. CASE "between" \in disturbed
      BY <2>1, <2>2 DEF Heard
  <2>3. CASE "between" \notin disturbed
    <3>1. undelivered' = undelivered
        BY <2>1, <2>3, NobodyMissed DEF Heard
    <3> QED
        BY <2>1, <3>1, HeardKept
  <2> QED
      BY <2>2, <2>3
<1> QED
    BY <1>1, <1>2, <1>3, <1>4, <1>5, <1>6, <1>7, <1>8, <1>9 DEF RedisNext

-----------------------------------------------------------------------------

RedisInv == RedisTypeOK /\ Halves /\ ValuesKept /\ OneConnects /\ Heard

\* The clients, the commands under way, the keys and the subscriptions stay what they
\* are meant to be through every command, lost ping and disconnect.
THEOREM RedisInvariant == RedisSpec => []RedisInv
<1>1. RedisInit => RedisInv
    BY RedisTypesInitially, ValuesInitially, OneConnectsInitially, HeardInitially DEF RedisInv
<1>2. RedisInv /\ [RedisNext]_redisVars => RedisInv'
    BY RedisTypesStep, ValuesStep, OneConnectsStep, HeardStep DEF RedisInv
<1> QED
    BY <1>1, <1>2, PTL DEF RedisSpec

\* However many callers command the source, and through however many clients: a source
\* that takes itself for connected has an open client unless callers connected twice at a
\* time, a handler misses no message unless its subscription was cut short, and values come
\* back from every type of key as they were written.
THEOREM RedisServesItsCallers == RedisSpec => []RedisServes
<1>1. RedisInv => RedisServes
  <2> SUFFICES ASSUME RedisInv PROVE RedisServes
      OBVIOUS
  <2>1. "overlap" \notin disturbed =>
          /\ isConnected => ioRedis \in opened
          /\ "failure" \notin disturbed => opened \subseteq {ioRedis}
      BY DEF RedisInv, OneConnects, OneClient, NoneLeft
  <2>2. "between" \notin disturbed => undelivered = {}
      BY DEF RedisInv, Heard
  <2>3. \A u \in RedisUsers :
          progress[u] = "done" /\ Direct(command[u])
            => fetched[u] \subseteq UNION {ReadsAs(v) : v \in stored[command[u].type]}
      BY DEF RedisInv, ValuesKept, Readable
  <2> QED
      BY <2>1, <2>2, <2>3 DEF RedisServes
<1> QED
    BY <1>1, RedisInvariant, PTL

-----------------------------------------------------------------------------
(* Mongo: the session.                                                     *)

SessionTypeOK ==
  /\ lastDoc \in Nat /\ DOMAIN docs \subseteq 1..lastDoc
  /\ snapshot = <<>> \/ snapshot = <<snapshot[1]>>
  /\ doing \in [Managers -> SessionCall]
  /\ phase \in [Managers -> {"idle", "write", "read", "answered", "rejected"}]
  /\ wrote \in [Managers -> SUBSET (1..lastDoc)]
  /\ got = [m \in Managers |-> got[m]]
  /\ DOMAIN missed = Managers

First(s) == {x[1] : x \in s}

\* A call of m that has not written has written nothing, one that has not read answers
\* nothing, and what it then reads in the session is a snapshot with all it wrote, or
\* one yet to be taken.
Answering(m) ==
  /\ phase[m] \in {"idle", "write"} => wrote[m] = {}
  /\ phase[m] \in {"idle", "write", "read", "rejected"} => got[m] = {}
  /\ doing[m].name # "find" => First(got[m]) \subseteq wrote[m]
  /\ phase[m] = "answered" /\ ~missed[m] => wrote[m] \cap DOMAIN docs \subseteq First(got[m])
  /\ phase[m] = "read" /\ ~missed[m] /\ m \in Within /\ doing[m].name # "query insert" =>
       snapshot = <<>> \/ wrote[m] \cap DOMAIN docs \subseteq DOMAIN snapshot[1]

SessionInv ==
  /\ SessionTypeOK
  /\ \A m \in Managers : Answering(m)
  /\ deleting \subseteq DOMAIN docs

\* Documents that are kept, and their values as what was read of them.
LEMMA FirstOfPairs ==
  ASSUME NEW g, NEW ds
  PROVE  First({<<d, g[d]>> : d \in ds}) = ds
<1>1. ASSUME NEW x \in First({<<d, g[d]>> : d \in ds}) PROVE x \in ds
  <2>1. PICK y \in {<<d, g[d]>> : d \in ds} : x = y[1]
      BY DEF First
  <2> QED
      BY <2>1
<1>2. ASSUME NEW x \in ds PROVE x \in First({<<d, g[d]>> : d \in ds})
  <2>1. <<x, g[x]>> \in {<<d, g[d]>> : d \in ds} /\ <<x, g[x]>>[1] = x
      OBVIOUS
  <2> QED
      BY <2>1, Zenon DEF First
<1> QED
    BY <1>1, <1>2

LEMMA FirstOfOnes ==
  ASSUME NEW ds
  PROVE  First({<<d, 1>> : d \in ds}) = ds
<1>1. PICK g : g = [d \in ds |-> 1]
    OBVIOUS
<1>2. {<<d, g[d]>> : d \in ds} = {<<d, 1>> : d \in ds}
    BY <1>1
<1>3. First({<<d, g[d]>> : d \in ds}) = ds
    BY FirstOfPairs
<1> QED
    BY <1>2, <1>3

LEMMA OnlyKeeps ==
  ASSUME NEW f, NEW ids
  PROVE  /\ DOMAIN Only(f, ids) = DOMAIN f \cap ids
         /\ First({<<d, Only(f, ids)[d]>> : d \in DOMAIN Only(f, ids)}) = DOMAIN f \cap ids
<1>1. DOMAIN Only(f, ids) = DOMAIN f \cap ids
    BY DEF Only
<1>2. PICK g : g = Only(f, ids)
    OBVIOUS
<1>3. First({<<d, g[d]>> : d \in DOMAIN f \cap ids}) = DOMAIN f \cap ids
    BY FirstOfPairs
<1> QED
    BY <1>1, <1>2, <1>3

\* What a step of another call leaves as it is.
LEMMA OthersAnswer ==
  ASSUME SessionInv, NEW m \in Managers,
         doing'[m] = doing[m], phase'[m] = phase[m], wrote'[m] = wrote[m], got'[m] = got[m],
         missed'[m] = missed[m],
         wrote[m] \cap DOMAIN docs' \subseteq DOMAIN docs,
         snapshot' = snapshot \/ (snapshot = <<>> /\ snapshot' = <<docs>>)
  PROVE  Answering(m)'
<1>1. Answering(m) /\ First(got[m])' = First(got[m])
    BY DEF SessionInv, First
<1>2. ASSUME phase[m] = "read", ~missed[m], m \in Within, doing[m].name # "query insert"
      PROVE  snapshot' = <<>> \/ wrote[m] \cap DOMAIN docs' \subseteq DOMAIN snapshot'[1]
  <2>1. CASE snapshot' = <<docs>>
      BY <2>1
  <2>2. CASE snapshot' = snapshot
      BY <1>1, <1>2, <2>2 DEF Answering
  <2> QED
      BY <2>1, <2>2
<1> QED
    BY <1>1, <1>2 DEF Answering

LEMMA SessionInitially == SessionInit => SessionInv
<1> SUFFICES ASSUME SessionInit PROVE SessionInv
    OBVIOUS
<1>1. SessionTypeOK
    BY DEF SessionInit, SessionTypeOK, SessionCall, NoCall
<1>2. ASSUME NEW m \in Managers PROVE Answering(m)
  <2>1. phase[m] = "idle" /\ wrote[m] = {} /\ got[m] = {}
      BY DEF SessionInit
  <2> QED
      BY <2>1 DEF Answering, First
<1>3. deleting \subseteq DOMAIN docs
    BY DEF SessionInit
<1> QED
    BY <1>1, <1>2, <1>3 DEF SessionInv

\* A call is made.
LEMMA AskKeeps ==
  ASSUME SessionInv, NEW m \in Managers, NEW r \in SessionCalls, Ask(m, r)
  PROVE  SessionInv'
<1>1. /\ doing' = [doing EXCEPT ![m] = r] /\ phase' = [phase EXCEPT ![m] = "write"]
      /\ wrote' = [wrote EXCEPT ![m] = {}] /\ got' = [got EXCEPT ![m] = {}]
      /\ missed' = [missed EXCEPT ![m] = FALSE]
      /\ UNCHANGED <<docs, lastDoc, snapshot, deleting>>
    BY DEF Ask, Goes
<1>2. SessionTypeOK'
    BY <1>1, MongoSessionAssumption DEF SessionInv, SessionTypeOK
<1>3. Answering(m)'
  <2>1. phase'[m] = "write" /\ wrote'[m] = {} /\ got'[m] = {}
      BY <1>1 DEF SessionInv, SessionTypeOK
  <2> QED
      BY <2>1 DEF Answering, First
<1>4. ASSUME NEW v \in Managers \ {m} PROVE Answering(v)'
  <2>1. /\ doing'[v] = doing[v] /\ phase'[v] = phase[v] /\ wrote'[v] = wrote[v] /\ got'[v] = got[v]
        /\ missed'[v] = missed[v]
      BY <1>1 DEF SessionInv, SessionTypeOK
  <2> QED
      BY <1>1, <2>1, OthersAnswer
<1>5. deleting' \subseteq DOMAIN docs'
    BY <1>1 DEF SessionInv
<1> QED
    BY <1>2, <1>3, <1>4, <1>5 DEF SessionInv

\* Ids given out later are others.
LEMMA IdsAbove ==
  ASSUME NEW n \in Nat, NEW last \in Nat, last >= n
  PROVE  /\ 1..n \subseteq 1..last /\ n + 1 .. last \subseteq 1..last
         /\ \A d \in 1..n : d \notin n + 1 .. last
OBVIOUS

\* A call of m inserts documents, or changes one.
LEMMA WriteKeeps ==
  ASSUME SessionInv, NEW m \in Managers, NEW ids, NEW to \in {"read", "answered", "rejected"},
         phase[m] = "write", phase' = [phase EXCEPT ![m] = to],
         wrote' = [wrote EXCEPT ![m] = ids], lastDoc' \in Nat, lastDoc' >= lastDoc,
         DOMAIN docs \subseteq DOMAIN docs',
         \A d \in DOMAIN docs' \ DOMAIN docs : d \in lastDoc + 1 .. lastDoc',
         ids \subseteq DOMAIN docs',
         \/ got' = got /\ (to = "answered" => ids = {})
         \/ to = "answered" /\ got' = [got EXCEPT ![m] = {<<d, 1>> : d \in ids}],
         DOMAIN missed' = Managers,
         \A v \in Managers \ {m} : missed'[v] = missed[v],
         to = "read" /\ ~missed'[m] /\ m \in Within /\ doing[m].name # "query insert" => snapshot = <<>>,
         UNCHANGED <<doing, snapshot, deleting>>
  PROVE  SessionInv'
<1> DEFINE all == 1..lastDoc'
<1>1. DOMAIN docs' \subseteq all /\ \A v \in Managers : wrote[v] \subseteq all
  <2>1. lastDoc \in Nat
      BY DEF SessionInv, SessionTypeOK
  <2>2. 1..lastDoc \subseteq all /\ lastDoc + 1 .. lastDoc' \subseteq all
      BY <2>1, IdsAbove
  <2>3. DOMAIN docs \subseteq 1..lastDoc /\ \A v \in Managers : wrote[v] \subseteq 1..lastDoc
      BY DEF SessionInv, SessionTypeOK
  <2> HIDE DEF all
  <2> QED
      BY <2>2, <2>3
<1>2. \A v \in Managers : wrote[v] \cap DOMAIN docs' \subseteq DOMAIN docs
  <2>1. lastDoc \in Nat
      BY DEF SessionInv, SessionTypeOK
  <2>2. \A d \in 1..lastDoc : d \notin lastDoc + 1 .. lastDoc'
      BY <2>1, IdsAbove
  <2>3. \A v \in Managers : wrote[v] \subseteq 1..lastDoc
      BY DEF SessionInv, SessionTypeOK
  <2> QED
      BY <2>2, <2>3
<1>3. wrote' \in [Managers -> SUBSET (1..lastDoc')]
    BY <1>1 DEF SessionInv, SessionTypeOK
<1>4. got' = [v \in Managers |-> got'[v]]
    BY DEF SessionInv, SessionTypeOK
<1>5. phase' \in [Managers -> {"idle", "write", "read", "answered", "rejected"}]
    BY DEF SessionInv, SessionTypeOK
<1>6. SessionTypeOK'
    BY <1>1, <1>3, <1>4, <1>5 DEF SessionInv, SessionTypeOK
<1>7. Answering(m)'
  <2>1. phase'[m] = to /\ wrote'[m] = ids /\ got[m] = {}
      BY DEF SessionInv, SessionTypeOK, Answering
  <2>2. \/ got'[m] = {} /\ (to = "answered" => ids = {})
        \/ to = "answered" /\ First(got'[m]) = ids
    <3>1. CASE got' = got /\ (to = "answered" => ids = {})
        BY <2>1, <3>1
    <3>2. CASE to = "answered" /\ got' = [got EXCEPT ![m] = {<<d, 1>> : d \in ids}]
      <4>1. got'[m] = {<<d, 1>> : d \in ids}
          BY <3>2 DEF SessionInv, SessionTypeOK
      <4>2. First({<<d, 1>> : d \in ids}) = ids
          BY FirstOfOnes
      <4> QED
          BY <3>2, <4>1, <4>2
    <3> QED
        BY <3>1, <3>2
  <2>3. First({}) = {}
      BY DEF First
  <2> QED
      BY <2>1, <2>2, <2>3 DEF Answering
<1>8. ASSUME NEW v \in Managers \ {m} PROVE Answering(v)'
  <2>1. /\ doing'[v] = doing[v] /\ phase'[v] = phase[v] /\ wrote'[v] = wrote[v] /\ got'[v] = got[v]
        /\ missed'[v] = missed[v]
      BY DEF SessionInv, SessionTypeOK
  <2> QED
      BY <1>2, <2>1, OthersAnswer
<1>9. deleting' \subseteq DOMAIN docs'
    BY DEF SessionInv
<1> QED
    BY <1>6, <1>7, <1>8, <1>9 DEF SessionInv

\* A call of m answers, or is rejected, and changes no document itself.
LEMMA AnswerKeeps ==
  ASSUME SessionInv, NEW m \in Managers, NEW to \in {"answered", "rejected"}, NEW seen,
         phase' = [phase EXCEPT ![m] = to],
         got' = [got EXCEPT ![m] = seen], to = "rejected" => seen = {},
         doing[m].name # "find" => First(seen) \subseteq wrote[m],
         DOMAIN missed' = Managers,
         \A v \in Managers \ {m} : missed'[v] = missed[v],
         to = "answered" /\ ~missed'[m] => wrote[m] \cap DOMAIN docs \subseteq First(seen),
         snapshot' = snapshot \/ (snapshot = <<>> /\ snapshot' = <<docs>>),
         deleting' \subseteq DOMAIN docs', DOMAIN docs' \subseteq DOMAIN docs,
         UNCHANGED <<lastDoc, doing, wrote>>
  PROVE  SessionInv'
<1>1. SessionTypeOK'
  <2>1. snapshot' = <<>> \/ snapshot' = <<snapshot'[1]>>
      BY DEF SessionInv, SessionTypeOK
  <2>2. /\ phase' \in [Managers -> {"idle", "write", "read", "answered", "rejected"}]
        /\ got' = [v \in Managers |-> got'[v]]
      BY DEF SessionInv, SessionTypeOK
  <2>3. /\ lastDoc' \in Nat /\ DOMAIN docs' \subseteq 1..lastDoc'
        /\ wrote' \in [Managers -> SUBSET (1..lastDoc')] /\ doing' \in [Managers -> SessionCall]
      BY DEF SessionInv, SessionTypeOK
  <2> QED
      BY <2>1, <2>2, <2>3 DEF SessionTypeOK
<1>2. Answering(m)'
  <2>1. phase'[m] = to /\ got'[m] = seen
      BY DEF SessionInv, SessionTypeOK
  <2> QED
      BY <2>1 DEF Answering
<1>3. ASSUME NEW v \in Managers \ {m} PROVE Answering(v)'
  <2>1. /\ doing'[v] = doing[v] /\ phase'[v] = phase[v] /\ wrote'[v] = wrote[v] /\ got'[v] = got[v]
        /\ missed'[v] = missed[v]
      BY DEF SessionInv, SessionTypeOK
  <2> QED
      BY <2>1, OthersAnswer
<1> QED
    BY <1>1, <1>2, <1>3 DEF SessionInv

\* The transaction of the session ends, or nothing happens.
LEMMA EndKeeps ==
  ASSUME SessionInv, DOMAIN docs' \subseteq DOMAIN docs, deleting' \subseteq DOMAIN docs',
         UNCHANGED <<lastDoc, snapshot, doing, phase, wrote, got, missed>>
  PROVE  SessionInv'
<1>1. SessionTypeOK'
    BY DEF SessionInv, SessionTypeOK
<1>2. ASSUME NEW v \in Managers PROVE Answering(v)'
    BY OthersAnswer
<1> QED
    BY <1>1, <1>2 DEF SessionInv

LEMMA SessionStep == SessionInv /\ [SessionNext]_sessionVars => SessionInv'
<1> SUFFICES ASSUME SessionInv, [SessionNext]_sessionVars PROVE SessionInv'
    OBVIOUS
<1>1. CASE UNCHANGED sessionVars
    BY <1>1, EndKeeps DEF sessionVars, SessionInv
<1>2. ASSUME NEW m \in Managers, NEW r \in SessionCalls, Ask(m, r) PROVE SessionInv'
    BY <1>2, AskKeeps
<1>3. ASSUME NEW m \in Managers, InsertDocuments(m) \/ InsertByQuery(m) PROVE SessionInv'
  <2>1. PICK n \in 0..doing[m].many :
          /\ phase[m] = "write" /\ InsertsFirst(m, n)
          /\ UNCHANGED <<snapshot, deleting, doing>>
          /\ \/ /\ doing[m].name = "insert" /\ got' = got
                /\ Goes(m, IF n = doing[m].many THEN "read" ELSE "rejected")
                /\ missed' = [missed EXCEPT ![m] = m \in Within /\ snapshot # <<>>]
             \/ /\ doing[m].name = "query insert" /\ missed' = missed
                /\ \/ Goes(m, "rejected") /\ got' = got
                   \/ Goes(m, "read") /\ got' = got
                   \/ Goes(m, "answered") /\ got' = [got EXCEPT ![m] = {<<d, 1>> : d \in NextIds(n)}]
    <3>1. CASE InsertDocuments(m)
        BY <3>1 DEF InsertDocuments
    <3>2. CASE InsertByQuery(m)
        BY <3>2 DEF InsertByQuery
    <3> QED
        BY <1>3, <3>1, <3>2
  <2>2. lastDoc' = lastDoc + n /\ lastDoc' \in Nat /\ lastDoc' >= lastDoc
    <3>1. lastDoc \in Nat /\ n \in Nat
        BY DEF SessionInv, SessionTypeOK
    <3>2. lastDoc' = lastDoc + n
        BY <2>1 DEF InsertsFirst
    <3> QED
        BY <3>1, <3>2
  <2>3. NextIds(n) = lastDoc + 1 .. lastDoc'
      BY <2>2 DEF NextIds
  <2>4. /\ DOMAIN docs' = DOMAIN docs \cup NextIds(n)
        /\ wrote' = [wrote EXCEPT ![m] = NextIds(n)]
      BY <2>1 DEF InsertsFirst
  <2>5. CASE doing[m].name = "insert"
    <3>1. PICK to \in {"read", "answered", "rejected"} :
            to # "answered" /\ phase' = [phase EXCEPT ![m] = to] /\ got' = got
        BY <2>1, <2>5 DEF Goes
    <3>2. missed' = [missed EXCEPT ![m] = m \in Within /\ snapshot # <<>>]
        BY <2>1, <2>5
    <3>3. DOMAIN missed' = Managers
        BY <3>2, Zenon DEF SessionInv, SessionTypeOK
    <3>4. /\ \A v \in Managers \ {m} : missed'[v] = missed[v]
          /\ ~missed'[m] /\ m \in Within => snapshot = <<>>
        BY <3>2 DEF SessionInv, SessionTypeOK
    <3> QED
        BY <2>1, <2>2, <2>3, <2>4, <3>1, <3>3, <3>4, WriteKeeps
  <2>6. CASE doing[m].name = "query insert"
    <3>1. \E to \in {"read", "answered", "rejected"} :
            /\ phase' = [phase EXCEPT ![m] = to]
            /\ \/ to # "answered" /\ got' = got
               \/ to = "answered" /\ got' = [got EXCEPT ![m] = {<<d, 1>> : d \in NextIds(n)}]
        BY <2>1, <2>6 DEF Goes
    <3>2. DOMAIN missed' = Managers /\ missed' = missed
        BY <2>1, <2>6 DEF SessionInv, SessionTypeOK
    <3> QED
        BY <2>1, <2>2, <2>3, <2>4, <2>6, <3>1, <3>2, WriteKeeps
  <2> QED
      BY <2>1, <2>5, <2>6
<1>4. ASSUME NEW m \in Managers, UpdateDocument(m) PROVE SessionInv'
  <2> DEFINE modified == doing[m].id \in DOMAIN docs /\ docs[doing[m].id] # doing[m].v
             ids == IF modified THEN {doing[m].id} ELSE {}
             to == IF modified THEN "read" ELSE "rejected"
  <2>1. /\ phase[m] = "write" /\ DOMAIN docs' = DOMAIN docs
        /\ wrote' = [wrote EXCEPT ![m] = ids] /\ phase' = [phase EXCEPT ![m] = to]
        /\ UNCHANGED <<lastDoc, snapshot, deleting, doing, got>>
      BY <1>4 DEF UpdateDocument, Goes
  <2>2. missed' = [missed EXCEPT ![m] = m \in Within /\ snapshot # <<>>]
      BY <1>4 DEF UpdateDocument
  <2>3. DOMAIN missed' = Managers
      BY <2>2, Zenon DEF SessionInv, SessionTypeOK
  <2>4. /\ \A v \in Managers \ {m} : missed'[v] = missed[v]
        /\ ~missed'[m] /\ m \in Within => snapshot = <<>>
      BY <2>2 DEF SessionInv, SessionTypeOK
  <2>5. /\ ids \subseteq DOMAIN docs' /\ to \in {"read", "answered", "rejected"}
        /\ to # "answered"
      BY <2>1
  <2>6. lastDoc' \in Nat /\ lastDoc' >= lastDoc
      BY <2>1 DEF SessionInv, SessionTypeOK
  <2> HIDE DEF modified, ids, to
  <2> QED
      BY <2>1, <2>3, <2>4, <2>5, <2>6, WriteKeeps
<1>5. ASSUME NEW m \in Managers, ReadByQuery(m) PROVE SessionInv'
  <2> DEFINE seen == {<<d, Only(docs, wrote[m])[d]>> : d \in DOMAIN Only(docs, wrote[m])}
  <2>1. /\ phase[m] = "read" /\ phase' = [phase EXCEPT ![m] = "answered"]
        /\ got' = [got EXCEPT ![m] = seen]
        /\ UNCHANGED <<docs, lastDoc, snapshot, deleting, doing, wrote, missed>>
      BY <1>5 DEF ReadByQuery, Goes
  <2>2. First(seen) = DOMAIN docs \cap wrote[m]
      BY OnlyKeeps
  <2>3. DOMAIN missed' = Managers /\ deleting' \subseteq DOMAIN docs'
      BY <2>1 DEF SessionInv, SessionTypeOK
  <2> HIDE DEF seen
  <2> QED
      BY <2>1, <2>2, <2>3, AnswerKeeps
<1>6. ASSUME NEW m \in Managers, Find(m) PROVE SessionInv'
  <2> DEFINE seen == {<<d, docs[d]>> : d \in DOMAIN docs}
  <2>1. /\ phase[m] = "write" /\ phase' = [phase EXCEPT ![m] = "answered"]
        /\ got' = [got EXCEPT ![m] = seen] /\ doing[m].name = "find"
        /\ UNCHANGED <<docs, lastDoc, snapshot, deleting, doing, wrote, missed>>
      BY <1>6 DEF Find, Goes
  <2>2. wrote[m] = {}
      BY <2>1 DEF SessionInv, Answering
  <2>3. DOMAIN missed' = Managers /\ deleting' \subseteq DOMAIN docs'
      BY <2>1 DEF SessionInv, SessionTypeOK
  <2> HIDE DEF seen
  <2> QED
      BY <2>1, <2>2, <2>3, AnswerKeeps
<1>7. ASSUME NEW m \in Managers, ReadDocuments(m) PROVE SessionInv'
  <2>1. phase[m] = "read" /\ UNCHANGED <<docs, lastDoc, deleting, doing, wrote>>
      BY <1>7 DEF ReadDocuments
  <2>2. deleting' \subseteq DOMAIN docs' /\ got[m] = {} /\ got' = [got' EXCEPT ![m] = @]
      BY <1>7, <2>1 DEF SessionInv, SessionTypeOK, Answering, ReadDocuments
  <2>3. CASE InSession(m) /\ session = "open"
    <3> DEFINE f == Reads[1]
               seen == {<<d, Only(f, wrote[m] \ deleting)[d]>> : d \in DOMAIN Only(f, wrote[m] \ deleting)}
    <3>1. /\ got' = [got EXCEPT ![m] = seen] /\ snapshot' = Reads
          /\ phase' = [phase EXCEPT ![m] = "answered"]
        BY <1>7, <2>3 DEF ReadDocuments, Goes
    <3>2. First(seen) = DOMAIN f \cap (wrote[m] \ deleting)
        BY OnlyKeeps
    <3>3. missed' = [missed EXCEPT ![m] = @ \/ wrote[m] \cap deleting # {}]
        BY <1>7, <2>3 DEF ReadDocuments
    <3>4. DOMAIN missed' = Managers
        BY <3>3, Zenon DEF SessionInv, SessionTypeOK
    <3>5. /\ \A v \in Managers \ {m} : missed'[v] = missed[v]
          /\ ~missed'[m] => ~missed[m] /\ wrote[m] \cap deleting = {}
        BY <3>3 DEF SessionInv, SessionTypeOK
    <3>6. snapshot' = snapshot \/ (snapshot = <<>> /\ snapshot' = <<docs>>)
        BY <3>1 DEF Reads
    <3>7. ~missed[m] => wrote[m] \cap DOMAIN docs \subseteq DOMAIN f
      <4>1. m \in Within /\ doing[m].name # "query insert"
          BY <1>7, <2>3 DEF InSession, ReadDocuments
      <4> QED
          BY <2>1, <4>1 DEF SessionInv, Answering, Reads
    <3>8. ~missed'[m] => wrote[m] \cap DOMAIN docs \subseteq First(seen)
        BY <3>2, <3>5, <3>7
    <3>9. First(seen) \subseteq wrote[m]
        BY <3>2
    <3> HIDE DEF seen
    <3> QED
        BY <2>1, <2>2, <3>1, <3>4, <3>5, <3>6, <3>8, <3>9, AnswerKeeps
  <2>4. CASE InSession(m) /\ session = "aborted by the server"
    <3>1. /\ phase' = [phase EXCEPT ![m] = "rejected"] /\ UNCHANGED <<snapshot, got, missed>>
        BY <1>7, <2>4 DEF ReadDocuments, Goes
    <3>2. got' = [got EXCEPT ![m] = {}] /\ DOMAIN missed' = Managers
        BY <2>2, <3>1 DEF SessionInv, SessionTypeOK
    <3>3. First({}) = {}
        BY DEF First
    <3> QED
        BY <2>1, <2>2, <3>1, <3>2, <3>3, AnswerKeeps
  <2>5. CASE ~InSession(m)
    <3> DEFINE seen == {<<d, Only(docs, wrote[m])[d]>> : d \in DOMAIN Only(docs, wrote[m])}
    <3>1. /\ got' = [got EXCEPT ![m] = seen] /\ UNCHANGED <<snapshot, missed>>
          /\ phase' = [phase EXCEPT ![m] = "answered"]
        BY <1>7, <2>5 DEF ReadDocuments, Goes
    <3>2. First(seen) = DOMAIN docs \cap wrote[m]
        BY OnlyKeeps
    <3>3. DOMAIN missed' = Managers
        BY <3>1 DEF SessionInv, SessionTypeOK
    <3> HIDE DEF seen
    <3> QED
        BY <2>1, <2>2, <3>1, <3>2, <3>3, AnswerKeeps
  <2> QED
      BY <2>3, <2>4, <2>5 DEF InSession
<1>8. ASSUME NEW m \in Managers, DeleteDocument(m) PROVE SessionInv'
  <2> DEFINE id == doing[m].id
  <2>1. /\ phase[m] = "write" /\ UNCHANGED <<lastDoc, doing, wrote, got, missed>>
      BY <1>8 DEF DeleteDocument
  <2>2. wrote[m] = {} /\ got' = [got EXCEPT ![m] = {}] /\ DOMAIN missed' = Managers
      BY <2>1 DEF SessionInv, SessionTypeOK, Answering
  <2>3. First({}) = {}
      BY DEF First
  <2>4. PICK to \in {"answered", "rejected"} :
          phase' = [phase EXCEPT ![m] = to]
      BY <1>8 DEF DeleteDocument, Goes
  <2>5. snapshot' = snapshot \/ (snapshot = <<>> /\ snapshot' = <<docs>>)
      BY <1>8 DEF DeleteDocument, Reads
  <2>6. deleting' \subseteq DOMAIN docs' /\ DOMAIN docs' \subseteq DOMAIN docs
    <3>1. CASE id \notin deleting /\ docs' = Only(docs, DOMAIN docs \ {id}) /\ deleting' = deleting
        BY <3>1 DEF Only, SessionInv
    <3>2. CASE /\ id \in DOMAIN Reads[1] => Only(docs, {id}) = Only(Reads[1], {id})
               /\ deleting' = deleting \cup ({id} \cap DOMAIN Reads[1]) /\ docs' = docs
      <4>1. PICK f : f = Reads[1]
          OBVIOUS
      <4>2. DOMAIN Only(docs, {id}) = DOMAIN docs \cap {id} /\ DOMAIN Only(f, {id}) = DOMAIN f \cap {id}
          BY OnlyKeeps
      <4>3. id \in DOMAIN f => DOMAIN docs \cap {id} = DOMAIN f \cap {id}
          BY <3>2, <4>1, <4>2
      <4> QED
          BY <3>2, <4>1, <4>3 DEF SessionInv
    <3>3. CASE docs' = docs /\ (deleting' = {} \/ deleting' = deleting)
        BY <3>3 DEF SessionInv
    <3> QED
        BY <1>8, <3>1, <3>2, <3>3 DEF DeleteDocument
  <2> QED
      BY <2>1, <2>2, <2>3, <2>4, <2>5, <2>6, AnswerKeeps
<1>9. CASE CommitTransaction
    BY <1>9, EndKeeps DEF CommitTransaction, Only
<1>10. CASE AbortTransaction \/ Expires
    BY <1>10, EndKeeps DEF AbortTransaction, Expires
<1>11. ASSUME NEW m \in Managers, Fails(m) PROVE SessionInv'
  <2>1. /\ phase[m] \in {"write", "read"} /\ phase' = [phase EXCEPT ![m] = "rejected"]
        /\ UNCHANGED <<docs, lastDoc, snapshot, doing, wrote, got, missed>>
        /\ deleting' = deleting \/ deleting' = {}
      BY <1>11 DEF Fails, Goes
  <2>2. got' = [got EXCEPT ![m] = {}] /\ DOMAIN missed' = Managers
      BY <2>1 DEF SessionInv, SessionTypeOK, Answering
  <2>3. First({}) = {} /\ deleting' \subseteq DOMAIN docs'
      BY <2>1 DEF First, SessionInv
  <2> QED
      BY <2>1, <2>2, <2>3, AnswerKeeps
<1> QED
    BY <1>1, <1>2, <1>3, <1>4, <1>5, <1>6, <1>7, <1>8, <1>9, <1>10, <1>11 DEF SessionNext

\* However many managers are in the session and outside of it, and whatever they call:
\* insert(), insertMany() and updateRecord() answer what they wrote, also when others of
\* these calls fail half way, and what the session deletes is there until it commits.
THEOREM SessionAnswersItsDocuments == SessionSpec => []DocumentsAnswered
<1>1. SessionInv => DocumentsAnswered
    BY DEF SessionInv, Answering, DocumentsAnswered, First
<1> QED
    BY <1>1, SessionInitially, SessionStep, PTL DEF SessionSpec

-----------------------------------------------------------------------------
(* Mongo: the filter.                                                      *)

Among(s) == {s[i] : i \in DOMAIN s}

\* The clauses that were asked for on _id, and those read as something else.
Ids == {i \in DOMAIN asked : asked[i].on = "id"}
Odd(c) ==
  \/ c.method = "notBetween" \/ (c.method = "raw" /\ c.op \in {"$and", "$or"})
  \/ c.on = "id" /\ (c.or \/ c.op # "$eq" \/ c.method \notin {"where", "in", "notIn"})
Replaces(c, e) == Plain(c) /\ Plain(e) /\ c.on = e.on /\ c # e

\* The filter has the clauses that were asked for, each where it belongs.
Faithful ==
  /\ Among(ands) = {c \in Among(asked) : c.on # "id" /\ ~c.or /\ ~Plain(c)}
  /\ raws = {c \in Among(asked) : c.on # "id" /\ Plain(c)}
  /\ Among(ors) = {c \in Among(asked) : c.on # "id" /\ c.or}
  /\ \/ idObject = <<>> /\ \A c \in Among(asked) : c.on # "id"
     \/ \E c \in Among(asked) :
          /\ c.on = "id" /\ \A e \in Among(asked) : e.on = "id" => e = c
          /\ idObject # <<>> /\ \A d \in Documents : d \in idObject[1] <=> Asks(c, d)

Building ==
  /\ asked \in Seq(Clauses) /\ ands \in Seq(Clauses) /\ ors \in Seq(Clauses) /\ hook \in Hooks
  /\ limitNumber \in {0, 1} /\ offsetNumber \in {0, 1}
  /\ ran = "none" => answers = {} /\ changed = {} /\ before = field
  /\ ~Misread => Faithful

LEMMA AmongAppended ==
  ASSUME NEW S, NEW s \in Seq(S), NEW c \in S
  PROVE  Append(s, c) \in Seq(S) /\ Among(Append(s, c)) = Among(s) \cup {c}
<1>1. /\ Append(s, c) \in Seq(S) /\ Len(Append(s, c)) = Len(s) + 1
      /\ \A i \in 1..Len(s) : Append(s, c)[i] = s[i]
      /\ Append(s, c)[Len(s) + 1] = c
    OBVIOUS
<1>2. DOMAIN s = 1..Len(s) /\ DOMAIN Append(s, c) = 1..(Len(s) + 1) /\ Len(s) \in Nat
    BY <1>1
<1>3. DOMAIN Append(s, c) = DOMAIN s \cup {Len(s) + 1}
    BY <1>2
<1>4. Among(Append(s, c)) = {Append(s, c)[i] : i \in DOMAIN s} \cup {c}
    BY <1>1, <1>3 DEF Among
<1>5. {Append(s, c)[i] : i \in DOMAIN s} = Among(s)
    BY <1>1, <1>2 DEF Among
<1> QED
    BY <1>1, <1>4, <1>5

LEMMA AmongConcatenated ==
  ASSUME NEW S, NEW s \in Seq(S), NEW t \in Seq(S)
  PROVE  Among(s \o t) = Among(s) \cup Among(t)
<1>1. /\ Len(s \o t) = Len(s) + Len(t) /\ s \o t \in Seq(S)
      /\ \A i \in 1 .. Len(s) + Len(t) : (s \o t)[i] = IF i <= Len(s) THEN s[i] ELSE t[i - Len(s)]
    BY ConcatProperties
<1>2. /\ DOMAIN s = 1..Len(s) /\ DOMAIN t = 1..Len(t) /\ DOMAIN (s \o t) = 1..(Len(s) + Len(t))
      /\ Len(s) \in Nat /\ Len(t) \in Nat
    BY <1>1
<1>3. ASSUME NEW x \in Among(s \o t) PROVE x \in Among(s) \cup Among(t)
  <2>1. PICK i \in DOMAIN (s \o t) : x = (s \o t)[i]
      BY DEF Among
  <2>2. CASE i <= Len(s)
      BY <1>1, <1>2, <2>1, <2>2 DEF Among
  <2>3. CASE i > Len(s)
    <3>1. i - Len(s) \in DOMAIN t /\ x = t[i - Len(s)]
        BY <1>1, <1>2, <2>1, <2>3
    <3> QED
        BY <3>1 DEF Among
  <2> QED
      BY <1>2, <2>1, <2>2, <2>3
<1>4. ASSUME NEW x \in Among(s) PROVE x \in Among(s \o t)
  <2>1. PICK i \in DOMAIN s : x = s[i]
      BY DEF Among
  <2>2. i \in DOMAIN (s \o t) /\ x = (s \o t)[i]
      BY <1>1, <1>2, <2>1
  <2> QED
      BY <2>2 DEF Among
<1>5. ASSUME NEW x \in Among(t) PROVE x \in Among(s \o t)
  <2>1. PICK i \in DOMAIN t : x = t[i]
      BY DEF Among
  <2>2. i + Len(s) \in DOMAIN (s \o t) /\ x = (s \o t)[i + Len(s)]
      BY <1>1, <1>2, <2>1
  <2> QED
      BY <2>2 DEF Among
<1> QED
    BY <1>3, <1>4, <1>5

LEMMA AtMostOne ==
  ASSUME NEW S, IsFiniteSet(S), ~(Cardinality(S) > 1), NEW x \in S, NEW y \in S
  PROVE  x = y
<1> SUFFICES ASSUME x # y PROVE FALSE
    OBVIOUS
<1>1. IsFiniteSet({x}) /\ Cardinality({x}) = 1
    BY FS_Singleton
<1>2. Cardinality({x} \cup {y}) = 2
    BY <1>1, FS_AddElement
<1>3. {x} \cup {y} \in SUBSET S
    OBVIOUS
<1>4. Cardinality({x} \cup {y}) <= Cardinality(S) /\ Cardinality(S) \in Nat
    BY <1>3, FS_Subset, FS_CardinalityType
<1> QED
    BY <1>2, <1>4

LEMMA MisreadSays ==
  /\ Misread <=> \/ Cardinality(Ids) > 1 \/ \E c \in Among(asked) : Odd(c)
                 \/ \E c, e \in Among(asked) : Replaces(c, e)
  /\ Misread' <=> \/ Cardinality(Ids') > 1 \/ \E c \in Among(asked') : Odd(c)
                  \/ \E c, e \in Among(asked') : Replaces(c, e)
<1>1. ASSUME NEW s
      PROVE  /\ (\E c \in Among(s) : Odd(c)) <=> \E i \in DOMAIN s : Odd(s[i])
             /\ (\E c, e \in Among(s) : Replaces(c, e)) <=> \E i, j \in DOMAIN s : Replaces(s[i], s[j])
    BY DEF Among
<1>2. Misread <=> \/ Cardinality(Ids) > 1 \/ \E i \in DOMAIN asked : Odd(asked[i])
                  \/ \E i, j \in DOMAIN asked : Replaces(asked[i], asked[j])
    BY DEF Misread, Ids, Odd, Replaces
<1>3. Misread' <=> \/ Cardinality(Ids') > 1 \/ \E i \in DOMAIN asked' : Odd(asked'[i])
                   \/ \E i, j \in DOMAIN asked' : Replaces(asked'[i], asked'[j])
    BY DEF Misread, Ids, Odd, Replaces
<1>4. /\ (\E c \in Among(asked) : Odd(c)) <=> \E i \in DOMAIN asked : Odd(asked[i])
      /\ (\E c, e \in Among(asked) : Replaces(c, e)) <=> \E i, j \in DOMAIN asked : Replaces(asked[i], asked[j])
    BY <1>1
<1>5. /\ (\E c \in Among(asked') : Odd(c)) <=> \E i \in DOMAIN asked' : Odd(asked'[i])
      /\ (\E c, e \in Among(asked') : Replaces(c, e)) <=> \E i, j \in DOMAIN asked' : Replaces(asked'[i], asked'[j])
    BY DEF Among
<1> QED
    BY <1>2, <1>3, <1>4, <1>5

\* A chain that is read as it was meant was so up to the last clause.
LEMMA LastClause ==
  ASSUME Building, NEW c \in Clauses, asked' = Append(asked, c), ~Misread'
  PROVE  /\ ~Misread /\ ~Odd(c) /\ Among(asked') = Among(asked) \cup {c} /\ asked' \in Seq(Clauses)
         /\ c.on = "id" => \A e \in Among(asked) : e.on # "id"
         /\ \A e \in Among(asked) : ~Replaces(c, e)
<1>1. asked \in Seq(Clauses)
    BY DEF Building
<1>2. asked' \in Seq(Clauses) /\ Among(asked') = Among(asked) \cup {c}
    BY <1>1, AmongAppended
<1>3. /\ Len(asked') = Len(asked) + 1 /\ asked'[Len(asked) + 1] = c
      /\ \A i \in 1..Len(asked) : asked'[i] = asked[i]
      /\ DOMAIN asked = 1..Len(asked) /\ DOMAIN asked' = 1..(Len(asked) + 1) /\ Len(asked) \in Nat
    BY <1>1
<1>4. Ids \subseteq Ids' /\ (c.on = "id" => Len(asked) + 1 \in Ids' /\ Len(asked) + 1 \notin Ids)
    BY <1>3 DEF Ids
<1>5. IsFiniteSet(Ids')
  <2>1. IsFiniteSet(1..(Len(asked) + 1))
      BY <1>3, FS_Interval
  <2>2. Ids' \in SUBSET (1..(Len(asked) + 1))
      BY <1>3 DEF Ids
  <2> QED
      BY <2>1, <2>2, FS_Subset
<1>6. /\ ~(Cardinality(Ids') > 1) /\ \A e \in Among(asked') : ~Odd(e)
      /\ \A e, f \in Among(asked') : ~Replaces(e, f)
    BY MisreadSays
<1>7. ~(Cardinality(Ids) > 1)
  <2>1. Ids \in SUBSET Ids'
      BY <1>4
  <2>2. Cardinality(Ids) <= Cardinality(Ids') /\ Cardinality(Ids) \in Nat /\ Cardinality(Ids') \in Nat
      BY <1>5, <2>1, FS_Subset, FS_CardinalityType
  <2> QED
      BY <1>6, <2>2
<1>8. ASSUME c.on = "id", NEW e \in Among(asked), e.on = "id" PROVE FALSE
  <2>1. PICK i \in DOMAIN asked : e = asked[i]
      BY DEF Among
  <2>2. i \in Ids
      BY <1>8, <2>1 DEF Ids
  <2> QED
      BY <1>4, <1>5, <1>6, <1>8, <2>2, AtMostOne
<1>9. ~Misread
    BY <1>2, <1>6, <1>7, MisreadSays
<1> QED
    BY <1>2, <1>6, <1>8, <1>9

\* What the filter has of a clause on _id.
LEMMA IdAsked ==
  ASSUME NEW c \in Clauses, ~Odd(c), c.on = "id", NEW d \in Documents
  PROVE  /\ OnId(c) /\ IdObject(c) # <<>> /\ ~c.or
         /\ d \in IdObject(c)[1] <=> Asks(c, d)
<1>1. c.method \in {"where", "in", "notIn"} /\ c.op = "$eq" /\ ~c.or
    BY DEF Odd
<1>2. OnId(c)
    BY <1>1 DEF OnId
<1>3. CASE c.method = "where"
  <2>1. c.values \in Seq(Nat) /\ Len(c.values) = 1
      BY <1>3, MongoAssumption DEF Clause
  <2>2. DOMAIN c.values = {1}
      BY <2>1
  <2>3. ValuesOf(c) = {c.values[1]}
      BY <2>2 DEF ValuesOf
  <2>4. Asks(c, d) <=> d = c.values[1]
      BY <1>1, <1>3 DEF Asks, Meets, Where
  <2>5. IdObject(c) = <<ValuesOf(c)>>
      BY <1>3 DEF IdObject
  <2> QED
      BY <1>1, <1>2, <2>3, <2>4, <2>5
<1>4. CASE c.method = "in"
  <2>1. IdObject(c) = <<ValuesOf(c)>>
      BY <1>4 DEF IdObject
  <2>2. Asks(c, d) <=> d \in ValuesOf(c)
      BY <1>4 DEF Asks, Meets, In
  <2> QED
      BY <1>1, <1>2, <2>1, <2>2
<1>5. CASE c.method = "notIn"
  <2>1. IdObject(c) = <<Documents \ ValuesOf(c)>>
      BY <1>5 DEF IdObject
  <2>2. Asks(c, d) <=> d \notin ValuesOf(c)
      BY <1>5 DEF Asks, Meets, NotIn
  <2> QED
      BY <1>1, <1>2, <2>1, <2>2
<1> QED
    BY <1>1, <1>3, <1>4, <1>5

\* A clause that is added.
LEMMA AddKeeps ==
  ASSUME Building, NEW c \in Clauses, AddWhere(c) \/ WhereRaw(c)
  PROVE  Building'
<1>1. /\ asked' = Append(asked, c) /\ ran = "none"
      /\ UNCHANGED <<field, hook, limitNumber, offsetNumber, ran, answers, changed, before>>
    BY DEF AddWhere, WhereRaw
<1>2. /\ asked \in Seq(Clauses) /\ ands \in Seq(Clauses) /\ ors \in Seq(Clauses)
    BY DEF Building
<1>3. /\ asked' \in Seq(Clauses) /\ Append(ands, c) \in Seq(Clauses) /\ Append(ors, c) \in Seq(Clauses)
      /\ <<c>> \in Seq(Clauses)
    BY <1>1, <1>2
<1>4. ands' \in Seq(Clauses) /\ ors' \in Seq(Clauses)
    BY <1>2, <1>3 DEF AddWhere, WhereRaw
<1>5. ASSUME ~Misread' PROVE Faithful'
  <2>1. /\ ~Odd(c) /\ Among(asked') = Among(asked) \cup {c}
        /\ c.on = "id" => \A e \in Among(asked) : e.on # "id"
        /\ \A e \in Among(asked) : ~Replaces(c, e)
        /\ Faithful
      BY <1>1, <1>5, LastClause DEF Building
  <2>2. \A e, d : Asks(e, d)' = Asks(e, d)
      BY <1>1 DEF Asks
  <2>3. c.on # "id" =>
          /\ idObject' = idObject
          /\ ands' = IF c.or \/ Plain(c) THEN ands ELSE Append(ands, c)
          /\ ors' = IF c.or THEN Append(ors, c) ELSE ors
          /\ raws' = IF Plain(c) THEN {e \in raws : e.on # c.on} \cup {c} ELSE raws
          /\ Plain(c) => ~c.or
      BY <2>1 DEF AddWhere, WhereRaw, OnId, Odd, Plain
  <2>4. CASE c.on # "id"
    <3>1. /\ Among(Append(ands, c)) = Among(ands) \cup {c}
          /\ Among(Append(ors, c)) = Among(ors) \cup {c}
        BY <1>2, AmongAppended
    <3>2. /\ Among(ands') = IF c.or \/ Plain(c) THEN Among(ands) ELSE Among(ands) \cup {c}
          /\ Among(ors') = IF c.or THEN Among(ors) \cup {c} ELSE Among(ors)
      <4>1. CASE c.or
          BY <2>3, <2>4, <3>1, <4>1
      <4>2. CASE ~c.or
          BY <2>3, <2>4, <3>1, <4>2
      <4> QED
          BY <4>1, <4>2
    <3>6. raws' = {e \in Among(asked') : e.on # "id" /\ Plain(e)}
      <4>1. CASE Plain(c)
        <5>1. \A e \in raws : e.on # c.on \/ e = c
            BY <2>1, <4>1 DEF Faithful, Replaces
        <5>2. raws' = raws \cup {c}
            BY <2>3, <2>4, <4>1, <5>1
        <5> QED
            BY <2>1, <2>4, <4>1, <5>2 DEF Faithful
      <4>2. CASE ~Plain(c)
          BY <2>1, <2>3, <2>4, <4>2 DEF Faithful
      <4> QED
          BY <4>1, <4>2
    <3>3. Among(ands') = {e \in Among(asked') : e.on # "id" /\ ~e.or /\ ~Plain(e)}
        BY <2>1, <2>4, <3>2 DEF Faithful
    <3>4. Among(ors') = {e \in Among(asked') : e.on # "id" /\ e.or}
        BY <2>1, <2>4, <3>2 DEF Faithful
    <3>5. \/ idObject' = <<>> /\ \A e \in Among(asked') : e.on # "id"
          \/ \E e \in Among(asked') :
               /\ e.on = "id" /\ \A f \in Among(asked') : f.on = "id" => f = e
               /\ idObject' # <<>> /\ \A d \in Documents : d \in idObject'[1] <=> Asks(e, d)
        BY <2>1, <2>3, <2>4 DEF Faithful
    <3> QED
        BY <2>2, <3>3, <3>4, <3>5, <3>6 DEF Faithful
  <2>5. CASE c.on = "id"
    <3>1. AddWhere(c) /\ OnId(c) /\ ~c.or
        BY <2>1, <2>5 DEF WhereRaw, AddWhere, Odd, OnId
    <3>2. idObject' = IdObject(c) /\ ands' = ands /\ ors' = ors /\ raws' = raws
        BY <3>1 DEF AddWhere
    <3>3. /\ Among(ands') = {e \in Among(asked') : e.on # "id" /\ ~e.or /\ ~Plain(e)}
          /\ raws' = {e \in Among(asked') : e.on # "id" /\ Plain(e)}
          /\ Among(ors') = {e \in Among(asked') : e.on # "id" /\ e.or}
        BY <2>1, <2>5, <3>2 DEF Faithful
    <3>4. IdObject(c) # <<>>
        BY <2>1, <2>5 DEF IdObject, Odd
    <3>5. \A d \in Documents : d \in idObject'[1] <=> Asks(c, d)
        BY <2>1, <2>5, <3>2, IdAsked
    <3> QED
        BY <2>1, <2>2, <2>5, <3>2, <3>3, <3>4, <3>5 DEF Faithful
  <2> QED
      BY <2>4, <2>5
<1> QED
    BY <1>1, <1>3, <1>4, <1>5 DEF Building

-----------------------------------------------------------------------------
(* Mongo: what is found.                                                   *)

\* Whether a document matches depends on its own field only.
LEMMA MatchesItself ==
  ASSUME Building, NEW values, NEW d
  PROVE  Matches(d, values) <=>
           /\ \A c \in raws \cup Among(ands) \cup Among(hook) : Holds(c, d, values)
           /\ Among(ors) # {} => \E c \in Among(ors) : Holds(c, d, values)
<1>1. ors \in Seq(Clause)
    BY MongoAssumption DEF Building
<1>2. ors # <<>> <=> Among(ors) # {}
  <2>1. DOMAIN ors = 1..Len(ors) /\ Len(ors) \in Nat /\ (ors = <<>> <=> Len(ors) = 0)
      BY <1>1
  <2>2. ors # <<>> <=> DOMAIN ors # {}
      BY <2>1
  <2> QED
      BY <2>2 DEF Among
<1>3. (\E i \in DOMAIN ors : Holds(ors[i], d, values)) <=> \E c \in Among(ors) : Holds(c, d, values)
    BY DEF Among
<1>4. Conditions = raws \cup Among(ands) \cup Among(hook)
    BY DEF Conditions, Among
<1> QED
    BY <1>2, <1>3, <1>4 DEF Matches

\* A chain that is read as it was meant finds what it means.
LEMMA FoundIsMeant ==
  ASSUME Building, ~Misread
  PROVE  /\ Found = Meant
         /\ idObject = <<>> => {d \in Documents : Matches(d, before)} = Meant
<1>1. Faithful /\ \A c \in Among(asked) : ~Odd(c)
    BY MisreadSays DEF Building
<1>2. \A c \in Among(hook) : c.on # "id"
    BY MongoAssumption DEF Building, Among
<1> SUFFICES ASSUME NEW d \in Documents
             PROVE  /\ Matches(d, before) /\ ById(d) <=> d \in Meant
                    /\ idObject = <<>> => ById(d)
    BY DEF Found, Meant
<1>3. \A c \in Among(asked) : c.on # "id" => (Asks(c, d) <=> Meets(before[d], c))
    BY <1>1 DEF Asks, Odd
<1>4. Matches(d, before) <=>
        /\ \A c \in Among(asked) : c.on # "id" /\ ~c.or => Asks(c, d)
        /\ \A c \in Among(hook) : Meets(before[d], c)
        /\ (\E c \in Among(asked) : c.on # "id" /\ c.or)
             => \E c \in Among(asked) : c.on # "id" /\ c.or /\ Asks(c, d)
  <2>1. Matches(d, before) <=>
          /\ \A c \in raws \cup Among(ands) \cup Among(hook) : Holds(c, d, before)
          /\ Among(ors) # {} => \E c \in Among(ors) : Holds(c, d, before)
      BY MatchesItself
  <2>2. \A c \in raws \cup Among(ands) \cup Among(ors) \cup Among(hook) : Holds(c, d, before) <=> Meets(before[d], c)
      BY <1>1, <1>2 DEF Faithful, Holds
  <2>3. \A c \in raws \cup Among(ands) \cup Among(ors) :
          c \in Among(asked) /\ (Holds(c, d, before) <=> Asks(c, d))
      BY <1>1, <1>3, <2>2 DEF Faithful
  <2>4. \A c : c \in raws \cup Among(ands) <=> c \in Among(asked) /\ c.on # "id" /\ ~c.or
      BY <1>1 DEF Faithful, Plain
  <2>5. (\A c \in raws \cup Among(ands) \cup Among(hook) : Holds(c, d, before)) <=>
          /\ \A c \in Among(asked) : c.on # "id" /\ ~c.or => Asks(c, d)
          /\ \A c \in Among(hook) : Meets(before[d], c)
      BY <2>2, <2>3, <2>4
  <2>6. (\E c \in Among(ors) : Holds(c, d, before)) <=>
          \E c \in Among(asked) : c.on # "id" /\ c.or /\ Asks(c, d)
      BY <1>1, <2>3 DEF Faithful
  <2>7. Among(ors) # {} <=> \E c \in Among(asked) : c.on # "id" /\ c.or
      BY <1>1 DEF Faithful
  <2> QED
      BY <2>1, <2>5, <2>6, <2>7
<1>5. ById(d) <=> \A c \in Among(asked) : c.on = "id" => Asks(c, d)
    BY <1>1 DEF Faithful, ById
<1>6. \A c \in Among(asked) : c.on = "id" => ~c.or
    BY <1>1 DEF Odd
<1>7. d \in Meant <=>
        /\ \A c \in Among(asked) : ~c.or => Asks(c, d)
        /\ (\E c \in Among(asked) : c.or) => \E c \in Among(asked) : c.or /\ Asks(c, d)
        /\ \A c \in Among(hook) : Meets(before[d], c)
  <2>1. (\A i \in DOMAIN asked : ~asked[i].or => Asks(asked[i], d)) <=>
          \A c \in Among(asked) : ~c.or => Asks(c, d)
      BY DEF Among
  <2>2. /\ (\E i \in DOMAIN asked : asked[i].or) <=> \E c \in Among(asked) : c.or
        /\ (\E i \in DOMAIN asked : asked[i].or /\ Asks(asked[i], d)) <=>
             \E c \in Among(asked) : c.or /\ Asks(c, d)
      BY DEF Among
  <2>3. (\A i \in DOMAIN hook : Meets(before[d], hook[i])) <=> \A c \in Among(hook) : Meets(before[d], c)
      BY DEF Among
  <2> QED
      BY <2>1, <2>2, <2>3 DEF Meant
<1>8. Matches(d, before) /\ ById(d) <=> d \in Meant
    BY <1>4, <1>5, <1>6, <1>7
<1> QED
    BY <1>8 DEF ById

-----------------------------------------------------------------------------
(* Mongo: the page of many().                                              *)

LEMMA LeastOf ==
  ASSUME NEW S \in SUBSET Nat, S # {}
  PROVE  \E x \in S : \A y \in S : x <= y
<1>1. PICK x \in S : \A y \in S : <<y, x>> \notin OpToRel(<, Nat)
    BY WFMin, NatLessThanWellFounded, Zenon
<1>2. \A y \in S : ~(y < x)
    BY <1>1, Zenon DEF OpToRel
<1> QED
    BY <1>2

\* The documents of a set that have as many smaller ones in it as a page skips.
LEMMA OneOfARank ==
  ASSUME NEW S \in SUBSET Nat, IsFiniteSet(S), NEW k \in {0, 1}
  PROVE  LET Rank(d) == Cardinality({x \in S : x < d})
         IN  Cardinality({d \in S : Rank(d) = k}) = IF Cardinality(S) > k THEN 1 ELSE 0
<1> DEFINE Below(d) == {x \in S : x < d}
           Rank(d) == Cardinality(Below(d))
           page == {d \in S : Rank(d) = k}
<1>1. \A d \in S : IsFiniteSet(Below(d)) /\ Rank(d) \in Nat /\ Below(d) \in SUBSET (S \ {d})
  <2> SUFFICES ASSUME NEW d \in S PROVE IsFiniteSet(Below(d)) /\ Rank(d) \in Nat /\ Below(d) \in SUBSET (S \ {d})
      OBVIOUS
  <2>1. Below(d) \in SUBSET S /\ d \notin Below(d)
      OBVIOUS
  <2> QED
      BY <2>1, FS_Subset, FS_CardinalityType
<1>2. Cardinality(S) \in Nat
    BY FS_CardinalityType
<1>3. /\ \A d : Rank(d) = Cardinality(Below(d))
      /\ \A d, x : x \in Below(d) <=> x \in S /\ x < d
      /\ \A d : d \in page <=> d \in S /\ Rank(d) = k
    OBVIOUS
<1> HIDE DEF Below, Rank, page
<1>4. CASE S = {}
  <2>1. page = {} /\ Cardinality({}) = 0
      BY <1>3, <1>4, FS_EmptySet
  <2>2. Cardinality(S) = 0 /\ ~(0 > k)
      BY <1>4, <2>1
  <2> QED
      BY <2>1, <2>2 DEF page, Rank, Below
<1>5. CASE S # {}
  <2>1. PICK least \in S : \A y \in S : least <= y
      BY <1>5, LeastOf
  <2>2. Cardinality(S) # 0
      BY <1>5, FS_EmptySet
  <2>3. \A y \in S : ~(y < least) /\ (y # least => least < y)
      BY <2>1
  <2>4. Rank(least) = 0
    <3>1. Below(least) = {}
        BY <1>3, <2>3
    <3> QED
        BY <1>3, <3>1, FS_EmptySet
  <2>5. ASSUME NEW d \in S, d # least PROVE least \in Below(d) /\ Rank(d) # 0
    <3>1. least \in Below(d)
        BY <1>3, <2>3, <2>5
    <3> QED
        BY <1>1, <1>3, <3>1, FS_EmptySet
  <2>6. CASE k = 0
    <3>1. page = {least}
        BY <1>3, <2>4, <2>5, <2>6
    <3>2. Cardinality(page) = 1 /\ Cardinality(S) > k
        BY <1>2, <2>2, <2>6, <3>1, FS_Singleton
    <3> QED
        BY <3>2 DEF page, Rank, Below
  <2>7. CASE k = 1
    <3> DEFINE rest == S \ {least}
    <3>1. Cardinality(rest) = Cardinality(S) - 1 /\ IsFiniteSet(rest) /\ Cardinality(rest) \in Nat
        BY FS_RemoveElement, FS_CardinalityType
    <3>2. CASE rest = {}
      <4>1. ~(Cardinality(S) > k)
        <5>1. Cardinality(rest) = 0
            BY <3>2, FS_EmptySet
        <5> HIDE DEF rest
        <5> QED
            BY <1>2, <2>7, <3>1, <5>1
      <4>2. page = {}
        <5>1. \A d \in S : d = least
            BY <3>2
        <5>2. \A d \in S : Rank(d) # k
            BY <2>4, <2>7, <5>1
        <5> QED
            BY <1>3, <5>2
      <4>3. Cardinality(page) = 0
          BY <4>2, FS_EmptySet
      <4> QED
          BY <4>1, <4>3 DEF page, Rank, Below
    <3>3. CASE rest # {}
      <4>1. rest \in SUBSET Nat
          OBVIOUS
      <4>2. PICK next \in rest : \A y \in rest : next <= y
          BY <3>3, <4>1, LeastOf
      <4>3. \A y \in rest : ~(y < next) /\ (y # next => next < y)
          BY <4>1, <4>2
      <4>4. Rank(next) = 1
        <5>1. Below(next) = {least}
            BY <1>3, <2>3, <4>3
        <5> QED
            BY <1>3, <5>1, FS_Singleton
      <4>5. ASSUME NEW d \in rest, d # next PROVE Rank(d) # 1
        <5>1. least \in Below(d) /\ next \in Below(d) /\ least # next
            BY <1>3, <2>3, <4>3, <4>5
        <5>2. IsFiniteSet(Below(d)) /\ Rank(d) = Cardinality(Below(d))
            BY <1>1, <1>3
        <5>3. \A x : Below(d) # {x}
            BY <5>1
        <5> QED
            BY <5>2, <5>3, FS_Singleton
      <4>6. page = {next}
        <5>1. \A d \in S : d = least \/ d = next \/ Rank(d) # k
            BY <2>7, <4>5
        <5>2. Rank(least) # k /\ Rank(next) = k /\ next \in S
            BY <2>4, <2>7, <4>4
        <5> QED
            BY <1>3, <5>1, <5>2
      <4>7. Cardinality(page) = 1 /\ Cardinality(S) > k
        <5>1. Cardinality(page) = 1
            BY <4>6, FS_Singleton
        <5>2. Cardinality(rest) # 0
            BY <3>1, <3>3, FS_EmptySet
        <5> HIDE DEF rest
        <5> QED
            BY <1>2, <2>7, <3>1, <5>1, <5>2
      <4> QED
          BY <4>7 DEF page, Rank, Below
    <3> QED
        BY <3>2, <3>3
  <2> QED
      BY <2>6, <2>7
<1> QED
    BY <1>4, <1>5

-----------------------------------------------------------------------------
(* Mongo: the operations.                                                  *)

LEMMA ChainKept ==
  ASSUME UNCHANGED <<hook, asked, ands, ors, raws, idObject, before>>
  PROVE  (Misread' <=> Misread) /\ (Faithful' <=> Faithful) /\ Meant' = Meant
<1>1. \A c, d : Asks(c, d)' = Asks(c, d)
    BY DEF Asks
<1>2. Misread' <=> Misread
    BY DEF Misread
<1>3. Faithful' <=> Faithful
    BY <1>1 DEF Faithful
<1>4. Meant' = Meant
    BY <1>1 DEF Meant
<1> QED
    BY <1>2, <1>3, <1>4

LEMMA BuildingInitially == MongoInit => Building
<1> SUFFICES ASSUME MongoInit PROVE Building
    OBVIOUS
<1>1. /\ asked = <<>> /\ ands = <<>> /\ ors = <<>> /\ raws = {} /\ idObject = <<>> /\ hook \in Hooks
      /\ limitNumber = 0 /\ offsetNumber = 0 /\ answers = {} /\ changed = {} /\ before = field
    BY DEF MongoInit
<1>2. Among(asked) = {} /\ Among(ands) = {} /\ Among(ors) = {}
    BY <1>1 DEF Among
<1>3. Faithful
    BY <1>1, <1>2 DEF Faithful
<1> QED
    BY <1>1, <1>3 DEF Building

LEMMA FoundIsFinite ==
  Found \in SUBSET Nat /\ IsFiniteSet(Found) /\ Cardinality(Found) \in Nat
<1>1. Found \in SUBSET Documents
    BY DEF Found
<1> QED
    BY <1>1, MongoAssumption, FS_Subset, FS_CardinalityType

\* The documents many() answers.
LEMMA PageOfMany ==
  ASSUME Building, Many
  PROVE  /\ answers' \subseteq Found
         /\ limitNumber = 0 /\ offsetNumber = 0 => answers' = Found
         /\ limitNumber = 1 => Cardinality(answers') = IF Cardinality(Found) > offsetNumber THEN 1 ELSE 0
<1> DEFINE Rank(d) == Cardinality({x \in Found : x < d})
           Inside(d) == Rank(d) >= offsetNumber /\ (limitNumber = 0 \/ Rank(d) < offsetNumber + limitNumber)
           sorted == {d \in Found : Inside(d)}
<1>1. answers' \in SUBSET Found /\ Cardinality(answers') = Cardinality(sorted)
  <2>1. answers' \in IF sortBy = 1 THEN {sorted} ELSE {x \in SUBSET Found : Cardinality(x) = Cardinality(sorted)}
      BY DEF Many
  <2>2. sorted \in SUBSET Found
      OBVIOUS
  <2> HIDE DEF sorted
  <2> QED
      BY <2>1, <2>2
<1>2. \A d \in Found : Rank(d) \in Nat
  <2> SUFFICES ASSUME NEW d \in Found PROVE Rank(d) \in Nat
      OBVIOUS
  <2>1. {x \in Found : x < d} \in SUBSET Found
      OBVIOUS
  <2> QED
      BY <2>1, FoundIsFinite, FS_Subset, FS_CardinalityType
<1>3. offsetNumber \in {0, 1} /\ limitNumber \in {0, 1}
    BY DEF Building
<1>4. ASSUME limitNumber = 0, offsetNumber = 0 PROVE answers' = Found
  <2> HIDE DEF Rank
  <2>1. \A d \in Found : Rank(d) >= offsetNumber
      BY <1>2, <1>4
  <2>2. sorted = Found
      BY <1>4, <2>1
  <2> QED
      BY <1>1, <2>2, FoundIsFinite, FS_Subset
<1>5. ASSUME limitNumber = 1
      PROVE  Cardinality(answers') = IF Cardinality(Found) > offsetNumber THEN 1 ELSE 0
  <2>1. Cardinality({d \in Found : Rank(d) = offsetNumber}) = IF Cardinality(Found) > offsetNumber THEN 1 ELSE 0
      BY <1>3, FoundIsFinite, OneOfARank
  <2> HIDE DEF Rank
  <2>2. \A d \in Found : Inside(d) <=> Rank(d) = offsetNumber
      BY <1>2, <1>3, <1>5
  <2>3. sorted = {d \in Found : Rank(d) = offsetNumber}
      BY <2>2
  <2> HIDE DEF sorted
  <2> QED
      BY <1>1, <2>1, <2>3
<1> QED
    BY <1>1, <1>4, <1>5

\* After an update the documents that match are among those that did.
LEMMA UpdateStays ==
  ASSUME Building, NEW v, Update(v), ran = "none"
  PROVE  changed' \subseteq Found /\ answers' \subseteq Found
<1> DEFINE matched == IF idObject = <<>> THEN {} ELSE Found
           after == [d \in Documents |-> IF d \in matched THEN v ELSE field[d]]
<1>1. changed = {} /\ answers = {} /\ before = field
    BY DEF Building
<1>2. CASE UNCHANGED <<answers, changed>>
    BY <1>1, <1>2
<1>3. CASE /\ changed' = {d \in matched : field[d] # v}
           /\ answers' = IF changed' = {} THEN {} ELSE {d \in Documents : Matches(d, after) /\ ById(d)}
  <2>1. matched \subseteq Found /\ (matched # {} => matched = Found)
      OBVIOUS
  <2>2. ASSUME NEW d \in Documents, d \notin matched PROVE Matches(d, after) <=> Matches(d, before)
    <3>1. after[d] = before[d]
        BY <1>1, <2>2
    <3> HIDE DEF after, matched
    <3> QED
        BY <3>1 DEF Matches, Holds
  <2> HIDE DEF after, matched
  <2>3. changed' \subseteq matched
      BY <1>3
  <2>4. ASSUME NEW d \in answers' PROVE d \in Found
    <3>1. matched = Found
        BY <1>3, <2>1, <2>3, <2>4
    <3>2. d \in Documents /\ Matches(d, after) /\ ById(d)
        BY <1>3, <2>4
    <3> QED
        BY <2>2, <3>1, <3>2 DEF Found
  <2> QED
      BY <2>1, <2>3, <2>4
<1> QED
    BY <1>2, <1>3 DEF Update

\* One operation does as it was meant to.
LEMMA OperationMeant ==
  ASSUME Building, ran = "none", Many \/ One \/ Count \/ Delete \/ Update(2)
  PROVE  Building' /\ DocumentsMeant'
<1>1. UNCHANGED <<hook, asked, ands, ors, raws, idObject, limitNumber, offsetNumber, before>>
    BY DEF Many, One, Count, Delete, Update, Stays
<1>2. ran' # "none"
    BY DEF Many, One, Count, Delete, Update, Runs
<1>3. (Misread' <=> Misread) /\ (Faithful' <=> Faithful) /\ Meant' = Meant
    BY <1>1, ChainKept
<1>4. Building'
    BY <1>1, <1>2, <1>3 DEF Building
<1>5. ASSUME ~Misread'
      PROVE  LET size == Cardinality(Meant)
             IN  /\ ran' \in {"many", "one", "update"} => answers' \subseteq Meant
                 /\ ran' = "many" /\ limitNumber' = 0 /\ offsetNumber' = 0 => answers' = Meant
                 /\ ran' = "many" /\ limitNumber' = 1
                      => Cardinality(answers') = (IF size > offsetNumber' THEN 1 ELSE 0)
                 /\ ran' = "one" => (answers' = {} <=> Meant = {})
                 /\ ran' \in {"count", "delete"} /\ idObject' = <<>> => answers' \cup changed' = Meant
                 /\ ran' \in {"update", "refused"} => changed' \subseteq Meant
  <2>1. Found = Meant /\ (idObject = <<>> => {d \in Documents : Matches(d, before)} = Meant)
      BY <1>3, <1>5, FoundIsMeant
  <2>2. changed = {} /\ answers = {} /\ before = field
      BY DEF Building
  <2>3. CASE Many
    <3>1. ran' = "many"
        BY <2>3 DEF Many, Runs
    <3> QED
        BY <1>1, <2>1, <2>3, <3>1, PageOfMany
  <2>4. CASE One
    <3>1. ran' = "one" /\ answers' \in IF Found = {} THEN {{}} ELSE {{d} : d \in Found}
        BY <2>4 DEF One, Runs
    <3> QED
        BY <2>1, <3>1
  <2>5. CASE Count \/ Delete
    <3>1. /\ ran' \in {"count", "delete"}
          /\ answers' \cup changed' = {d \in Documents : Matches(d, before)}
        BY <2>2, <2>5 DEF Count, Delete, Runs
    <3> QED
        BY <1>1, <2>1, <3>1
  <2>6. CASE Update(2)
    <3>1. ran' \in {"update", "refused"}
        BY <2>6 DEF Update, Runs
    <3>2. changed' \subseteq Found /\ answers' \subseteq Found
        BY <2>6, UpdateStays
    <3> QED
        BY <2>1, <3>1, <3>2
  <2> QED
      BY <2>3, <2>4, <2>5, <2>6
<1>6. DocumentsMeant'
    BY <1>3, <1>5 DEF DocumentsMeant
<1> QED
    BY <1>4, <1>6

LEMMA DocumentsMeantStep ==
  Building /\ DocumentsMeant /\ [MongoNext]_mongoVars => Building' /\ DocumentsMeant'
<1> SUFFICES ASSUME Building, DocumentsMeant, [MongoNext]_mongoVars PROVE Building' /\ DocumentsMeant'
    OBVIOUS
<1>1. CASE UNCHANGED mongoVars
  <2>1. (Misread' <=> Misread) /\ (Faithful' <=> Faithful) /\ Meant' = Meant
      BY <1>1, ChainKept DEF mongoVars
  <2> QED
      BY <1>1, <2>1 DEF mongoVars, Building, DocumentsMeant
<1>2. ASSUME NEW c \in Clauses, AddWhere(c) \/ WhereRaw(c) PROVE Building' /\ DocumentsMeant'
  <2>1. ran' = "none"
      BY <1>2 DEF AddWhere, WhereRaw
  <2> QED
      BY <1>2, <2>1, AddKeeps DEF DocumentsMeant
<1>3. ASSUME NEW s \in {0, 1}, NEW o \in {0, 1}, Paged(s, 1, o) PROVE Building' /\ DocumentsMeant'
  <2>1. /\ ran' = "none" /\ limitNumber' = 1 /\ offsetNumber' = o /\ ran = "none"
        /\ UNCHANGED <<field, hook, asked, ands, ors, raws, idObject, ran, answers, changed, before>>
      BY <1>3 DEF Paged
  <2>2. (Misread' <=> Misread) /\ (Faithful' <=> Faithful)
      BY <2>1, ChainKept
  <2> QED
      BY <2>1, <2>2 DEF Building, DocumentsMeant
<1>4. CASE Many \/ One \/ Count \/ Delete \/ Update(2)
  <2>1. ran = "none"
      BY <1>4 DEF Many, One, Count, Delete, Update, Runs
  <2> QED
      BY <1>4, <2>1, OperationMeant
<1> QED
    BY <1>1, <1>2, <1>3, <1>4 DEF MongoNext

\* Whatever clauses a chain has, as long as none of them is read as another than it is:
\* every operation touches the documents that the chain and the hook of the model mean.
THEOREM FiltersAreMeant == MongoSpec => []DocumentsMeant
<1>1. MongoInit => Building /\ DocumentsMeant
  <2>1. MongoInit => DocumentsMeant
      BY DEF MongoInit, DocumentsMeant
  <2> QED
      BY <2>1, BuildingInitially
<1> QED
    BY <1>1, DocumentsMeantStep, PTL DEF MongoSpec
================================================================================
