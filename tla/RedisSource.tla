------------------------------ MODULE RedisSource ------------------------------
(***************************************************************************)
(* A RedisDataSource: how its client comes and goes, which commands wait   *)
(* for it, what a value becomes on its way through a key, and who is given *)
(* the messages of a channel.                                              *)
(*                                                                         *)
(* One key of each data type stands for all of them, and one value for     *)
(* those that are converted alike; the order of the elements of a list and *)
(* the scores of a sorted set are left out.  A command the server executes *)
(* is one step.  A pattern is a channel.                                   *)
(***************************************************************************)
EXTENDS Naturals, FiniteSets

CONSTANTS
  MaxClients,   \* bound on the clients made
  RedisUsers,   \* the callers
  Channels,
  Commands,     \* the commands they choose from
  MaxCommands   \* bound on those of each caller


VARIABLES
  lazyLoad, isConnected,
  ioRedis,                     \* the client, 0 when null
  connecting,                  \* the caller whose connect() is shared, "none" when null
  opened, made,                \* the clients that are open, and how many were made
  texts,                       \* data type -> the texts of the key
  commanded, command, progress,\* caller -> how many commands it gave, its last, where it is
  awaited,                     \* caller -> the client it awaits an answer of
  consumed,                    \* caller -> the texts a consume() has read
  fetched,                     \* caller -> the values it was answered
  cause,                       \* caller -> why it was rejected
  channels,                    \* client -> those it is subscribed to
  handlers,                    \* client -> its handlers: the channel and the caller of each
  stored,                      \* history: data type -> the values written
  listening,                   \* history: the handlers of subscribe() calls that are in force
  undelivered,                 \* history: those of them that were not given a message
  disturbed                    \* history: what happened that the callers should prevent

lifeVars == <<lazyLoad, isConnected, ioRedis, connecting, opened, made>>
dataVars == <<texts, consumed, fetched, stored>>
subVars == <<channels, handlers, listening, undelivered>>
userVars == <<commanded, command, progress, awaited, cause>>
redisVars == <<lifeVars, dataVars, subVars, userVars, disturbed>>

DataTypes == {"string", "list", "hash", "set", "sorted"}

\* Values of JavaScript, and the texts stored for them.
Typed == {"object", "number", "true", "false"}
Texts == {"a text", "a text of digits", "a text of JSON", "true", "false", "an empty text"}

Command ==
  [do : {"write", "read", "consume", "delete"}, type : DataTypes, value : Typed \cup Texts]
    \cup [do : {"subscribe", "unsubscribe", "publish"}, channel : Channels]
    \cup [do : {"ask", "connect", "disconnect"}]

ASSUME RedisAssumption ==
  MaxClients \in Nat /\ MaxCommands \in Nat /\ Commands \subseteq Command /\ "none" \notin RedisUsers

\* JSON.stringify() for an object, toString() for a boolean; a number becomes digits.
Stored(value) ==
  CASE value = "object" -> "a text of JSON"
    [] value = "number" -> "a text of digits"
    [] OTHER -> value

\* A mutant: the test for booleans comes before JSON.parse().
GetValueByTest(t) ==
  CASE t = "an empty text" -> {}
    [] t \in {"true", "false"} -> {"true"}
    [] t = "a text of JSON" -> {"object"}
    [] t = "a text of digits" -> {"number"}
    [] OTHER -> {t}

\* A text is what it reads as, whatever it was before; an empty text is null.
GetValue(t) ==
  CASE t = "an empty text" -> {}
    [] t = "a text of JSON" -> {"object"}
    [] t = "a text of digits" -> {"number"}
    [] OTHER -> {t}

Values(ts) == UNION {GetValue(t) : t \in ts}

\* What the key of each type has once a text is written to it.
SetText(t) == {t}
HSet(t) == {t}
Push(t) == texts.list \cup {t}
SAdd(t) == texts.set \cup {t}
ZAdd(t) == texts.sorted \cup {t}

Added(type, t) ==
  CASE type = "string" -> SetText(t)
    [] type = "hash" -> HSet(t)
    [] type = "list" -> Push(t)
    [] type = "set" -> SAdd(t)
    [] type = "sorted" -> ZAdd(t)

\* The values a read of each type answers; those that are null are left out of lists.
GetText == Values(texts.string)
HGet == Values(texts.hash)
LRange == Values(texts.list)
SMembers == Values(texts.set)
ZRange == Values(texts.sorted)

Answered(type) ==
  CASE type = "string" -> GetText
    [] type = "hash" -> HGet
    [] type = "list" -> LRange
    [] type = "set" -> SMembers
    [] type = "sorted" -> ZRange

\* get(), consume(), lpop(), rpop(), lrange(), hgetall(), smembers(), zrange() and the
\* others that convert what they answer do not wait for the connection.
Direct(c) == c.do \in {"read", "consume"}

-----------------------------------------------------------------------------

RedisInit ==
  /\ lazyLoad \in BOOLEAN /\ isConnected = FALSE /\ ioRedis = 0 /\ connecting = "none"
  /\ opened = {} /\ made = 0
  /\ texts = [t \in DataTypes |-> {}] /\ stored = texts
  /\ commanded = [u \in RedisUsers |-> 0]
  /\ command = [u \in RedisUsers |-> [do |-> "connect"]]
  /\ progress = [u \in RedisUsers |-> "done"]
  /\ awaited = commanded
  /\ consumed = [u \in RedisUsers |-> {}] /\ fetched = consumed
  /\ cause = [u \in RedisUsers |-> "none"]
  /\ channels = [k \in 1..MaxClients |-> {}] /\ handlers = channels
  /\ listening = {} /\ undelivered = {} /\ disturbed = {}

Advance(u, to) == progress' = [progress EXCEPT ![u] = to]
Resolves(u) == Advance(u, "done") /\ UNCHANGED cause
Rejects(u, why) == Advance(u, "rejected") /\ cause' = [cause EXCEPT ![u] = why]

Connects == {u \in RedisUsers : progress[u] \in {"importing", "pinging"}}
Explicit == {u \in Connects : command[u].do = "connect"}
HalfSubscribed == \E v \in RedisUsers : progress[v] = "subscribed"
Disturb(what, if) == disturbed' = IF if THEN disturbed \cup {what} ELSE disturbed

\* connect(): another one under way is not looked at, and ends in a second client.
Connect(u) ==
  /\ IF isConnected THEN Resolves(u) ELSE Advance(u, "importing") /\ UNCHANGED cause
  /\ Disturb("overlap", ~isConnected /\ Connects # {})
  /\ UNCHANGED <<lifeVars, awaited>>

\* disconnect(): a source that is not connected keeps whatever client it has.
Disconnect(u) ==
  /\ IF isConnected /\ ioRedis # 0
     THEN Advance(u, "quitting") /\ awaited' = [awaited EXCEPT ![u] = ioRedis]
     ELSE Advance(u, "done") /\ UNCHANGED awaited
  /\ UNCHANGED <<lifeVars, cause, disturbed>>

\* A mutant: ensureConnected() does not share the connect() of another command.
ConnectEach(u) ==
  /\ isConnected \/ lazyLoad
  /\ IF isConnected
     THEN Advance(u, "ready") /\ UNCHANGED <<connecting, disturbed>>
     ELSE Advance(u, "importing") /\ connecting' = u /\ Disturb("overlap", Explicit # {})
  /\ UNCHANGED cause

\* ensureConnected(): the commands given while it connects share one connect().
Await(u) ==
  /\ isConnected \/ lazyLoad
  /\ CASE isConnected ->
            Advance(u, "ready") /\ UNCHANGED <<connecting, disturbed>>
       [] ~isConnected /\ connecting = "none" ->
            Advance(u, "importing") /\ connecting' = u /\ Disturb("overlap", Explicit # {})
       [] ~isConnected /\ connecting # "none" ->
            Advance(u, "waiting") /\ UNCHANGED <<connecting, disturbed>>
  /\ UNCHANGED cause

\* A command that does not wait goes to the client of that moment.
Send(u) ==
  /\ IF ioRedis = 0 THEN Rejects(u, "FAILED") ELSE Advance(u, "ready") /\ UNCHANGED cause
  /\ awaited' = [awaited EXCEPT ![u] = ioRedis]
  /\ UNCHANGED <<lifeVars, disturbed>>

\* A caller gives its next command, which runs up to its first await.
GiveCommand(u) ==
  /\ progress[u] \in {"done", "rejected"} /\ commanded[u] < MaxCommands
  /\ \E c \in Commands :
       /\ commanded' = [commanded EXCEPT ![u] = @ + 1] /\ command' = [command EXCEPT ![u] = c]
       /\ fetched' = [fetched EXCEPT ![u] = {}]
       /\ \/ c.do = "connect" /\ Connect(u)
          \/ c.do = "disconnect" /\ Disconnect(u)
          \/ Direct(c) /\ Send(u)
          \/ /\ c.do \notin {"connect", "disconnect"} /\ ~Direct(c)
             /\ \/ Await(u)
                \/ ~isConnected /\ ~lazyLoad /\ Rejects(u, "CONNECTION_NOT_ESTABLISHED")
                   /\ UNCHANGED <<connecting, disturbed>>
             /\ UNCHANGED <<lazyLoad, isConnected, ioRedis, opened, made, awaited>>
  /\ UNCHANGED <<texts, consumed, stored, subVars>>

\* The driver is imported: the new client replaces whatever client there was.
NewClient(u) ==
  /\ progress[u] = "importing" /\ made < MaxClients
  /\ made' = made + 1 /\ ioRedis' = made + 1 /\ opened' = opened \cup {made + 1}
  /\ awaited' = [awaited EXCEPT ![u] = made + 1]
  /\ Advance(u, "pinging")
  /\ Disturb("between", HalfSubscribed)
  /\ UNCHANGED <<lazyLoad, isConnected, connecting, dataVars, subVars, commanded, command, cause>>

\* What becomes of those that await the connect() of u.
Settled(u, to, why) ==
  LET shared == IF connecting = u THEN {u} \cup {v \in RedisUsers : progress[v] = "waiting"} ELSE {}
  IN  /\ progress' = [v \in RedisUsers |->
                        CASE v \in shared -> to
                          [] v = u /\ v \notin shared -> IF to = "ready" THEN "done" ELSE to
                          [] OTHER -> progress[v]]
      /\ cause' = [v \in RedisUsers |-> IF v \in shared \cup {u} /\ to = "rejected" THEN why ELSE cause[v]]
      /\ connecting' = IF connecting = u THEN "none" ELSE connecting

\* The ping is answered.
Pinged(u) ==
  /\ progress[u] = "pinging" /\ awaited[u] \in opened
  /\ isConnected' = TRUE
  /\ Settled(u, "ready", "none")
  /\ UNCHANGED <<lazyLoad, ioRedis, opened, made, dataVars, subVars, commanded, command, awaited, disturbed>>

\* The ping fails: connect() rejects, and leaves the client to go on trying.
PingFails(u) ==
  /\ progress[u] = "pinging"
  /\ Settled(u, "rejected", "CONNECTION_NOT_ESTABLISHED")
  /\ Disturb("failure", TRUE)
  /\ UNCHANGED <<lazyLoad, isConnected, ioRedis, opened, made, dataVars, subVars, commanded, command, awaited>>

\* A message is given to every handler of every client subscribed to its channel,
\* whichever channel the handler was meant for.
Deliver(channel) ==
  LET receivers == UNION {handlers[k] : k \in {k \in opened : channel \in channels[k]}}
  IN  undelivered' = undelivered \cup {h \in listening : h[1] = channel /\ h \notin receivers}

-----------------------------------------------------------------------------
(* The command of u on its client, that of the moment unless it was sent before. *)

RunWrite(u, c) ==
  /\ c.do = "write"
  /\ texts' = [texts EXCEPT ![c.type] = Added(c.type, Stored(c.value))]
  /\ stored' = [stored EXCEPT ![c.type] = @ \cup {c.value}]
  /\ Resolves(u)
  /\ UNCHANGED <<consumed, fetched, subVars, awaited, disturbed>>

RunDelete(u, c) ==
  /\ c.do = "delete"
  /\ texts' = [texts EXCEPT ![c.type] = {}]
  /\ Resolves(u)
  /\ UNCHANGED <<consumed, fetched, stored, subVars, awaited, disturbed>>

RunRead(u, c) ==
  /\ c.do = "read"
  /\ fetched' = [fetched EXCEPT ![u] = Answered(c.type)]
  /\ Resolves(u)
  /\ UNCHANGED <<texts, consumed, stored, subVars, awaited, disturbed>>

\* lpop() and rpop() take an element; consume() reads the key and deletes it afterwards.
RunConsume(u, c) ==
  /\ c.do = "consume"
  /\ \/ /\ c.type = "list"
        /\ \/ texts.list = {} /\ UNCHANGED <<texts, fetched>>
           \/ \E t \in texts.list :
                /\ texts' = [texts EXCEPT !.list = @ \ {t}]
                /\ fetched' = [fetched EXCEPT ![u] = GetValue(t)]
        /\ Resolves(u)
        /\ UNCHANGED consumed
     \/ /\ c.type = "string"
        /\ consumed' = [consumed EXCEPT ![u] = texts.string]
        /\ Advance(u, "consuming")
        /\ UNCHANGED <<texts, fetched, cause>>
  /\ UNCHANGED <<stored, subVars, awaited, disturbed>>

\* exists(), ttl(), llen() and the others that answer what the server does.
RunAsk(u, c) ==
  /\ c.do = "ask"
  /\ Resolves(u)
  /\ UNCHANGED <<dataVars, subVars, awaited, disturbed>>

RunPublish(u, c) ==
  /\ c.do = "publish"
  /\ Deliver(c.channel)
  /\ Resolves(u)
  /\ UNCHANGED <<dataVars, channels, handlers, listening, awaited, disturbed>>

\* The server subscribes the client; the handler is attached afterwards.
RunSubscribe(u, c) ==
  /\ c.do = "subscribe"
  /\ channels' = [channels EXCEPT ![ioRedis] = @ \cup {c.channel}]
  /\ Advance(u, "subscribed")
  /\ UNCHANGED <<dataVars, handlers, listening, undelivered, cause, awaited, disturbed>>

\* The handlers stay.
RunUnsubscribe(u, c) ==
  /\ c.do = "unsubscribe"
  /\ channels' = [channels EXCEPT ![ioRedis] = @ \ {c.channel}]
  /\ listening' = {h \in listening : h[1] # c.channel}
  /\ Disturb("between", HalfSubscribed)
  /\ Resolves(u)
  /\ UNCHANGED <<dataVars, handlers, undelivered, awaited>>

\* A client that subscribed to something refuses the other commands.
Refused(k, c) ==
  k \in opened => channels[k] # {} /\ c.do \notin {"subscribe", "unsubscribe"}

RunCommand(u) ==
  LET c == command[u]
      k == IF Direct(c) THEN awaited[u] ELSE ioRedis
  IN  /\ progress[u] = "ready"
      /\ \/ Refused(k, c) /\ Rejects(u, "FAILED") /\ UNCHANGED <<dataVars, subVars, awaited, disturbed>>
         \/ /\ ~Refused(k, c)
            /\ \/ RunWrite(u, c) \/ RunDelete(u, c) \/ RunRead(u, c) \/ RunConsume(u, c)
               \/ RunAsk(u, c)
               \/ RunPublish(u, c) \/ RunSubscribe(u, c) \/ RunUnsubscribe(u, c)
      /\ UNCHANGED <<lifeVars, commanded, command>>

\* The second half of consume(), which asks for the client anew.
Consumed(u) ==
  /\ progress[u] = "consuming"
  /\ \/ Refused(ioRedis, command[u]) /\ Rejects(u, "FAILED") /\ UNCHANGED <<texts, fetched>>
     \/ /\ ~Refused(ioRedis, command[u])
        /\ texts' = [texts EXCEPT !.string = {}]
        /\ fetched' = [fetched EXCEPT ![u] = Values(consumed[u])]
        /\ Resolves(u)
  /\ UNCHANGED <<lifeVars, consumed, stored, subVars, commanded, command, awaited, disturbed>>

\* The second half of subscribe(): the handler goes to the client of that moment.
Attached(u) ==
  /\ progress[u] = "subscribed"
  /\ \/ ioRedis = 0 /\ Rejects(u, "FAILED") /\ UNCHANGED subVars
     \/ /\ ioRedis # 0
        /\ LET h == <<command[u].channel, u>>
           IN  handlers' = [handlers EXCEPT ![ioRedis] = @ \cup {h}] /\ listening' = listening \cup {h}
        /\ Resolves(u)
        /\ UNCHANGED <<channels, undelivered>>
  /\ UNCHANGED <<lifeVars, dataVars, commanded, command, awaited, disturbed>>

\* The client has quit, or had before; a quit that fails is logged.
Quitted(u) ==
  /\ progress[u] = "quitting"
  /\ \/ /\ awaited[u] \in opened
        /\ opened' = opened \ {awaited[u]} /\ isConnected' = FALSE /\ ioRedis' = 0
        /\ listening' = {} /\ Disturb("between", HalfSubscribed)
     \/ /\ awaited[u] \notin opened
        /\ UNCHANGED <<opened, isConnected, ioRedis, listening, disturbed>>
  /\ Resolves(u)
  /\ UNCHANGED <<lazyLoad, connecting, made, dataVars, channels, handlers, undelivered, commanded, command, awaited>>

\* Another client of the server publishes a message.
Message(channel) ==
  /\ Deliver(channel)
  /\ UNCHANGED <<lifeVars, dataVars, channels, handlers, listening, userVars, disturbed>>

RedisNext ==
  \/ \E u \in RedisUsers :
       GiveCommand(u) \/ NewClient(u) \/ Pinged(u) \/ PingFails(u) \/ RunCommand(u)
         \/ Consumed(u) \/ Attached(u) \/ Quitted(u)
  \/ \E c \in Channels : Message(c)

RedisSpec == RedisInit /\ [][RedisNext]_redisVars

-----------------------------------------------------------------------------

\* What a value that was stored may read as: itself, or what its text reads as.
ReadsAs(v) == IF v \in Typed \cup {"a text"} THEN {v} ELSE GetValue(v)

\* As long as the callers do not connect twice at a time, a source that takes itself
\* for connected has an open client, so that its commands reach the server; and if no
\* ping failed either, no other client stays open.  A resolved subscribe() gives its
\* handler every message until somebody unsubscribes or disconnects, unless that, or a
\* client that replaces the one subscribed, came before the handler was attached.  And
\* typed values come back from every type of key as they were written.
RedisServes ==
  /\ "overlap" \notin disturbed =>
       /\ isConnected => ioRedis \in opened
       /\ "failure" \notin disturbed => opened \subseteq {ioRedis}
  /\ "between" \notin disturbed => undelivered = {}
  /\ \A u \in RedisUsers :
       progress[u] = "done" /\ Direct(command[u])
         => fetched[u] \subseteq UNION {ReadsAs(v) : v \in stored[command[u].type]}
=============================================================================
