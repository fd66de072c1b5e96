----------------------------- MODULE MongoSession ------------------------------
(***************************************************************************)
(* A CollectionManager in the session startSession() gives and others      *)
(* outside of it.  The session has a transaction of the server: what it    *)
(* reads is as it was at its first operation, what it deletes is others'   *)
(* to wait for.  Which of the calls reach it is up to the manager.         *)
(***************************************************************************)
EXTENDS Naturals, FiniteSets

CONSTANTS
  Managers,   \* the callers
  Within,     \* those that were given the session
  SessionCalls,   \* what they may ask for
  MaxCalls    \* bound on the calls of each

\* many: documents to insert; id and v: of the record to update or delete.
SessionCall ==
  [name : {"insert", "query insert", "find", "updateRecord", "deleteRecord"}, many : 1..2, id : Nat, v : Nat]

ASSUME MongoSessionAssumption ==
  Within \subseteq Managers /\ MaxCalls \in Nat /\ \A r \in SessionCalls : r \in SessionCall

VARIABLES
  docs,       \* _id -> value, of what is committed
  lastDoc,    \* the last _id given out
  session,    \* the transaction of the session
  snapshot,   \* what it reads, when it has begun to
  deleting,   \* what it has deleted
  calls,      \* of each manager so far
  doing, phase,  \* its call, and where it is
  wrote,      \* history: the documents the call inserted or changed
  got,        \* those it answers, with their values
  missed,     \* history: whether its read misses some: the snapshot is older, or the
              \* session deleted them in between
  inserted    \* history: by the managers of the session while it has not ended

sessionVars ==
  <<docs, lastDoc, session, snapshot, deleting, calls, doing, phase, wrote, got, missed, inserted>>

NoCall == [name |-> "deleteRecord", many |-> 1, id |-> 0, v |-> 0]

SessionInit ==
  /\ docs = [d \in {1} |-> 0] /\ lastDoc = 1
  /\ session = "open" /\ snapshot = <<>> /\ deleting = {}
  /\ calls = [m \in Managers |-> 0] /\ doing = [m \in Managers |-> NoCall]
  /\ phase = [m \in Managers |-> "idle"]
  /\ wrote = [m \in Managers |-> {}] /\ got = [m \in Managers |-> {}]
  /\ missed = [m \in Managers |-> FALSE] /\ inserted = {}

Only(fun, ids) == [d \in DOMAIN fun \cap ids |-> fun[d]]

\* The snapshot of the session, taken when there is none.
Reads == IF snapshot = <<>> THEN <<docs>> ELSE snapshot

InSession(m) == m \in Within /\ session \in {"open", "aborted by the server"}

Goes(m, where) == phase' = [phase EXCEPT ![m] = where]

Ask(m, r) ==
  /\ phase[m] \in {"idle", "answered", "rejected"} /\ calls[m] < MaxCalls
  /\ calls' = [calls EXCEPT ![m] = @ + 1] /\ doing' = [doing EXCEPT ![m] = r]
  /\ Goes(m, "write")
  /\ wrote' = [wrote EXCEPT ![m] = {}] /\ got' = [got EXCEPT ![m] = {}]
  /\ missed' = [missed EXCEPT ![m] = FALSE]
  /\ UNCHANGED <<docs, lastDoc, session, snapshot, deleting, inserted>>

\* The first n documents, in their order: the one after them is refused.
NextIds(n) == (lastDoc + 1)..(lastDoc + n)

InsertsFirst(m, n) ==
  /\ docs' = [d \in DOMAIN docs \cup NextIds(n) |-> IF d \in NextIds(n) THEN 1 ELSE docs[d]]
  /\ lastDoc' = lastDoc + n
  /\ wrote' = [wrote EXCEPT ![m] = NextIds(n)]

\* insertOne() and insertMany() are given no session.
InsertDocuments(m) == \E n \in 0..doing[m].many :
  /\ phase[m] = "write" /\ doing[m].name = "insert" /\ InsertsFirst(m, n)
  /\ Goes(m, IF n = doing[m].many THEN "read" ELSE "rejected")
  /\ inserted' = IF InSession(m) THEN inserted \cup NextIds(n) ELSE inserted
  /\ missed' = [missed EXCEPT ![m] = m \in Within /\ snapshot # <<>>]
  /\ UNCHANGED <<session, snapshot, deleting, calls, doing, got>>

\* query() is given the session and drops it: its inserts run outside of it, and so does
\* the read that follows unless only the ids are asked for.
InsertByQuery(m) == \E n \in 0..doing[m].many :
  /\ phase[m] = "write" /\ doing[m].name = "query insert" /\ InsertsFirst(m, n)
  /\ \/ n < doing[m].many /\ Goes(m, "rejected") /\ UNCHANGED got
     \/ n = doing[m].many /\ Goes(m, "read") /\ UNCHANGED got
     \/ /\ n = doing[m].many /\ Goes(m, "answered")
        /\ got' = [got EXCEPT ![m] = {<<d, 1>> : d \in NextIds(n)}]
  /\ UNCHANGED <<session, snapshot, deleting, calls, doing, missed, inserted>>

ReadByQuery(m) ==
  LET seen == Only(docs, wrote[m])
  IN  /\ phase[m] = "read" /\ doing[m].name = "query insert" /\ Goes(m, "answered")
      /\ got' = [got EXCEPT ![m] = {<<d, seen[d]>> : d \in DOMAIN seen}]
      /\ UNCHANGED <<docs, lastDoc, session, snapshot, deleting, calls, doing, wrote, missed, inserted>>

\* find() and findOne() are queries, too: they read what is committed, not what the
\* session would.
Find(m) ==
  /\ phase[m] = "write" /\ doing[m].name = "find" /\ Goes(m, "answered")
  /\ got' = [got EXCEPT ![m] = {<<d, docs[d]>> : d \in DOMAIN docs}]
  /\ UNCHANGED <<docs, lastDoc, session, snapshot, deleting, calls, doing, wrote, missed, inserted>>

\* updateOne() is given none either: it waits for whoever deletes the document, its
\* own session as well.  A document that is as it should be counts as not found.
UpdateDocument(m) ==
  LET id == doing[m].id
      modified == id \in DOMAIN docs /\ docs[id] # doing[m].v
  IN  /\ phase[m] = "write" /\ doing[m].name = "updateRecord" /\ id \notin deleting
      /\ docs' = [d \in DOMAIN docs |-> IF d = id THEN doing[m].v ELSE docs[d]]
      /\ wrote' = [wrote EXCEPT ![m] = IF modified THEN {id} ELSE {}]
      /\ missed' = [missed EXCEPT ![m] = m \in Within /\ snapshot # <<>>]
      /\ Goes(m, IF modified THEN "read" ELSE "rejected")
      /\ UNCHANGED <<lastDoc, session, snapshot, deleting, calls, doing, got, inserted>>

\* A mutant: the read is given no _id.
ReadAll(m) ==
  /\ phase[m] = "read" /\ doing[m].name # "query insert"
  /\ \/ /\ InSession(m) /\ session = "open"
        /\ snapshot' = Reads
        /\ got' = [got EXCEPT ![m] = {<<d, Reads[1][d]>> : d \in DOMAIN Reads[1] \ deleting}]
        /\ missed' = [missed EXCEPT ![m] = @ \/ wrote[m] \cap deleting # {}]
        /\ Goes(m, "answered")
     \/ /\ InSession(m) /\ session = "aborted by the server"
        /\ Goes(m, "rejected") /\ UNCHANGED <<snapshot, got, missed>>
     \/ /\ ~InSession(m)
        /\ got' = [got EXCEPT ![m] = {<<d, docs[d]>> : d \in DOMAIN docs}]
        /\ Goes(m, "answered") /\ UNCHANGED <<snapshot, missed>>
  /\ UNCHANGED <<docs, lastDoc, session, deleting, calls, doing, wrote, inserted>>

\* The read that follows has the session.
ReadDocuments(m) ==
  /\ phase[m] = "read" /\ doing[m].name # "query insert"
  /\ \/ /\ InSession(m) /\ session = "open"
        /\ snapshot' = Reads
        /\ LET seen == Only(Reads[1], wrote[m] \ deleting)
           IN  got' = [got EXCEPT ![m] = {<<d, seen[d]>> : d \in DOMAIN seen}]
        /\ missed' = [missed EXCEPT ![m] = @ \/ wrote[m] \cap deleting # {}]
        /\ Goes(m, "answered")
     \/ /\ InSession(m) /\ session = "aborted by the server"
        /\ Goes(m, "rejected") /\ UNCHANGED <<snapshot, got, missed>>
     \/ /\ ~InSession(m)
        /\ LET seen == Only(docs, wrote[m])
           IN  got' = [got EXCEPT ![m] = {<<d, seen[d]>> : d \in DOMAIN seen}]
        /\ Goes(m, "answered") /\ UNCHANGED <<snapshot, missed>>
  /\ UNCHANGED <<docs, lastDoc, session, deleting, calls, doing, wrote, inserted>>

\* deleteOne() has the session: a document another changed after the snapshot is a
\* conflict, with which the server ends the transaction.
DeleteDocument(m) ==
  LET id == doing[m].id
      same == id \in DOMAIN Reads[1] => Only(docs, {id}) = Only(Reads[1], {id})
  IN  /\ phase[m] = "write" /\ doing[m].name = "deleteRecord"
      /\ \/ /\ ~InSession(m) /\ id \notin deleting
            /\ docs' = Only(docs, DOMAIN docs \ {id}) /\ Goes(m, "answered")
            /\ UNCHANGED <<session, snapshot, deleting>>
         \/ /\ InSession(m) /\ session = "open" /\ same
            /\ snapshot' = Reads /\ deleting' = deleting \cup ({id} \cap DOMAIN Reads[1])
            /\ Goes(m, "answered") /\ UNCHANGED <<docs, session>>
         \/ /\ InSession(m) /\ session = "open" /\ ~same
            /\ session' = "aborted by the server" /\ deleting' = {}
            /\ Goes(m, "rejected") /\ UNCHANGED <<docs, snapshot>>
         \/ /\ InSession(m) /\ session = "aborted by the server"
            /\ Goes(m, "rejected") /\ UNCHANGED <<docs, session, snapshot, deleting>>
      /\ UNCHANGED <<lastDoc, calls, doing, wrote, got, missed, inserted>>

\* A statement is rejected, a read that follows a write as well; one the session was
\* given may end the transaction.
Fails(m) ==
  /\ phase[m] \in {"write", "read"} /\ Goes(m, "rejected")
  /\ \/ UNCHANGED <<session, deleting>>
     \/ /\ InSession(m) /\ session = "open"
        /\ doing[m].name = "deleteRecord" \/ (phase[m] = "read" /\ doing[m].name # "query insert")
        /\ session' = "aborted by the server" /\ deleting' = {}
  /\ UNCHANGED <<docs, lastDoc, snapshot, calls, doing, wrote, got, missed, inserted>>

\* The application: session.commitTransaction() and abortTransaction(), when the
\* calls in the session have settled.
CallsSettled == \A m \in Within : phase[m] \in {"idle", "answered", "rejected"}

CommitTransaction ==
  /\ session = "open" /\ CallsSettled /\ session' = "committed"
  /\ docs' = Only(docs, DOMAIN docs \ deleting) /\ deleting' = {}
  /\ UNCHANGED <<lastDoc, snapshot, calls, doing, phase, wrote, got, missed, inserted>>

AbortTransaction ==
  /\ session \in {"open", "aborted by the server"} /\ CallsSettled
  /\ session' = "aborted" /\ deleting' = {}
  /\ UNCHANGED <<docs, lastDoc, snapshot, calls, doing, phase, wrote, got, missed, inserted>>

\* The server ends a transaction that lasts too long.
Expires ==
  /\ session = "open" /\ snapshot # <<>>
  /\ session' = "aborted by the server" /\ deleting' = {}
  /\ UNCHANGED <<docs, lastDoc, snapshot, calls, doing, phase, wrote, got, missed, inserted>>

SessionNext ==
  \/ \E m \in Managers, r \in SessionCalls : Ask(m, r)
  \/ \E m \in Managers :
       \/ InsertDocuments(m) \/ UpdateDocument(m) \/ ReadDocuments(m) \/ DeleteDocument(m)
       \/ InsertByQuery(m) \/ ReadByQuery(m) \/ Find(m) \/ Fails(m)
  \/ CommitTransaction
  \/ AbortTransaction
  \/ Expires

SessionSpec == SessionInit /\ [][SessionNext]_sessionVars

-----------------------------------------------------------------------------
(* Properties.                                                             *)

\* insert(), insertMany() and updateRecord() answer documents they wrote, and all of
\* them that are still there, unless the session's snapshot is older than the write or
\* another call deleted them in the session; so do the inserts of a query, with any
\* snapshot; and what the session deletes is there for the others until it commits.
\* Whether a call that is rejected wrote nothing, some documents or all of them is not
\* said: insertMany() keeps those before the one refused, and the read after a write
\* may fail (mongo_collection_manager.ts 194-304).
DocumentsAnswered ==
  /\ \A m \in Managers :
       /\ doing[m].name # "find" => {x[1] : x \in got[m]} \subseteq wrote[m]
       /\ phase[m] = "answered" /\ ~missed[m] => wrote[m] \cap DOMAIN docs \subseteq {x[1] : x \in got[m]}
  /\ deleting \subseteq DOMAIN docs

\* "should abortTransaction a session": what was inserted in an aborted session is
\* not there (trx_mongo.test.ts 50-62).
AbortUndoes == session = "aborted" => inserted \cap DOMAIN docs = {}
=============================================================================
