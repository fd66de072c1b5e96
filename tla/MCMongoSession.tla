---------------------------- MODULE MCMongoSession -----------------------------
(* MongoSession alone, with one insert in the session. *)
EXTENDS MongoSession

MCInserts == {[name |-> "insert", many |-> 1, id |-> 0, v |-> 0]}
=============================================================================
