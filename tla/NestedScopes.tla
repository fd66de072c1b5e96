---------------------------- MODULE NestedScopes ----------------------------
(***************************************************************************)
(* What a tree of nested transactions promises: every scope is atomic.  A  *)
(* scope that commits hands its writes to the scope around it, a scope     *)
(* that rolls back forgets them, and only what the outermost scope commits *)
(* becomes permanent.                                                      *)
(***************************************************************************)
CONSTANTS
  Scope,   \* the nested transactions
  Root,    \* the top-level transaction
  Write    \* the writes

VARIABLES
  state,    \* "new", "open", "committed" or "undone", for each transaction
  around,   \* the transaction each one was opened in
  content,  \* what each open scope would hand over if it committed now
  db        \* the permanent writes

vars == <<state, around, content, db>>

All == Scope \cup {Root}

Init ==
  /\ state = [x \in All |-> IF x = Root THEN "open" ELSE "new"]
  /\ around = [x \in Scope |-> Root]
  /\ content = [x \in All |-> {}]
  /\ db = {}

Open(x, p) ==
  /\ state[x] = "new"
  /\ state[p] = "open"
  /\ state' = [state EXCEPT ![x] = "open"]
  /\ around' = [around EXCEPT ![x] = p]
  /\ UNCHANGED <<content, db>>

Put(w, x) ==
  /\ state[x] = "open"
  /\ content' = [content EXCEPT ![x] = @ \cup {w}]
  /\ UNCHANGED <<state, around, db>>

\* No scope is still open inside x.
Innermost(x) == \A y \in Scope : state[y] = "open" => around[y] # x

Commit(x) ==
  /\ state[x] = "open"
  /\ Innermost(x)
  /\ state' = [state EXCEPT ![x] = "committed"]
  /\ content' = [content EXCEPT ![around[x]] = @ \cup content[x], ![x] = {}]
  /\ UNCHANGED <<around, db>>

Undo(x) ==
  /\ state[x] = "open"
  /\ Innermost(x)
  /\ state' = [state EXCEPT ![x] = "undone"]
  /\ content' = [content EXCEPT ![x] = {}]
  /\ UNCHANGED <<around, db>>

CommitRoot ==
  /\ state[Root] = "open"
  /\ Innermost(Root)
  /\ state' = [state EXCEPT ![Root] = "committed"]
  /\ content' = [content EXCEPT ![Root] = {}]
  /\ db' = db \cup content[Root]
  /\ UNCHANGED around

Next ==
  \/ \E x \in Scope, p \in All : Open(x, p)
  \/ \E w \in Write, x \in All : Put(w, x)
  \/ \E x \in Scope : Commit(x)
  \/ \E x \in All : Undo(x)
  \/ CommitRoot

Spec == Init /\ [][Next]_vars
=============================================================================
