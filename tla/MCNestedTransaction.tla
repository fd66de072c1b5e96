------------------------- MODULE MCNestedTransaction -------------------------
(* NestedTransaction instantiated for TLC. *)
EXTENDS NestedTransaction

\* Nested transactions and writes are interchangeable.
ScopeWriteSymmetry == Permutations(Scope) \cup Permutations(Write)
==============================================================================
