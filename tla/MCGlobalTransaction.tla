------------------------- MODULE MCGlobalTransaction -------------------------
(* GlobalTransaction instantiated for TLC. *)
EXTENDS GlobalTransaction, TLC

\* Starting tasks are interchangeable, and so are ending tasks.
TaskSymmetry == Permutations(Starter) \cup Permutations(Ender)
==============================================================================
