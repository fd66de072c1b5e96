---------------------------- MODULE MCTransaction ----------------------------
(* Transaction instantiated for TLC. *)
EXTENDS Transaction, TLC

\* Connections, statements and ending tasks are interchangeable; transactions
\* are not, the callback form distinguishes them.
DataSymmetry == Permutations(Conn) \cup Permutations(Stmt) \cup Permutations(Ender)
==============================================================================
