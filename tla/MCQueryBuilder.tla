---------------------------- MODULE MCQueryBuilder ----------------------------
(* QueryBuilder instantiated for TLC. *)
EXTENDS QueryBuilder
=============================================================================
