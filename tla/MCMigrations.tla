---------------------------- MODULE MCMigrations ----------------------------
(* Migrations instantiated for TLC. *)
EXTENDS Migrations
=============================================================================
