------------------------ MODULE MCConnectionLifecycle ------------------------
(* ConnectionLifecycle instantiated for TLC. *)
EXTENDS ConnectionLifecycle
==============================================================================
