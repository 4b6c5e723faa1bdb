-------------------------- MODULE MCBackendSnapshot --------------------------
(* TLC instances of BackendSnapshot: see the .cfg files. *)
EXTENDS BackendSnapshot
=============================================================================
