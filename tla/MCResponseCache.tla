------------------------- MODULE MCResponseCache -------------------------
(* Constants for model checking ResponseCache. *)
EXTENDS ResponseCache
=============================================================================
