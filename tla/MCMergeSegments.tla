------------------------- MODULE MCMergeSegments -------------------------
(* Constants for model checking MergeSegments. *)
EXTENDS MergeSegments
=============================================================================
