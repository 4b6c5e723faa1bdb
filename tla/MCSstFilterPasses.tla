------------------------ MODULE MCSstFilterPasses ------------------------
(* Constants for model checking SstFilterPasses. *)
EXTENDS SstFilterPasses
=============================================================================
