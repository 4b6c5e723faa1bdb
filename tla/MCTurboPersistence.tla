------------------------ MODULE MCTurboPersistence ------------------------
(* Constants for model checking TurboPersistence. *)
EXTENDS TurboPersistence, TLC


=============================================================================
