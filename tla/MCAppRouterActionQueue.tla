---------------------- MODULE MCAppRouterActionQueue ----------------------
(* Constants for model checking AppRouterActionQueue. *)
EXTENDS AppRouterActionQueue
=============================================================================
