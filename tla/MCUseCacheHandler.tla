-------------------------- MODULE MCUseCacheHandler --------------------------
(* Constants for model checking UseCacheHandler. *)
EXTENDS UseCacheHandler, TLC

CONSTANTS r1, r2, r3, k1, k2
TwoKeys == (r1 :> k1) @@ (r2 :> k1) @@ (r3 :> k2)
SomeSizes == (r1 :> {1, 3}) @@ (r2 :> {2}) @@ (r3 :> {1})
AllTags == {Tags}
=============================================================================
