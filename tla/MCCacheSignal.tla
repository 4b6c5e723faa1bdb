---------------------------- MODULE MCCacheSignal ----------------------------
(* Constants for model checking CacheSignal. *)
EXTENDS CacheSignal
=============================================================================
