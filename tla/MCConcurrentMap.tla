--------------------------- MODULE MCConcurrentMap ---------------------------
(* ConcurrentMap on a small instance: the callers' function counts up. *)
EXTENDS ConcurrentMap, TLC

CONSTANTS v0, v1, v2

CountUp == v0 :> v1 @@ v1 :> v2 @@ v2 :> v2
=============================================================================
