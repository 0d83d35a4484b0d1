-------------------------- MODULE MCCircuitBreaker --------------------------
(***************************************************************************)
(* Small instances of the breaker for TLC.  Callers are interchangeable:   *)
(* runs without liveness properties use the symmetry.                      *)
(***************************************************************************)
EXTENDS CircuitBreakerRefinement, TLC

CallerSymmetry == Permutations(Callers)
=============================================================================
