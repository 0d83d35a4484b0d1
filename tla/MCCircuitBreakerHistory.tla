----------------------- MODULE MCCircuitBreakerHistory -----------------------
(* Small instances of CircuitBreakerHistory for TLC. *)
EXTENDS CircuitBreakerHistory, TLC

CallerSymmetry == Permutations(Callers)
=============================================================================
