---------------------- MODULE CircuitBreakerRefinement ----------------------
(***************************************************************************)
(* The breaker of circuit_breaker.rs implements BreakerContract: the       *)
(* members of an era are the holders of permits of the current generation. *)
(* Outcomes of older permits, rejections and refreshes that find nothing   *)
(* to do are stuttering steps of the contract.                             *)
(***************************************************************************)
EXTENDS CircuitBreaker

Contract == INSTANCE BreakerContract WITH
  phase <- shared.mode,
  deadline <- shared.until,
  streak <- shared.consecutive_failures,
  wins <- shared.successes,
  members <- {c \in Callers : Current(c)}

\* Generations and the in_flight counter together behave like the contract's set
\* of members: stale outcomes never count, a HalfOpen era admits by its running
\* probes and ends on the outcome the contract names.  Needs NoOverflow.
ImplementsContract == Contract!Spec
=============================================================================
