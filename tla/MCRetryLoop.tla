---------------------------- MODULE MCRetryLoop ----------------------------
(***************************************************************************)
(* Policies for TLC: every jitter, factors that stay flat, double and      *)
(* saturate the multiplier (U32Max = 7); max_elapsed is missing, zero,     *)
(* between, or Duration::MAX, where the sum of times saturates.            *)
(***************************************************************************)
EXTENDS RetryLoop

MCPolicies ==
  {[max_attempts |-> n, max_elapsed |-> e, initial |-> 1, maximum |-> m,
    factor |-> f, jitter |-> j] :
     n \in {1, 4}, e \in {Unlimited, 0, 4, DurationMax}, m \in {1, 3, 12}, f \in {1, 2, 3},
     j \in {"None", "Full", "Equal"}}
=============================================================================
