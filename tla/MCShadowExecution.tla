-------------------------- MODULE MCShadowExecution --------------------------
(* Values for TLC that a cfg cannot write. *)
EXTENDS ShadowExecution

MCPrimaryLimits == {Unlimited, 0, 3}

MCRetryPolicies ==
  {NoRetry,
   [max_attempts |-> 3, max_elapsed |-> Unlimited, initial |-> 1, maximum |-> 2,
    factor |-> 2, jitter |-> "None"]}
=============================================================================
