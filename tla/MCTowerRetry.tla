---------------------------- MODULE MCTowerRetry ----------------------------
(* Values for TLC that a cfg cannot write: Unlimited is an operator. *)
EXTENDS TowerRetry

MCLimits == {Unlimited, 0, 3, 5}
=============================================================================
