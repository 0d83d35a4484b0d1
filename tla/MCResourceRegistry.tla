------------------------- MODULE MCResourceRegistry -------------------------
(* Small instances for TLC; threads and routes are interchangeable. *)
EXTENDS RouteResources, TLC

Symmetry == Permutations(Threads) \cup Permutations(Routes)
=============================================================================
