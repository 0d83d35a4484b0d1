---------------------------- MODULE MCStandalone -----------------------------
(***************************************************************************)
(* RetryBudget and Observability share nothing with each other or with the *)
(* rest, and each property speaks of one of them: it is enough that either *)
(* runs while the other has not begun.  One bucket is small, one at the    *)
(* top of the u32 range, where the replenished sum exceeds the width; two  *)
(* interchangeable threads observe any two events.                         *)
(***************************************************************************)
EXTENDS RetryBudget, Observability, TLC

MCCapacity == [n \in Namespaces |-> IF n = "primary" THEN 2 ELSE U32Max]
MCReplenish == [n \in Namespaces |-> IF n = "primary" THEN 1 ELSE U32Max - 1]

Symmetry == Permutations(Threads)

StandaloneInit == Init /\ SinkInit

StandaloneNext ==
  \/ SinkInit /\ Next /\ UNCHANGED sinkVars
  \/ Init /\ SinkNext /\ UNCHANGED vars

StandaloneSpec == StandaloneInit /\ [][StandaloneNext]_<<vars, sinkVars>>
=============================================================================
