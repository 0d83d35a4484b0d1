------------------------- MODULE BulkheadRefinement -------------------------
(***************************************************************************)
(* The compare-exchange loop of bulkhead.rs is linearizable to SlotPool: a *)
(* rejection takes effect at the access that saw the bulkhead full, a      *)
(* grant at the compare-exchange that succeeds.                            *)
(***************************************************************************)
EXTENDS Bulkhead

Status(t) ==
  CASE pc[t] = "reserving" -> IF Full(current[t]) THEN "refused" ELSE "asking"
    [] pc[t] = "held" -> "granted"
    [] OTHER -> "idle"

Pool == INSTANCE SlotPool WITH status <- [t \in Threads |-> Status(t)]

\* Whatever the interleaving of loads, compare-exchanges and releases, callers see
\* an atomic pool: no grant beyond Capacity, and no rejection unless at some
\* instant of the call every slot was taken.
ImplementsPool == Pool!Spec
=============================================================================
