------------------------------ MODULE SlotPool ------------------------------
(***************************************************************************)
(* A pool of Capacity slots that answers at once: a request is granted or  *)
(* refused in one indivisible step between its start and its return, and   *)
(* it is refused only if in that step every slot is taken.                 *)
(***************************************************************************)
EXTENDS Integers, FiniteSets

CONSTANTS Threads, Capacity

VARIABLE status  \* of each thread

Init == status = [t \in Threads |-> "idle"]

Taken == Cardinality({t \in Threads : status[t] = "granted"})

Move(t, from, to) ==
  status[t] \in from /\ status' = [status EXCEPT ![t] = to]

Ask(t) == Move(t, {"idle"}, "asking")
Grant(t) == Taken < Capacity /\ Move(t, {"idle", "asking"}, "granted")
Refuse(t) == Taken >= Capacity /\ Move(t, {"idle", "asking"}, "refused")
Return(t) == Move(t, {"refused", "granted"}, "idle")

Next == \E t \in Threads : Ask(t) \/ Grant(t) \/ Refuse(t) \/ Return(t)

Spec == Init /\ [][Next]_status
=============================================================================
