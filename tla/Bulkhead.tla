------------------------------ MODULE Bulkhead ------------------------------
(***************************************************************************)
(* The lock-free admission of bulkhead.rs.  One shared atomic; a step is   *)
(* one access to it, so a thread's load is stale by the time it compares.  *)
(* A thread holds at most one permit; one with several is several threads. *)
(***************************************************************************)
EXTENDS Integers, FiniteSets

CONSTANTS
  Threads,   \* callers of try_acquire
  Capacity,  \* Bulkhead.capacity, a NonZeroUsize
  UsizeMax   \* the greatest usize

ASSUME BulkheadAssumption ==
  /\ IsFiniteSet(Threads)
  /\ UsizeMax \in Nat
  /\ Capacity \in 1 .. UsizeMax

VARIABLES
  in_flight,  \* the AtomicUsize
  pc,         \* where each thread is in try_acquire, or what it holds
  current     \* try_reserve's local of each thread

vars == <<in_flight, pc, current>>

\* "released" is a permit after release(self), which Drop has still to see.
Places == {"idle", "reserving", "held", "released"}

Init ==
  /\ in_flight = 0
  /\ pc = [t \in Threads |-> "idle"]
  /\ current = [t \in Threads |-> 0]

Goto(t, place) == pc' = [pc EXCEPT ![t] = place]

\* try_reserve's first line.
Load(t) ==
  /\ pc[t] = "idle"
  /\ current' = [current EXCEPT ![t] = in_flight]
  /\ Goto(t, "reserving")
  /\ UNCHANGED in_flight

BadFull(observed) == observed > Capacity  \* one permit too many

Full(observed) == observed >= Capacity

\* Returning BulkheadRejected, on what this thread last saw.
Reject(t) ==
  /\ pc[t] = "reserving"
  /\ Full(current[t])
  /\ Goto(t, "idle")
  /\ UNCHANGED <<in_flight, current>>

BadReserve(t) ==  \* a load and a store where the compare-exchange is
  /\ pc[t] = "reserving"
  /\ ~Full(current[t])
  /\ in_flight' = current[t] + 1
  /\ Goto(t, "held")
  /\ UNCHANGED current

\* compare_exchange_weak succeeds; the thread has its permit.
Reserve(t) ==
  /\ pc[t] = "reserving"
  /\ ~Full(current[t])
  /\ in_flight = current[t]
  /\ in_flight' = current[t] + 1
  /\ Goto(t, "held")
  /\ UNCHANGED current

\* It fails, because another thread moved in_flight or spuriously, and the loop
\* goes on with what it observed.
Observe(t) ==
  /\ pc[t] = "reserving"
  /\ ~Full(current[t])
  /\ current' = [current EXCEPT ![t] = in_flight]
  /\ UNCHANGED <<in_flight, pc>>

\* release_slot: fetch_sub wraps in a release build.
FetchSub == in_flight' = IF in_flight = 0 THEN UsizeMax ELSE in_flight - 1

\* BulkheadPermit::release(self) up to the end of its body.
Release(t) ==
  /\ pc[t] = "held"
  /\ FetchSub
  /\ Goto(t, "released")
  /\ UNCHANGED current

BadDrop(t) ==  \* Drop does not look at the released flag
  /\ pc[t] \in {"held", "released"}
  /\ FetchSub
  /\ Goto(t, "idle")
  /\ UNCHANGED current

BadDropLeaks(t) ==  \* no Drop implementation: only release() returns the slot
  /\ pc[t] \in {"held", "released"}
  /\ Goto(t, "idle")
  /\ UNCHANGED <<in_flight, current>>

\* Drop of the permit: at the end of release(self), of `call', or in unwinding.
Drop(t) ==
  /\ \/ pc[t] = "held" /\ FetchSub
     \/ pc[t] = "released" /\ UNCHANGED in_flight
  /\ Goto(t, "idle")
  /\ UNCHANGED current

Next ==
  \E t \in Threads :
    Load(t) \/ Reject(t) \/ Reserve(t) \/ Observe(t) \/ Release(t) \/ Drop(t)

Spec == Init /\ [][Next]_vars

\* A permit is dropped in the end: its owner returns, unwinds or is cancelled.
FairSpec == Spec /\ \A t \in Threads : WF_vars(Drop(t))

-----------------------------------------------------------------------------
Holders == {t \in Threads : pc[t] = "held"}

\* The atomic and the loads of it never leave 0 .. Capacity: no underflow wraps it.
TypeOK ==
  /\ in_flight \in 0 .. Capacity
  /\ pc \in [Threads -> Places]
  /\ current \in [Threads -> 0 .. Capacity]

\* in_flight is the number of permits held at every instant: a permit takes one
\* slot and returns it exactly once, whether released, dropped or both.
SlotAccounting == in_flight = Cardinality(Holders)

\* A full bulkhead gets a free slot again, over and over, when permits are dropped.
SlotsComeBack == []<>(in_flight < Capacity)
=============================================================================
