--------------------------- MODULE BulkheadProofs ---------------------------
(***************************************************************************)
(* Proofs about Bulkhead for any number of threads and any capacity.       *)
(***************************************************************************)
EXTENDS BulkheadRefinement, FiniteSetTheorems, TLAPS

LEMMA HoldersFinite == IsFiniteSet(Holders)
<1>1. Holders \subseteq Threads
  BY DEF Holders
<1> QED BY <1>1, FS_Subset, BulkheadAssumption

\* How the number of holders moves when one thread changes place.
LEMMA HoldersMove ==
  ASSUME pc \in [Threads -> Places], NEW t \in Threads, NEW place \in Places,
         Goto(t, place)
  PROVE  /\ pc' \in [Threads -> Places]
         /\ Cardinality(Holders) \in Nat
         /\ pc[t] = "held" /\ place # "held" =>
              /\ Cardinality(Holders) > 0
              /\ Cardinality(Holders') = Cardinality(Holders) - 1
         /\ pc[t] # "held" /\ place = "held" =>
              Cardinality(Holders') = Cardinality(Holders) + 1
         /\ pc[t] # "held" /\ place # "held" => Holders' = Holders
<1>1. pc' \in [Threads -> Places] /\ Cardinality(Holders) \in Nat
  BY HoldersFinite, FS_CardinalityType DEF Goto
<1>2. ASSUME pc[t] = "held", place # "held"
      PROVE  /\ Cardinality(Holders) > 0
             /\ Cardinality(Holders') = Cardinality(Holders) - 1
  <2>1. t \in Holders /\ Holders' = Holders \ {t}
    BY <1>2 DEF Holders, Goto
  <2>2. Cardinality(Holders) # 0
    BY <2>1, HoldersFinite, FS_EmptySet
  <2>3. Cardinality(Holders') = Cardinality(Holders) - 1
    BY <2>1, HoldersFinite, FS_RemoveElement
  <2> QED BY <1>1, <2>2, <2>3
<1>3. ASSUME pc[t] # "held", place = "held"
      PROVE  Cardinality(Holders') = Cardinality(Holders) + 1
  <2>1. t \notin Holders /\ Holders' = Holders \cup {t}
    BY <1>3 DEF Holders, Goto
  <2> QED BY <2>1, HoldersFinite, FS_AddElement
<1>4. pc[t] # "held" /\ place # "held" => Holders' = Holders
  BY DEF Holders, Goto
<1> QED BY <1>1, <1>2, <1>3, <1>4

-----------------------------------------------------------------------------
(* The two invariants carry each other: fetch_sub does not wrap because the   *)
(* releaser is counted, and the count is exact because nothing wraps.         *)

Inv == TypeOK /\ SlotAccounting

LEMMA InvInit == Init => Inv
<1> SUFFICES ASSUME Init PROVE Inv
  OBVIOUS
<1>1. Holders = {}
  BY DEF Init, Holders
<1> QED BY <1>1, FS_EmptySet, BulkheadAssumption
        DEF Init, Inv, TypeOK, SlotAccounting, Places

LEMMA InvStep == Inv /\ [Next]_vars => Inv'
<1> SUFFICES ASSUME Inv, [Next]_vars PROVE Inv'
  OBVIOUS
<1>0. /\ in_flight \in 0 .. Capacity /\ Capacity \in Nat
      /\ pc \in [Threads -> Places] /\ current \in [Threads -> 0 .. Capacity]
      /\ in_flight = Cardinality(Holders)
  BY BulkheadAssumption DEF Inv, TypeOK, SlotAccounting
<1>1. ASSUME NEW t \in Threads, NEW place \in Places, Goto(t, place),
             pc[t] # "held", place # "held", in_flight' = in_flight,
             current' \in [Threads -> 0 .. Capacity]
      PROVE  Inv'
  BY <1>0, <1>1, HoldersMove DEF Inv, TypeOK, SlotAccounting
<1>2. ASSUME NEW t \in Threads, NEW place \in Places, Goto(t, place),
             pc[t] = "held", place # "held", FetchSub, current' = current
      PROVE  Inv'
  <2>1. Cardinality(Holders) > 0 /\ Cardinality(Holders') = Cardinality(Holders) - 1
        /\ pc' \in [Threads -> Places]
    BY <1>0, <1>2, HoldersMove
  <2>2. in_flight' = in_flight - 1
    BY <1>0, <1>2, <2>1 DEF FetchSub
  <2> QED BY <1>0, <1>2, <2>1, <2>2 DEF Inv, TypeOK, SlotAccounting
<1>3. ASSUME NEW t \in Threads, Load(t) PROVE Inv'
  BY <1>0, <1>1, <1>3 DEF Load, Places
<1>4. ASSUME NEW t \in Threads, Reject(t) PROVE Inv'
  BY <1>0, <1>1, <1>4 DEF Reject, Places
<1>5. ASSUME NEW t \in Threads, Reserve(t) PROVE Inv'
  <2>1. in_flight' = in_flight + 1 /\ in_flight + 1 \in 0 .. Capacity
    BY <1>0, <1>5 DEF Reserve, Full
  <2>2. Cardinality(Holders') = Cardinality(Holders) + 1 /\ pc' \in [Threads -> Places]
    BY <1>0, <1>5, HoldersMove DEF Reserve, Places
  <2> QED BY <1>0, <1>5, <2>1, <2>2 DEF Inv, TypeOK, SlotAccounting, Reserve
<1>6. ASSUME NEW t \in Threads, Observe(t) PROVE Inv'
  BY <1>0, <1>6 DEF Observe, Inv, TypeOK, SlotAccounting, Holders
<1>7. ASSUME NEW t \in Threads, Release(t) PROVE Inv'
  BY <1>2, <1>7 DEF Release, Places
<1>8. ASSUME NEW t \in Threads, Drop(t) PROVE Inv'
  BY <1>0, <1>1, <1>2, <1>8 DEF Drop, Places
<1>9. CASE UNCHANGED vars
  BY <1>0, <1>9 DEF vars, Inv, TypeOK, SlotAccounting, Holders
<1> QED BY <1>3, <1>4, <1>5, <1>6, <1>7, <1>8, <1>9 DEF Next

LEMMA InvHolds == Spec => []Inv
BY InvInit, InvStep, PTL DEF Spec

\* in_flight stays within 0 .. Capacity, so no more than Capacity are admitted and
\* no release wraps it.
THEOREM NeverBeyondCapacity == Spec => []TypeOK
<1>1. Inv => TypeOK
  BY DEF Inv
<1> QED BY <1>1, InvHolds, PTL

\* Each permit accounts for exactly one slot.
THEOREM SlotsAccounted == Spec => []SlotAccounting
<1>1. Inv => SlotAccounting
  BY DEF Inv
<1> QED BY <1>1, InvHolds, PTL

-----------------------------------------------------------------------------
(* The refinement. *)

status == [t \in Threads |-> Status(t)]

LEMMA SameCardinality ==
  ASSUME NEW S
  PROVE  Pool!Cardinality(S) = Cardinality(S)
BY Zenon DEF Pool!Cardinality, Cardinality

LEMMA TakenIsInFlight ==
  ASSUME Inv
  PROVE  Pool!Taken = in_flight
<1>1. Holders = {t \in Threads : [u \in Threads |-> Status(u)][t] = "granted"}
  BY DEF Holders, Status
<1> QED BY <1>1, SameCardinality DEF Pool!Taken, Inv, SlotAccounting

\* A step of one thread moves that thread's status and no other.
LEMMA OneStatusMoves ==
  ASSUME NEW t \in Threads, NEW to,
         pc \in [Threads -> Places], current \in [Threads -> 0 .. Capacity],
         \A u \in Threads \ {t} : pc'[u] = pc[u] /\ current'[u] = current[u],
         Status(t)' = to
  PROVE  /\ status' = [status EXCEPT ![t] = to]
         /\ status[t] = to => status' = status
<1>1. \A u \in Threads \ {t} : Status(u)' = Status(u)
  BY DEF Status, Full
<1>2. /\ status' = [u \in Threads |-> Status(u)']
      /\ status = [u \in Threads |-> Status(u)]
  BY DEF status
<1> QED BY <1>1, <1>2

LEMMA StepRefines == Inv /\ [Next]_vars => [Pool!Next]_status
<1> SUFFICES ASSUME Inv, [Next]_vars PROVE [Pool!Next]_status
  OBVIOUS
<1>0. /\ in_flight \in 0 .. Capacity /\ Capacity \in Nat
      /\ pc \in [Threads -> Places] /\ current \in [Threads -> 0 .. Capacity]
      /\ Pool!Taken = in_flight
      /\ status = [t \in Threads |-> Status(t)]
      /\ \A t \in Threads : status[t] = Status(t)
  BY BulkheadAssumption, TakenIsInFlight DEF Inv, TypeOK, status
<1>1. ASSUME NEW t \in Threads, NEW from, NEW to, status[t] \in from,
             status' = [status EXCEPT ![t] = to]
      PROVE  Pool!Move(t, from, to)
  BY <1>1 DEF Pool!Move, status
<1>2. ASSUME NEW t \in Threads, Load(t) PROVE [Pool!Next]_status
  <2>1. Status(t) = "idle"
    BY <1>2 DEF Load, Status
  <2>2. \A u \in Threads \ {t} : pc'[u] = pc[u] /\ current'[u] = current[u]
    BY <1>0, <1>2 DEF Load, Goto
  <2>3. Status(t)' = IF Full(in_flight) THEN "refused" ELSE "asking"
    BY <1>0, <1>2 DEF Load, Goto, Status, Full
  <2>4. CASE Full(in_flight)
    <3>1. status' = [status EXCEPT ![t] = "refused"]
      BY <1>0, <2>2, <2>3, <2>4, OneStatusMoves
    <3>2. Pool!Refuse(t)
      BY <1>0, <1>1, <2>1, <2>4, <3>1 DEF Pool!Refuse, Full
    <3> QED BY <3>2 DEF Pool!Next
  <2>5. CASE ~Full(in_flight)
    <3>1. status' = [status EXCEPT ![t] = "asking"]
      BY <1>0, <2>2, <2>3, <2>5, OneStatusMoves
    <3>2. Pool!Ask(t)
      BY <1>0, <1>1, <2>1, <3>1 DEF Pool!Ask
    <3> QED BY <3>2 DEF Pool!Next
  <2> QED BY <2>4, <2>5
<1>3. ASSUME NEW t \in Threads, Reject(t) PROVE [Pool!Next]_status
  <2>1. Status(t) = "refused" /\ Status(t)' = "idle"
    BY <1>0, <1>3 DEF Reject, Goto, Status
  <2>2. \A u \in Threads \ {t} : pc'[u] = pc[u] /\ current'[u] = current[u]
    BY <1>0, <1>3 DEF Reject, Goto
  <2>3. Pool!Return(t)
    BY <1>0, <1>1, <2>1, <2>2, OneStatusMoves DEF Pool!Return
  <2> QED BY <2>3 DEF Pool!Next
<1>4. ASSUME NEW t \in Threads, Reserve(t) PROVE [Pool!Next]_status
  <2>1. Status(t) = "asking" /\ Status(t)' = "granted"
    BY <1>0, <1>4 DEF Reserve, Goto, Status
  <2>2. \A u \in Threads \ {t} : pc'[u] = pc[u] /\ current'[u] = current[u]
    BY <1>0, <1>4 DEF Reserve, Goto
  <2>3. Pool!Taken < Capacity
    BY <1>0, <1>4 DEF Reserve, Full
  <2>4. Pool!Grant(t)
    BY <1>0, <1>1, <2>1, <2>2, <2>3, OneStatusMoves DEF Pool!Grant
  <2> QED BY <2>4 DEF Pool!Next
<1>5. ASSUME NEW t \in Threads, Observe(t) PROVE [Pool!Next]_status
  <2>1. Status(t) = "asking"
    BY <1>5 DEF Observe, Status
  <2>2. \A u \in Threads \ {t} : pc'[u] = pc[u] /\ current'[u] = current[u]
    BY <1>0, <1>5 DEF Observe
  <2>3. Status(t)' = IF Full(in_flight) THEN "refused" ELSE "asking"
    BY <1>0, <1>5 DEF Observe, Status, Full
  <2>4. CASE Full(in_flight)
    <3>1. status' = [status EXCEPT ![t] = "refused"]
      BY <1>0, <2>2, <2>3, <2>4, OneStatusMoves
    <3>2. Pool!Refuse(t)
      BY <1>0, <1>1, <2>1, <2>4, <3>1 DEF Pool!Refuse, Full
    <3> QED BY <3>2 DEF Pool!Next
  <2>5. CASE ~Full(in_flight)
    BY <1>0, <2>1, <2>2, <2>3, <2>5, OneStatusMoves
  <2> QED BY <2>4, <2>5
<1>6. ASSUME NEW t \in Threads, Release(t) \/ (pc[t] = "held" /\ Drop(t))
      PROVE  [Pool!Next]_status
  <2>1. Status(t) = "granted" /\ Status(t)' = "idle"
    BY <1>0, <1>6 DEF Release, Drop, Goto, Status
  <2>2. \A u \in Threads \ {t} : pc'[u] = pc[u] /\ current'[u] = current[u]
    BY <1>0, <1>6 DEF Release, Drop, Goto
  <2>3. Pool!Return(t)
    BY <1>0, <1>1, <2>1, <2>2, OneStatusMoves DEF Pool!Return
  <2> QED BY <2>3 DEF Pool!Next
<1>7. ASSUME NEW t \in Threads, pc[t] = "released", Drop(t)
      PROVE  [Pool!Next]_status
  <2>1. Status(t) = "idle" /\ Status(t)' = "idle"
    BY <1>0, <1>7 DEF Drop, Goto, Status
  <2>2. \A u \in Threads \ {t} : pc'[u] = pc[u] /\ current'[u] = current[u]
    BY <1>0, <1>7 DEF Drop, Goto
  <2> QED BY <1>0, <2>1, <2>2, OneStatusMoves
<1>8. CASE UNCHANGED vars
  BY <1>8 DEF vars, status, Status
<1> QED BY <1>2, <1>3, <1>4, <1>5, <1>6, <1>7, <1>8 DEF Next, Drop

\* The compare-exchange loop is linearizable to an atomic pool of Capacity slots.
THEOREM BulkheadImplementsPool == Spec => ImplementsPool
<1>1. Init => Pool!Init
  BY DEF Init, Pool!Init, Status
<1>2. Inv /\ [Next]_vars => [Pool!Next]_status
  BY StepRefines
<1>3. status = [t \in Threads |-> Status(t)]
  BY DEF status
<1> QED BY <1>1, <1>2, <1>3, InvHolds, PTL DEF Spec, ImplementsPool, Pool!Spec, status
=============================================================================
