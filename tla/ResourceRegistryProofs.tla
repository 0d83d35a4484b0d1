----------------------- MODULE ResourceRegistryProofs -----------------------
(***************************************************************************)
(* One set of resources per registration of a route, the registry          *)
(* implements ResourceMap, and a registration has the capacity of one      *)
(* bulkhead per role, for all routes, threads, capacities and bounds.      *)
(***************************************************************************)
EXTENDS RouteResources, FiniteSetTheorems, TLAPS

\* No ticket is ahead of its route's retirements or of the sets created.
TicketsPast ==
  \A i \in issued : i.epoch <= epoch[i.route] /\ i.resources <= created

\* What is registered was handed out by the call that registered it.
RegisteredIsIssued ==
  \A r \in Routes : routes[r] # None =>
    [route |-> r, epoch |-> epoch[r], resources |-> routes[r]] \in issued

Inv ==
  /\ TypeOK
  /\ TicketsPast
  /\ RegisteredIsIssued
  /\ RegisteredIsShared
  /\ OneSetPerRegistration

USE RegistryAssumption DEF None, Resources, Tickets

LEMMA InitInv == Init => Inv
  BY DEF Init, Inv, TypeOK, TicketsPast, RegisteredIsIssued, RegisteredIsShared,
         OneSetPerRegistration

\* A handle to what is registered is a ticket that was there before.
LEMMA ShareInv ==
  ASSUME Inv, NEW t \in Threads, NEW r \in Routes, pc[t] # "holding",
         routes[r] # None, Return(t, r, routes[r]),
         UNCHANGED <<routes, created, asked, epoch>>
  PROVE  Inv'
  <1>1. issued' = issued
    BY DEF Inv, RegisteredIsIssued, Return
  <1>2. TypeOK'
    BY <1>1 DEF Inv, TypeOK, Return
  <1>3. TicketsPast' /\ RegisteredIsIssued' /\ RegisteredIsShared' /\ OneSetPerRegistration'
    BY <1>1 DEF Inv, TicketsPast, RegisteredIsIssued, RegisteredIsShared, OneSetPerRegistration
  <1> QED  BY <1>2, <1>3 DEF Inv

\* A new set has a number no ticket has, for a registration no ticket has.
LEMMA RegisterInv ==
  ASSUME Inv, NEW t \in Threads, NEW r \in Routes, pc[t] # "holding",
         routes[r] = None, created < MaxResources, created' = created + 1,
         routes' = [routes EXCEPT ![r] = created'], Return(t, r, created'),
         UNCHANGED <<asked, epoch>>
  PROVE  Inv'
  <1> DEFINE ticket == [route |-> r, epoch |-> epoch[r], resources |-> created + 1]
  <1>1. issued' = issued \cup {ticket}
    BY DEF Return
  <1>2. ticket \in Tickets
    BY DEF Inv, TypeOK
  <1>3. TypeOK'
    BY <1>1, <1>2 DEF Inv, TypeOK, Return
  <1>4. \A i \in issued : i.resources # ticket.resources
    BY DEF Inv, TypeOK, TicketsPast
  <1>5. \A i \in issued : ~(i.route = r /\ i.epoch = epoch[r])
    BY DEF Inv, TypeOK, RegisteredIsShared
  <1>6. TicketsPast'
    BY <1>1, <1>2 DEF Inv, TypeOK, TicketsPast
  <1>7. RegisteredIsIssued'
    BY <1>1 DEF Inv, TypeOK, RegisteredIsIssued
  <1>8. RegisteredIsShared'
    BY <1>1, <1>5 DEF Inv, TypeOK, RegisteredIsShared
  <1>9. OneSetPerRegistration'
    BY <1>1, <1>4, <1>5 DEF Inv, OneSetPerRegistration
  <1> QED  BY <1>3, <1>6, <1>7, <1>8, <1>9 DEF Inv

\* A retirement starts an epoch no ticket is in.
LEMMA RetireInv ==
  ASSUME Inv, NEW t \in Threads, NEW r \in Routes, Retire(t, r)
  PROVE  Inv'
  <1>1. TypeOK'
    BY DEF Inv, TypeOK, Retire
  <1>2. TicketsPast'
    BY DEF Inv, TypeOK, TicketsPast, Retire
  <1>3. RegisteredIsIssued'
    BY DEF Inv, TypeOK, RegisteredIsIssued, Retire
  <1>4. RegisteredIsShared'
    BY DEF Inv, TypeOK, TicketsPast, RegisteredIsShared, Retire
  <1>5. OneSetPerRegistration'
    BY DEF Inv, OneSetPerRegistration, Retire
  <1> QED  BY <1>1, <1>2, <1>3, <1>4, <1>5 DEF Inv

LEMMA NextInv == Inv /\ [Next]_vars => Inv'
  <1> SUFFICES ASSUME Inv, [Next]_vars PROVE Inv'
    OBVIOUS
  <1> USE DEF Inv, TicketsPast, RegisteredIsIssued, RegisteredIsShared, OneSetPerRegistration
  <1>1. ASSUME NEW t \in Threads, NEW r \in Routes, Get(t, r)
        PROVE  Inv'
    <2>1. pc[t] # "holding" /\ routes[r] # None /\ Return(t, r, routes[r])
      BY <1>1 DEF Get
    <2>2. UNCHANGED <<routes, created, asked, epoch>>
      BY <1>1 DEF Get
    <2> QED  BY <2>1, <2>2, ShareInv
  <1>2. ASSUME NEW t \in Threads, NEW r \in Routes, Miss(t, r)
        PROVE  Inv'
    BY <1>2 DEF Miss, TypeOK
  <1>3. ASSUME NEW t \in Threads, Insert(t)
        PROVE  Inv'
    <2>1. asked[t] \in Routes /\ pc[t] # "holding"
      BY <1>3 DEF Insert, TypeOK
    <2>2. CASE routes[asked[t]] # None
      BY <1>3, <2>1, <2>2, ShareInv DEF Insert
    <2>3. CASE routes[asked[t]] = None
      BY <1>3, <2>1, <2>3, RegisterInv DEF Insert
    <2> QED  BY <2>2, <2>3
  <1>4. ASSUME NEW t \in Threads, NEW r \in Routes, Retire(t, r)
        PROVE  Inv'
    BY <1>4, RetireInv
  <1>5. ASSUME NEW t \in Threads, Release(t)
        PROVE  Inv'
    BY <1>5 DEF Release, TypeOK
  <1>6. CASE UNCHANGED vars
    BY <1>6 DEF vars, TypeOK
  <1> QED  BY <1>1, <1>2, <1>3, <1>4, <1>5, <1>6 DEF Next

THEOREM Invariance == Spec => []Inv
  BY InitInv, NextInv, PTL DEF Spec

\* Types, and that exactly the holders have a handle.
THEOREM TypeCorrect == Spec => []TypeOK
  BY Invariance, PTL DEF Inv

\* Concurrent first lookups converge on one set, and a retired set never comes back.
THEOREM OneSet == Spec => []OneSetPerRegistration
  BY Invariance, PTL DEF Inv

\* Whoever was answered since the last retirement holds what is registered.
THEOREM RegisteredShared == Spec => []RegisteredIsShared
  BY Invariance, PTL DEF Inv

-----------------------------------------------------------------------------
waitingNow == {t \in Threads : pc[t] = "missed"}

LEMMA StepRefines == Inv /\ [Next]_vars => [Map!Next]_(Map!vars)
  <1> SUFFICES ASSUME Inv, [Next]_vars PROVE [Map!Next]_(Map!vars)
    OBVIOUS
  <1> USE DEF Map!Next, Map!vars
  <1>0. TypeOK
    BY DEF Inv
  <1>1. ASSUME NEW t \in Threads, NEW r \in Routes, Get(t, r)
        PROVE  Map!Share(t, r)
    <2>1. handle[t] = None
      BY <1>0, <1>1 DEF TypeOK, Get
    <2>2. waitingNow' = waitingNow \ {t}
      BY <1>0, <1>1 DEF TypeOK, Get, Return, waitingNow
    <2> QED  BY <1>1, <2>1, <2>2 DEF Get, Return, Map!Share, Map!Hand, waitingNow
  <1>2. ASSUME NEW t \in Threads, NEW r \in Routes, Miss(t, r)
        PROVE  Map!Ask(t)
    <2>1. handle[t] = None
      BY <1>0, <1>2 DEF TypeOK, Miss
    <2>2. waitingNow' = waitingNow \cup {t}
      BY <1>0, <1>2 DEF TypeOK, Miss, waitingNow
    <2> QED  BY <1>2, <2>1, <2>2 DEF Miss, Map!Ask, waitingNow
  <1>3. ASSUME NEW t \in Threads, Insert(t)
        PROVE  Map!Share(t, asked[t]) \/ Map!Register(t, asked[t])
    <2>1. handle[t] = None /\ t \in waitingNow
      BY <1>0, <1>3 DEF TypeOK, Insert, waitingNow
    <2>2. waitingNow' = waitingNow \ {t}
      BY <1>0, <1>3 DEF TypeOK, Insert, Return, waitingNow
    <2> QED  BY <1>3, <2>1, <2>2
             DEF Insert, Return, Map!Share, Map!Register, Map!Hand, waitingNow
  <1>4. ASSUME NEW t \in Threads, NEW r \in Routes, Retire(t, r)
        PROVE  Map!Unregister(r)
    BY <1>4 DEF Retire, Map!Unregister
  <1>5. ASSUME NEW t \in Threads, Release(t)
        PROVE  Map!Drop(t)
    <2>1. handle[t] # None
      BY <1>0, <1>5 DEF TypeOK, Release
    <2>2. waitingNow' = waitingNow
      BY <1>0, <1>5 DEF TypeOK, Release, waitingNow
    <2> QED  BY <1>5, <2>1, <2>2 DEF Release, Map!Drop, waitingNow
  <1>6. \A t \in Threads : asked[t] \in Routes
    BY <1>0 DEF TypeOK
  <1>7. CASE UNCHANGED vars
    BY <1>7 DEF vars
  <1> QED  BY <1>1, <1>2, <1>3, <1>4, <1>5, <1>6, <1>7 DEF Next

\* Double-checked creation is one atomic lookup or insertion.
THEOREM RegistryImplementsMap == Spec => ImplementsMap
  <1>1. Init => Map!Init
    BY DEF Init, Map!Init
  <1> QED  BY <1>1, StepRefines, Invariance, PTL DEF Spec, ImplementsMap, Map!Spec
-----------------------------------------------------------------------------
(* The registry with its bulkheads.                                        *)

Holders(s, role) == {t \in Threads : permits[t][role] = s}

Slots(role) == RouteResourcePolicy[role].bulkhead_capacity

RTypeOK ==
  /\ in_flight \in [Resources -> [Roles -> Nat]]
  /\ permits \in [Threads -> [Roles -> Resources \cup {None}]]

\* Each counter is the number of permits that are out of its bulkhead.
Accounted ==
  \A s \in Resources, role \in Roles :
    /\ IsFiniteSet(Holders(s, role)) /\ Cardinality(Holders(s, role)) = in_flight[s][role]
    /\ in_flight[s][role] <= Slots(role)

\* A refusal is of a full bulkhead.
RefusedFull ==
  \A s \in Resources, role \in Roles :
    <<s, role>> \in refused => in_flight[s][role] = Slots(role)

RInv == Inv /\ RTypeOK /\ Accounted /\ RefusedFull

LEMMA Capacities ==
  ASSUME NEW role \in Roles
  PROVE  Slots(role) \in Nat /\ 0 <= Slots(role)
BY CapacityAssumption DEF Slots, RouteResourcePolicy, Roles

\* A step of the registry leaves bulkheads and permits alone.
LEMMA RegistryStep ==
  ASSUME RInv, [Next]_vars, UNCHANGED <<in_flight, permits>>, refused' = {} \/ UNCHANGED refused
  PROVE  RInv'
<1>1. Inv'
  BY NextInv DEF RInv
<1>2. RTypeOK' /\ Accounted' /\ RefusedFull'
  BY DEF RInv, RTypeOK, Accounted, RefusedFull, Holders
<1> QED BY <1>1, <1>2 DEF RInv

LEMMA AcquireInv ==
  ASSUME RInv, NEW t \in Threads, NEW role \in Roles, Acquire(t, role)
  PROVE  RInv'
<1>1. Inv' /\ handle[t] \in Resources /\ UNCHANGED vars /\ permits[t][role] = None
  <2>1. Inv' /\ UNCHANGED vars
    BY NextInv DEF RInv, Acquire
  <2> QED BY <2>1 DEF RInv, Inv, TypeOK, Acquire
<1>2. PICK s \in Resources : s = handle[t]
  BY <1>1
<1>3. in_flight \in [Resources -> [Roles -> Nat]] /\ Slots(role) \in Nat
      /\ permits \in [Threads -> [Roles -> Resources \cup {None}]]
  BY Capacities DEF RInv, RTypeOK
<1>4. CASE /\ in_flight[s][role] < Slots(role)
           /\ in_flight' = [in_flight EXCEPT ![s][role] = @ + 1]
           /\ permits' = [permits EXCEPT ![t][role] = s]
           /\ refused' = {}
  <2>1. RTypeOK'
    BY <1>3, <1>4 DEF RTypeOK
  <2>2. ASSUME NEW z \in Resources, NEW other \in Roles
        PROVE  /\ IsFiniteSet(Holders(z, other)') /\ Cardinality(Holders(z, other)') = in_flight'[z][other]
               /\ in_flight'[z][other] <= Slots(other)
    <3>1. /\ IsFiniteSet(Holders(z, other)) /\ Cardinality(Holders(z, other)) = in_flight[z][other]
          /\ in_flight[z][other] <= Slots(other)
      BY DEF RInv, Accounted
    <3>2. CASE z = s /\ other = role
      <4>1. PICK A : A = Holders(s, role)
        OBVIOUS
      <4>2. t \notin A /\ Holders(s, role)' = A \cup {t}
        BY <1>1, <1>3, <1>4, <4>1 DEF Holders
      <4>3. IsFiniteSet(A \cup {t}) /\ Cardinality(A \cup {t}) = Cardinality(A) + 1
        BY <3>1, <3>2, <4>1, <4>2, FS_AddElement
      <4>4. in_flight'[s][role] = in_flight[s][role] + 1 /\ in_flight[s][role] \in Nat
        BY <1>3, <1>4
      <4>5. in_flight[s][role] + 1 <= Slots(role)
        BY <1>3, <1>4, <4>4
      <4> QED BY <3>1, <3>2, <4>1, <4>2, <4>3, <4>4, <4>5
    <3>3. CASE ~(z = s /\ other = role)
      <4>1. Holders(z, other)' = Holders(z, other)
        BY <1>1, <1>3, <1>4, <3>3 DEF Holders
      <4>2. in_flight'[z][other] = in_flight[z][other]
        BY <1>3, <1>4, <3>3
      <4> QED BY <3>1, <4>1, <4>2
    <3> QED BY <3>2, <3>3
  <2>3. Accounted'
    BY <2>2 DEF Accounted
  <2>4. RefusedFull'
    BY <1>4 DEF RefusedFull
  <2> QED BY <1>1, <2>1, <2>3, <2>4 DEF RInv
<1>5. CASE /\ in_flight[s][role] >= Slots(role) /\ refused' = {<<s, role>>}
           /\ UNCHANGED <<in_flight, permits>>
  <2>1. RTypeOK' /\ Accounted'
    BY <1>5 DEF RInv, RTypeOK, Accounted, Holders
  <2>2. in_flight[s][role] = Slots(role)
    <3>1. in_flight[s][role] \in Nat /\ in_flight[s][role] <= Slots(role)
      BY <1>3 DEF RInv, Accounted
    <3> QED BY <1>3, <1>5, <3>1
  <2>3. RefusedFull'
    BY <1>5, <2>2 DEF RefusedFull
  <2> QED BY <1>1, <2>1, <2>3 DEF RInv
<1> QED BY <1>2, <1>4, <1>5 DEF Acquire, Bulkhead, Slots

LEMMA FinishInv ==
  ASSUME RInv, NEW t \in Threads, NEW role \in Roles, Finish(t, role)
  PROVE  RInv'
<1>1. Inv'
  BY NextInv DEF RInv, Finish
<1>2. in_flight \in [Resources -> [Roles -> Nat]]
      /\ permits \in [Threads -> [Roles -> Resources \cup {None}]]
  BY DEF RInv, RTypeOK
<1>3. PICK s \in Resources : s = permits[t][role]
  BY <1>2 DEF Finish
<1>4. /\ in_flight' = [in_flight EXCEPT ![s][role] = @ - 1]
      /\ permits' = [permits EXCEPT ![t][role] = None] /\ refused' = {}
  BY <1>3 DEF Finish
<1>5. PICK A : A = Holders(s, role)
  OBVIOUS
<1>6. t \in A /\ IsFiniteSet(A) /\ Cardinality(A) = in_flight[s][role]
  BY <1>3, <1>5 DEF Holders, RInv, Accounted
<1>7. /\ IsFiniteSet(A \ {t}) /\ Cardinality(A \ {t}) = Cardinality(A) - 1
      /\ Cardinality(A \ {t}) \in Nat
  <2>1. IsFiniteSet(A \ {t}) /\ Cardinality(A \ {t}) = Cardinality(A) - 1
    BY <1>6, FS_RemoveElement
  <2> QED BY <2>1, FS_CardinalityType
<1>8. in_flight[s][role] - 1 \in Nat
  BY <1>6, <1>7
<1>9. RTypeOK'
  BY <1>2, <1>4, <1>8 DEF RTypeOK
<1>10. ASSUME NEW z \in Resources, NEW other \in Roles
       PROVE  /\ IsFiniteSet(Holders(z, other)') /\ Cardinality(Holders(z, other)') = in_flight'[z][other]
              /\ in_flight'[z][other] <= Slots(other)
  <2>1. /\ IsFiniteSet(Holders(z, other)) /\ Cardinality(Holders(z, other)) = in_flight[z][other]
        /\ in_flight[z][other] <= Slots(other) /\ Slots(other) \in Nat
    BY Capacities DEF RInv, Accounted
  <2>2. CASE z = s /\ other = role
    <3>1. Holders(s, role)' = A \ {t}
      BY <1>2, <1>4, <1>5 DEF Holders
    <3>2. in_flight'[s][role] = in_flight[s][role] - 1 /\ in_flight[s][role] \in Nat
      BY <1>2, <1>4
    <3>3. in_flight'[s][role] <= Slots(role)
      BY <2>1, <2>2, <3>2
    <3> QED BY <1>6, <1>7, <2>2, <3>1, <3>2, <3>3
  <2>3. CASE ~(z = s /\ other = role)
    <3>1. Holders(z, other)' = Holders(z, other)
      BY <1>2, <1>3, <1>4, <2>3 DEF Holders
    <3>2. in_flight'[z][other] = in_flight[z][other]
      BY <1>2, <1>4, <2>3
    <3> QED BY <2>1, <3>1, <3>2
  <2> QED BY <2>2, <2>3
<1>11. Accounted'
  BY <1>10 DEF Accounted
<1>12. RefusedFull'
  BY <1>4 DEF RefusedFull
<1> QED BY <1>1, <1>9, <1>11, <1>12 DEF RInv

LEMMA RInitInv == RInit => RInv
<1> SUFFICES ASSUME RInit PROVE RInv
  OBVIOUS
<1>1. Inv
  BY InitInv DEF RInit
<1>2. RTypeOK /\ RefusedFull
  BY DEF RInit, RTypeOK, RefusedFull, Fresh
<1>3. ASSUME NEW s \in Resources, NEW role \in Roles
      PROVE  /\ IsFiniteSet(Holders(s, role)) /\ Cardinality(Holders(s, role)) = in_flight[s][role]
             /\ in_flight[s][role] <= Slots(role)
  <2>1. Holders(s, role) = {} /\ in_flight[s][role] = 0
    BY DEF RInit, Holders, Fresh
  <2> QED BY <2>1, FS_EmptySet, Capacities
<1> QED BY <1>1, <1>2, <1>3 DEF RInv, Accounted

LEMMA RNextInv == RInv /\ [RNext]_allVars => RInv'
<1> SUFFICES ASSUME RInv, [RNext]_allVars PROVE RInv'
  OBVIOUS
<1>1. CASE UNCHANGED allVars
  <2>1. UNCHANGED vars /\ UNCHANGED <<in_flight, permits>> /\ UNCHANGED refused
    BY <1>1 DEF allVars, vars
  <2> QED BY <2>1, RegistryStep
<1>2. CASE Next /\ refused' = {} /\ UNCHANGED <<in_flight, permits>>
  BY <1>2, RegistryStep
<1>3. CASE \E t \in Threads, role \in Roles : Acquire(t, role) \/ Finish(t, role)
  BY <1>3, AcquireInv, FinishInv
<1> QED BY <1>1, <1>2, <1>3 DEF RNext

\* Between two retirements, a route's handles share one bulkhead per role: no more of its
\* permits are out than that one admits, and a refusal found exactly that many out.
THEOREM RegistrationCapacity == RSpec => []CapacityPerRegistration
<1>1. RInv => CapacityPerRegistration
  <2> SUFFICES ASSUME RInv, NEW i \in issued, NEW role \in Roles
               PROVE  LET siblings == {j.resources : j \in {k \in issued : k.route = i.route
                                                                  /\ k.epoch = i.epoch}}
                          out == Cardinality({t \in Threads : permits[t][role] \in siblings})
                      IN /\ out <= RouteResourcePolicy[role].bulkhead_capacity
                         /\ <<i.resources, role>> \in refused =>
                              out = RouteResourcePolicy[role].bulkhead_capacity
    BY DEF CapacityPerRegistration
  <2>1. i.resources \in Resources
    BY DEF RInv, Inv, TypeOK
  <2>2. {j.resources : j \in {k \in issued : k.route = i.route /\ k.epoch = i.epoch}}
          = {i.resources}
    BY DEF RInv, Inv, OneSetPerRegistration
  <2>3. {t \in Threads : permits[t][role] \in {i.resources}} = Holders(i.resources, role)
    BY DEF Holders
  <2>4. /\ Cardinality(Holders(i.resources, role)) <= Slots(role)
        /\ <<i.resources, role>> \in refused =>
             Cardinality(Holders(i.resources, role)) = Slots(role)
    BY <2>1 DEF RInv, Accounted, RefusedFull
  <2> QED BY <2>2, <2>3, <2>4 DEF Slots
<1> QED BY <1>1, RInitInv, RNextInv, PTL DEF RSpec

-----------------------------------------------------------------------------
(* Each bulkhead of each set, seen through its permits.                    *)

PoolOf(s, role) ==
  INSTANCE SlotPool WITH
    Capacity <- Slots(role),
    status <- [t \in Threads |-> IF permits[t][role] = s THEN "granted" ELSE "idle"]

LEMMA PoolTaken ==
  ASSUME RInv, NEW s \in Resources, NEW role \in Roles
  PROVE  PoolOf(s, role)!Taken = in_flight[s][role]
<1>1. {t \in Threads : [u \in Threads |-> IF permits[u][role] = s THEN "granted" ELSE "idle"][t]
                          = "granted"} = Holders(s, role)
  BY DEF Holders
<1>2. \A S : PoolOf(s, role)!Cardinality(S) = Cardinality(S)
  BY Zenon DEF PoolOf!Cardinality, Cardinality
<1>3. PoolOf(s, role)!Taken = Cardinality(Holders(s, role))
  BY <1>1, <1>2 DEF PoolOf!Taken
<1> QED BY <1>3 DEF RInv, Accounted

LEMMA PoolStep ==
  ASSUME RInv, [RNext]_allVars, NEW s \in Resources, NEW role \in Roles
  PROVE  LET status == [t \in Threads |-> IF permits[t][role] = s THEN "granted" ELSE "idle"]
         IN PoolOf(s, role)!Next \/ UNCHANGED status
<1> DEFINE status == [t \in Threads |-> IF permits[t][role] = s THEN "granted" ELSE "idle"]
<1>1. permits \in [Threads -> [Roles -> Resources \cup {None}]]
  BY DEF RInv, RTypeOK
<1>2. CASE UNCHANGED permits
  BY <1>2
<1>3. ASSUME NEW t \in Threads, Acquire(t, role), permits' # permits, handle[t] = s
      PROVE  PoolOf(s, role)!Grant(t)
  <2>1. /\ in_flight[s][role] < Slots(role) /\ permits[t][role] = None
        /\ permits' = [permits EXCEPT ![t][role] = s]
    BY <1>3 DEF Acquire, Bulkhead, Slots
  <2>2. PoolOf(s, role)!Taken < Slots(role)
    BY <2>1, PoolTaken
  <2>3. \A u \in Threads : permits'[u][role] = IF u = t THEN s ELSE permits[u][role]
    BY <1>1, <2>1
  <2>4. status[t] = "idle"
    BY <2>1
  <2>5. status' = [status EXCEPT ![t] = "granted"]
    BY <2>3, Zenon
  <2> QED BY <2>2, <2>4, <2>5 DEF PoolOf!Grant, PoolOf!Move
<1>4. ASSUME NEW t \in Threads, Finish(t, role), permits[t][role] = s
      PROVE  PoolOf(s, role)!Return(t)
  <2>1. permits' = [permits EXCEPT ![t][role] = None]
    BY <1>4 DEF Finish
  <2>2. \A u \in Threads : permits'[u][role] = IF u = t THEN None ELSE permits[u][role]
    BY <1>1, <2>1
  <2>3. status[t] = "granted"
    BY <1>4
  <2>4. s # None
    OBVIOUS
  <2>5. status' = [status EXCEPT ![t] = "idle"]
    BY <2>2, <2>4, Zenon
  <2> QED BY <2>3, <2>5 DEF PoolOf!Return, PoolOf!Move
<1>5. ASSUME NEW t \in Threads, NEW other \in Roles, Acquire(t, other), permits' # permits,
             ~(other = role /\ handle[t] = s)
      PROVE  UNCHANGED status
  <2>1. permits[t][other] = None /\ permits' = [permits EXCEPT ![t][other] = handle[t]]
    BY <1>5 DEF Acquire
  <2> QED BY <1>1, <1>5, <2>1
<1>6. ASSUME NEW t \in Threads, NEW other \in Roles, Finish(t, other),
             ~(other = role /\ permits[t][role] = s)
      PROVE  UNCHANGED status
  <2>1. permits[t][other] # None /\ permits' = [permits EXCEPT ![t][other] = None]
    BY <1>6 DEF Finish
  <2> QED BY <1>1, <1>6, <2>1
<1>7. \/ UNCHANGED permits
      \/ \E t \in Threads, other \in Roles : Acquire(t, other) \/ Finish(t, other)
  BY DEF RNext, allVars
<1> QED BY <1>2, <1>3, <1>4, <1>5, <1>6, <1>7 DEF PoolOf!Next

\* Whatever happens to handles and routes, the permits of one bulkhead of one set are an
\* atomic pool of its capacity: no other role, set, retirement or successor takes or
\* returns a slot of it.
THEOREM EachBulkheadIsAPool ==
  ASSUME NEW s \in Resources, NEW role \in Roles
  PROVE  RSpec => PoolOf(s, role)!Spec
<1>1. RInit => PoolOf(s, role)!Init
  BY DEF RInit, PoolOf!Init
<1>2. RInv /\ [RNext]_allVars =>
        PoolOf(s, role)!Next
        \/ UNCHANGED [t \in Threads |-> IF permits[t][role] = s THEN "granted" ELSE "idle"]
  BY PoolStep
<1> QED BY <1>1, <1>2, RInitInv, RNextInv, PTL DEF RSpec, PoolOf!Spec

-----------------------------------------------------------------------------
(* The abstract map itself, of any state.                                  *)

VARIABLES anyRegistered, anyMade, anyWaiting, anyHeld

AnyMap ==
  INSTANCE ResourceMap WITH
    registered <- anyRegistered, made <- anyMade, waiting <- anyWaiting, held <- anyHeld

MapInv ==
  /\ anyRegistered \in [Routes -> Nat] /\ anyHeld \in [Threads -> Nat] /\ anyMade \in Nat
  /\ AnyMap!SetsApart

LEMMA AnyMapStep == MapInv /\ [AnyMap!Next]_(AnyMap!vars) => MapInv'
<1> SUFFICES ASSUME MapInv, [AnyMap!Next]_(AnyMap!vars) PROVE MapInv'
  OBVIOUS
<1> USE DEF MapInv, AnyMap!SetsApart
<1>1. CASE UNCHANGED AnyMap!vars
  BY <1>1 DEF AnyMap!vars
<1>2. ASSUME NEW t \in Threads, AnyMap!Ask(t) \/ AnyMap!Drop(t) PROVE MapInv'
  BY <1>2 DEF AnyMap!Ask, AnyMap!Drop
<1>3. ASSUME NEW t \in Threads, NEW r \in Routes, AnyMap!Share(t, r) PROVE MapInv'
  BY <1>3 DEF AnyMap!Share, AnyMap!Hand
<1>4. ASSUME NEW t \in Threads, NEW r \in Routes, AnyMap!Register(t, r) PROVE MapInv'
  <2>1. /\ anyMade' = anyMade + 1 /\ anyRegistered' = [anyRegistered EXCEPT ![r] = anyMade + 1]
        /\ anyHeld' = [anyHeld EXCEPT ![t] = anyMade + 1]
    BY <1>4 DEF AnyMap!Register, AnyMap!Hand
  <2> QED BY <2>1
<1>5. ASSUME NEW r \in Routes, AnyMap!Unregister(r) PROVE MapInv'
  BY <1>5 DEF AnyMap!Unregister
<1> QED BY <1>1, <1>2, <1>3, <1>4, <1>5 DEF AnyMap!Next

\* What implements the map never has two routes in one set, nor hands out a set that was
\* not made.
THEOREM MapKeepsApart == AnyMap!Spec => []AnyMap!SetsApart
<1>1. AnyMap!Init => MapInv
  BY DEF AnyMap!Init, MapInv, AnyMap!SetsApart
<1>2. MapInv => AnyMap!SetsApart
  BY DEF MapInv
<1>3. MapInv /\ [AnyMap!Next]_(AnyMap!vars) => MapInv'
  BY AnyMapStep
<1> QED BY <1>1, <1>2, <1>3, PTL DEF AnyMap!Spec
=============================================================================
