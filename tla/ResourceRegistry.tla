-------------------------- MODULE ResourceRegistry --------------------------
(***************************************************************************)
(* RouteResourceRegistry of resource_registry.rs: get_or_create() looks    *)
(* under the read lock and, after a miss, looks again and inserts under    *)
(* the write lock; the lock is free in between.  A set of resources (the   *)
(* breakers, bulkheads and retry budgets of a route) is a number.          *)
(***************************************************************************)
EXTENDS Integers, FiniteSets

CONSTANTS
  Routes, Threads,
  MaxResources  \* bound: sets created in a behaviour

ASSUME RegistryAssumption == MaxResources \in Nat

None == 0
Resources == 1 .. MaxResources

VARIABLES
  routes,   \* the map behind the RwLock
  created,  \* sets created so far
  pc,       \* of each thread: "idle", "missed" between the locks, "holding"
  asked,    \* the route a thread is creating
  handle,   \* the Arc a thread holds
  epoch,    \* history: how often each route was retired
  issued    \* history: route, epoch and set of every handle returned

vars == <<routes, created, pc, asked, handle, epoch, issued>>

Init ==
  /\ routes = [r \in Routes |-> None]
  /\ created = 0
  /\ pc = [t \in Threads |-> "idle"]
  /\ asked \in [Threads -> Routes]
  /\ handle = [t \in Threads |-> None]
  /\ epoch = [r \in Routes |-> 0]
  /\ issued = {}

Return(t, r, resources) ==
  /\ pc' = [pc EXCEPT ![t] = "holding"]
  /\ handle' = [handle EXCEPT ![t] = resources]
  /\ issued' = issued \cup {[route |-> r, epoch |-> epoch[r], resources |-> resources]}

\* get(), or get_or_create() that finds the route under the read lock.
Get(t, r) ==
  /\ pc[t] = "idle"
  /\ routes[r] # None
  /\ Return(t, r, routes[r])
  /\ UNCHANGED <<routes, created, asked, epoch>>

\* get_or_create() releases the read lock without the route.
Miss(t, r) ==
  /\ pc[t] = "idle"
  /\ routes[r] = None
  /\ pc' = [pc EXCEPT ![t] = "missed"]
  /\ asked' = [asked EXCEPT ![t] = r]
  /\ UNCHANGED <<routes, created, handle, epoch, issued>>

BadInsert(t) ==  \* no second look
  LET r == asked[t]
  IN /\ pc[t] = "missed"
     /\ created < MaxResources
     /\ created' = created + 1
     /\ routes' = [routes EXCEPT ![r] = created']
     /\ Return(t, r, created')
     /\ UNCHANGED <<asked, epoch>>

\* get_or_create() under the write lock: the entry, or a new set in it.
Insert(t) ==
  LET r == asked[t]
  IN /\ pc[t] = "missed"
     /\ \/ /\ routes[r] # None
           /\ Return(t, r, routes[r])
           /\ UNCHANGED <<routes, created>>
        \/ /\ routes[r] = None
           /\ created < MaxResources
           /\ created' = created + 1
           /\ routes' = [routes EXCEPT ![r] = created']
           /\ Return(t, r, created')
     /\ UNCHANGED <<asked, epoch>>

\* retire(); retiring an absent route changes nothing.
Retire(t, r) ==
  /\ pc[t] # "missed"
  /\ routes[r] # None
  /\ routes' = [routes EXCEPT ![r] = None]
  /\ epoch' = [epoch EXCEPT ![r] = @ + 1]
  /\ UNCHANGED <<created, pc, asked, handle, issued>>

\* The holder drops its Arc.
Release(t) ==
  /\ pc[t] = "holding"
  /\ pc' = [pc EXCEPT ![t] = "idle"]
  /\ handle' = [handle EXCEPT ![t] = None]
  /\ UNCHANGED <<routes, created, asked, epoch, issued>>

Next ==
  \E t \in Threads :
    \/ Insert(t) \/ Release(t)
    \/ \E r \in Routes : Get(t, r) \/ Miss(t, r) \/ Retire(t, r)

Spec == Init /\ [][Next]_vars

-----------------------------------------------------------------------------
Tickets == [route : Routes, epoch : Nat, resources : Resources]

\* The type invariant: exactly the holders of an Arc have a handle.
TypeOK ==
  /\ routes \in [Routes -> Resources \cup {None}]
  /\ created \in 0 .. MaxResources
  /\ pc \in [Threads -> {"idle", "missed", "holding"}]
  /\ asked \in [Threads -> Routes]
  /\ handle \in [Threads -> Resources \cup {None}]
  /\ \A t \in Threads : pc[t] = "holding" <=> handle[t] # None
  /\ epoch \in [Routes -> Nat]
  /\ issued \subseteq Tickets

\* "Concurrent first lookups for the same route converge on one shared resource set",
\* and a retired set never comes back: handles name the same set exactly when they
\* were returned for the same route between the same two retirements.
OneSetPerRegistration ==
  \A i, j \in issued :
    i.resources = j.resources <=> (i.route = j.route /\ i.epoch = j.epoch)

\* What is registered is the newest set of its route: no handle returned since the
\* last retirement names another, so permits of one registration share one bulkhead.
RegisteredIsShared ==
  \A i \in issued :
    i.epoch = epoch[i.route] => routes[i.route] = i.resources
=============================================================================
