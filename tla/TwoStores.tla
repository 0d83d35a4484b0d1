----------------------------- MODULE TwoStores ------------------------------
(***************************************************************************)
(* RouteEligibility::select_with on tables of several RouteTableStores.    *)
(* A decision carries the generation of the table it was derived from and  *)
(* nothing of its store, and every store counts generations from a number  *)
(* of its own, so that the generation test can pass for a foreign table.   *)
(* A table built by hand is a store whose table is never replaced.         *)
(***************************************************************************)
EXTENDS Routing

CONSTANTS
  Stores,
  FirstRoutes, FirstGeneration,  \* of each store's first table
  NextRoutes                     \* what callers pass to a store's replace()

ASSUME StoresAssumption ==
  \A s \in Stores :
    /\ FirstGeneration[s] \in 0 .. U64Max
    /\ TableError(FirstRoutes[s]) = "none"
    /\ \A routes \in NextRoutes[s] \cup {FirstRoutes[s]} : IsRouteList(routes)

VARIABLES
  tables,    \* each store's table
  snapshot,  \* the table the caller selects on, with its store
  decision,  \* the caller's RouteEligibility
  origin,    \* history: what it was derived from, with its store
  choice     \* what select_with returned of the two, or {} before it is called

storesVars == <<tables, snapshot, decision, origin, choice>>

StoresInit ==
  /\ tables = [s \in Stores |-> Table(FirstGeneration[s], FirstRoutes[s])]
  /\ \E s \in Stores : snapshot = [store |-> s, table |-> tables[s]]
  /\ decision = All(snapshot.table) /\ origin = snapshot
  /\ choice = {}

BadReplaceIn(s) ==  \* the new table keeps the generation
  /\ \E routes \in NextRoutes[s] :
       /\ TableError(routes) = "none"
       /\ tables' = [tables EXCEPT ![s] = Table(@.generation, routes)]
  /\ UNCHANGED <<snapshot, decision, origin, choice>>

\* RouteTableStore::replace; a rejected list or an exhausted generation changes nothing.
ReplaceIn(s) ==
  /\ tables[s].generation < U64Max
  /\ \E routes \in NextRoutes[s] :
       /\ TableError(routes) = "none"
       /\ tables' = [tables EXCEPT ![s] = Table(@.generation + 1, routes)]
  /\ UNCHANGED <<snapshot, decision, origin, choice>>

\* RouteTableStore::snapshot
SnapshotOf(s) ==
  /\ snapshot' = [store |-> s, table |-> tables[s]]
  /\ choice' = {}
  /\ UNCHANGED <<tables, decision, origin>>

\* RouteEligibility::from_predicate
Derive ==
  /\ \E accepted \in SUBSET Ids(snapshot.table.routes, DOMAIN snapshot.table.routes) :
       decision' = FromPredicate(snapshot.table, accepted)
  /\ origin' = snapshot
  /\ choice' = {}
  /\ UNCHANGED <<tables, snapshot>>

\* RouteEligibility::select_with
SelectWith ==
  /\ \E id \in SelectWeighted(snapshot.table, decision, {}) : choice' = {id}
  /\ UNCHANGED <<tables, snapshot, decision, origin>>

StoresNext ==
  \/ \E s \in Stores : ReplaceIn(s) \/ SnapshotOf(s)
  \/ Derive \/ SelectWith

StoresSpec == StoresInit /\ [][StoresNext]_storesVars

-----------------------------------------------------------------------------
\* Among the tables of one store the generation test is exact: a decision is refused
\* unless it was derived from this very table, and otherwise select_with answers from
\* it, without a panic, and finds no route only when the decision has none.
OwnDecisionsExact ==
  origin.store = snapshot.store =>
    \A id \in choice :
      IF origin.table # snapshot.table THEN id = "GenerationMismatch"
      ELSE \/ IsRoute(id) /\ id \in decision.eligible
           \/ id = "DrawOutOfRange"
           \/ id = NoRoute /\ decision.eligible = {}

\* A decision of another store may pass the test.  Even then what it selects has weight
\* in the table selected on, which may have disabled it, and was selectable in the
\* table the decision was derived from, which has the same generation.
ForeignChoiceLimited ==
  \A id \in choice :
    IsRoute(id) =>
      /\ origin.table.generation = snapshot.table.generation
      /\ id \in decision.eligible
      /\ id \in Ids(origin.table.routes, Weighted(origin.table.routes))
      /\ LET routes == snapshot.table.routes
         IN \E i \in DOMAIN routes : routes[i].id = id /\ routes[i].weight > 0

\* `expect' in select_weighted_with: an eligible subset of a validated route table
\* cannot overflow its total weight.
SubsetNeverOverflows == Panic \notin choice
=============================================================================
