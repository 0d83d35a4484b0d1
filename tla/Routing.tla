------------------------------ MODULE Routing ------------------------------
(***************************************************************************)
(* Route tables, eligibility decisions and weighted selection as values:   *)
(* routing.rs, eligibility.rs and the sampling and selection of shadow.rs. *)
(* A draw is any number its caller may supply, one beyond the range        *)
(* included.                                                               *)
(***************************************************************************)
EXTENDS Integers, Sequences, FiniteSets, Functions, FiniteSetsExt

CONSTANTS
  U64Max,   \* the greatest u64
  Million   \* SHADOW_PARTS_PER_MILLION

ASSUME RoutingAssumption == U64Max \in Nat /\ Million \in Nat \ {0}

NoRoute == "no route"
Panic == "panic"
SelectErrors == {"GenerationMismatch", "DrawOutOfRange"}

IsRoute(id) == id \notin SelectErrors \cup {NoRoute, Panic}

\* RouteId::new refuses the empty name; the markers above name no route.
RouteIds == {id \in STRING \ {""} : IsRoute(id)}

\* What the argument of RouteTable::new may be: u64 weights, ids that name routes.
IsRouteList(routes) ==
  routes \in Seq([id : RouteIds, weight : 0 .. U64Max, enabled : BOOLEAN])

Route(id, weight) == [id |-> id, weight |-> weight, enabled |-> TRUE]

Disabled(route) == [route EXCEPT !.enabled = FALSE]

\* The weight of the routes at the positions kept.
Total(routes, kept) == SumFunctionOnSet([i \in DOMAIN routes |-> routes[i].weight], kept)

Weighted(routes) == {i \in DOMAIN routes : routes[i].enabled /\ routes[i].weight > 0}

Ids(routes, kept) == {routes[i].id : i \in kept}

\* RouteTable::new: the first complaint of its loop, or "none".
TableError(routes) ==
  LET Duplicate(i) == \E j \in 1 .. i - 1 : routes[j].id = routes[i].id
      Overflows(i) ==
        i \in Weighted(routes) /\ Total(routes, {j \in Weighted(routes) : j <= i}) > U64Max
      bad == {i \in DOMAIN routes : Duplicate(i) \/ Overflows(i)}
  IN IF routes = <<>> THEN "EmptyRouteTable"
     ELSE IF bad # {}
       THEN IF Duplicate(Min(bad)) THEN "DuplicateRouteId" ELSE "WeightOverflow"
     ELSE IF Weighted(routes) = {} THEN "NoWeightedEligibleRoute"
     ELSE "none"

Table(generation, routes) == [generation |-> generation, routes |-> routes]

BadChosen(routes, kept, draw) ==  \* cursor <= weight
  CHOOSE i \in kept :
    /\ draw <= Total(routes, {j \in kept : j <= i})
    /\ \A k \in kept : k < i => draw > Total(routes, {j \in kept : j <= k})

\* The cursor loop: the first position whose running total exceeds the draw.
Chosen(routes, kept, draw) ==
  CHOOSE i \in kept :
    /\ draw < Total(routes, {j \in kept : j <= i})
    /\ \A k \in kept : k < i => draw >= Total(routes, {j \in kept : j <= k})

\* What a weighted selection among the positions kept may return.
Draws(routes, kept) ==
  LET total == Total(routes, kept)
  IN IF total = 0 THEN {NoRoute}
     ELSE {"DrawOutOfRange"}
            \cup {routes[Chosen(routes, kept, draw)].id : draw \in 0 .. total - 1}

\* RouteTable::select_with
Select(table) == Draws(table.routes, Weighted(table.routes))

BadFromPredicate(table, accepted) ==  \* the predicate alone decides
  [generation |-> table.generation,
   eligible |-> Ids(table.routes, DOMAIN table.routes) \cap accepted]

\* RouteEligibility::from_predicate, for the predicate that accepts these ids.
FromPredicate(table, accepted) ==
  [generation |-> table.generation,
   eligible |-> Ids(table.routes, Weighted(table.routes)) \cap accepted]

All(table) == FromPredicate(table, Ids(table.routes, DOMAIN table.routes))

BadSelectWeighted(table, eligibility, excluded) ==  \* no generation test
  LET routes == table.routes
      kept == {i \in DOMAIN routes : routes[i].id \in eligibility.eligible \ excluded}
  IN IF Total(routes, kept) > U64Max THEN {Panic} ELSE Draws(routes, kept)

\* select_weighted_with; `expect' panics on a sum beyond u64.
SelectWeighted(table, eligibility, excluded) ==
  LET routes == table.routes
      kept == {i \in DOMAIN routes : routes[i].id \in eligibility.eligible \ excluded}
  IN IF table.generation # eligibility.generation THEN {"GenerationMismatch"}
     ELSE IF Total(routes, kept) > U64Max THEN {Panic}
     ELSE Draws(routes, kept)

\* select_shadow; here a sum beyond u64 or a bad draw is no shadow.
SelectShadow(table, primary) ==
  LET routes == table.routes
      kept == {i \in Weighted(routes) : routes[i].id # primary}
  IN IF Total(routes, kept) > U64Max THEN {NoRoute}
     ELSE {IF id \in SelectErrors THEN NoRoute ELSE id : id \in Draws(routes, kept)}

\* ShadowSampling::sample_with(...).unwrap_or(false)
Sample(parts_per_million) ==
  CASE parts_per_million = 0 -> {FALSE}
    [] parts_per_million = Million -> {TRUE}
    [] OTHER -> {draw < parts_per_million : draw \in 0 .. Million - 1} \cup {FALSE}
=============================================================================
