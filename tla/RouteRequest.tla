---------------------------- MODULE RouteRequest ----------------------------
(***************************************************************************)
(* Requests that plan and fail over on snapshots of one RouteTableStore    *)
(* (routing.rs, shadow.rs, failover.rs) while others replace its table.    *)
(* Every store operation holds the lock once; what a request reads after   *)
(* that is its own.  A request may take a new snapshot between any two     *)
(* calls, so that its eligibility decision and its plan may be older than  *)
(* its snapshot, as the API allows.                                        *)
(***************************************************************************)
EXTENDS Routing

CONSTANTS
  Requests,
  RouteLists,        \* what callers pass to replace(), valid or not
  InitialRoutes, InitialGeneration,
  MaxRoutes,         \* the RouteAttemptBudgets in use
  PartsPerMillion    \* the ShadowSampling values in use

ASSUME RequestAssumption ==
  /\ \A routes \in RouteLists \cup {InitialRoutes} : IsRouteList(routes)
  /\ TableError(InitialRoutes) = "none"
  /\ InitialGeneration \in 0 .. U64Max
  /\ MaxRoutes \subseteq Nat \ {0}
  /\ PartsPerMillion \subseteq 0 .. Million

VARIABLES
  current,    \* the store's table
  published,  \* history: the tables the store has held, by generation
  request     \* what each request holds

vars == <<current, published, request>>

NoEligibility == [generation |-> -1, eligible |-> {}]
NoPlan == [generation |-> -1, primary |-> NoRoute, shadow |-> NoRoute, sampled |-> FALSE]
NoFailover ==
  [snapshot |-> Table(-1, <<>>), eligibility |-> NoEligibility, max_routes |-> 0,
   attempted |-> {}, current |-> NoRoute, decision |-> "none",
   path |-> <<>>]  \* path: history of the attempts handed out

Init ==
  /\ current = Table(InitialGeneration, InitialRoutes)
  /\ published = {current}
  /\ request = [r \in Requests |->
       [snapshot |-> current, eligibility |-> NoEligibility, plan |-> NoPlan,
        failover |-> NoFailover]]

-----------------------------------------------------------------------------
(* RouteTableStore *)

BadReplace(routes) ==  \* the new table keeps the generation
  /\ TableError(routes) = "none"
  /\ current' = Table(current.generation, routes)
  /\ published' = published \cup {current'}
  /\ UNCHANGED request

\* replace(): a rejected list or an exhausted generation changes nothing.
Replace(routes) ==
  /\ current.generation < U64Max
  /\ TableError(routes) = "none"
  /\ current' = Table(current.generation + 1, routes)
  /\ published' = published \cup {current'}
  /\ UNCHANGED request

Hold(r, field, value) ==
  /\ request' = [request EXCEPT ![r][field] = value]
  /\ UNCHANGED <<current, published>>

Snapshot(r) == Hold(r, "snapshot", current)

-----------------------------------------------------------------------------
(* RouteEligibility, RoutePlanner *)

Filter(r) ==
  \E accepted \in SUBSET Ids(request[r].snapshot.routes, DOMAIN request[r].snapshot.routes) :
    Hold(r, "eligibility", FromPredicate(request[r].snapshot, accepted))

Samples == UNION {Sample(ppm) : ppm \in PartsPerMillion}

\* build_plan
BuildPlan(r, primary, sampled, shadow) ==
  Hold(r, "plan", [generation |-> request[r].snapshot.generation, primary |-> primary,
                   sampled |-> sampled, shadow |-> shadow])

\* plan_with(): every weighted route is eligible.
Plan(r) ==
  LET table == request[r].snapshot
  IN \E primary \in {id \in Select(table) : IsRoute(id)}, sampled \in Samples :
       \E shadow \in IF sampled THEN SelectShadow(table, primary) ELSE {NoRoute} :
         BuildPlan(r, primary, sampled, shadow)

\* plan_eligible_with(): an error of the primary selection makes no plan, one of
\* the shadow's makes a plan without shadow.
PlanEligible(r) ==
  LET table == request[r].snapshot
      eligibility == request[r].eligibility
  IN \E primary \in {id \in SelectWeighted(table, eligibility, {}) : IsRoute(id)},
        sampled \in Samples :
       \E id \in IF sampled THEN SelectWeighted(table, eligibility, {primary})
                            ELSE {NoRoute} :
         BuildPlan(r, primary, sampled, IF IsRoute(id) THEN id ELSE NoRoute)

BadObservation(r) ==  \* the generation the adapter sees now
  IF request[r].plan.shadow = NoRoute THEN {}
  ELSE {[generation |-> request[r].snapshot.generation, route_id |-> request[r].plan.shadow]}

\* ShadowObservation::from_plan, as a set of at most one.
Observation(r) ==
  IF request[r].plan.shadow = NoRoute THEN {}
  ELSE {[generation |-> request[r].plan.generation, route_id |-> request[r].plan.shadow]}

-----------------------------------------------------------------------------
(* RouteFailover *)

\* from_primary
FromPrimary(r, eligibility, max_routes, primary) ==
  Hold(r, "failover",
       [snapshot |-> request[r].snapshot, eligibility |-> eligibility,
        max_routes |-> max_routes, attempted |-> {primary}, current |-> primary,
        decision |-> "none", path |-> <<[id |-> primary, ordinal |-> 0]>>])

\* new_with()
NewFailover(r) ==
  LET eligibility == All(request[r].snapshot)
  IN \E primary \in {id \in SelectWeighted(request[r].snapshot, eligibility, {}) : IsRoute(id)},
        max_routes \in MaxRoutes :
       FromPrimary(r, eligibility, max_routes, primary)

BadFromPrimaryEligibility(r) ==  \* the primary is taken on trust
  /\ request[r].eligibility.generation = request[r].snapshot.generation
  /\ IsRoute(request[r].plan.primary)
  /\ \E max_routes \in MaxRoutes :
       FromPrimary(r, request[r].eligibility, max_routes, request[r].plan.primary)

\* from_primary_eligibility(), with the primary of the request's plan.
FromPrimaryEligibility(r) ==
  /\ request[r].eligibility.generation = request[r].snapshot.generation
  /\ request[r].plan.primary \in request[r].eligibility.eligible
  /\ \E max_routes \in MaxRoutes :
       FromPrimary(r, request[r].eligibility, max_routes, request[r].plan.primary)

BadBudgetSpent(f) == Cardinality(f.attempted) > f.max_routes

BudgetSpent(f) == Cardinality(f.attempted) >= f.max_routes

SelectRemaining(f) == SelectWeighted(f.snapshot, f.eligibility, f.attempted)

\* The Failover arm of classify_with, for a selection it may make; an error of the
\* selection changes nothing.
Advance(f, id) ==
  IF id = NoRoute THEN [f EXCEPT !.decision = "NoRemainingEligibleRoute"]
  ELSE [f EXCEPT !.attempted = @ \cup {id}, !.current = id, !.decision = "Failover",
                 !.path = Append(@, [id |-> id, ordinal |-> Cardinality(f.attempted)])]

\* classify_with(): the caller's verdict on the current route.  The other verdicts
\* only answer.
Classify(r) ==
  LET f == request[r].failover
  IN /\ f # NoFailover
     /\ \/ \E decision \in {"Complete", "RetryCurrent", "CallerTerminal"} :
             Hold(r, "failover", [f EXCEPT !.decision = decision])
        \/ /\ BudgetSpent(f)
           /\ Hold(r, "failover", [f EXCEPT !.decision = "RouteAttemptBudgetExhausted"])
        \/ /\ ~BudgetSpent(f)
           /\ \E id \in SelectRemaining(f) \ (SelectErrors \cup {Panic}) :
                Hold(r, "failover", Advance(f, id))

Next ==
  \/ \E routes \in RouteLists : Replace(routes)
  \/ \E r \in Requests :
       \/ Snapshot(r) \/ Filter(r) \/ Plan(r) \/ PlanEligible(r)
       \/ NewFailover(r) \/ FromPrimaryEligibility(r) \/ Classify(r)

Spec == Init /\ [][Next]_vars

-----------------------------------------------------------------------------
Tables == [generation : 0 .. U64Max, routes : RouteLists \cup {InitialRoutes}]
Eligibilities == [generation : -1 .. U64Max, eligible : SUBSET RouteIds]
Plans ==
  [generation : -1 .. U64Max, primary : RouteIds \cup {NoRoute},
   shadow : RouteIds \cup {NoRoute}, sampled : BOOLEAN]
Decisions ==
  {"none", "Complete", "RetryCurrent", "CallerTerminal", "Failover",
   "RouteAttemptBudgetExhausted", "NoRemainingEligibleRoute"}
Failovers ==
  [snapshot : Tables, eligibility : Eligibilities, max_routes : MaxRoutes,
   attempted : SUBSET RouteIds, current : RouteIds, decision : Decisions,
   path : Seq([id : RouteIds, ordinal : Nat])] \cup {NoFailover}

\* The type invariant; the store's generation stays within u64.
TypeOK ==
  /\ current \in Tables /\ current.generation >= InitialGeneration
  /\ published \subseteq Tables
  /\ request \in [Requests -> [snapshot : Tables, eligibility : Eligibilities,
                               plan : Plans, failover : Failovers]]

\* A generation names one table of the store, a valid one, and the store holds the
\* newest: the eligibility check compares generations in place of tables.
GenerationNamesTable ==
  /\ \A t \in published : TableError(t.routes) = "none" /\ t.generation <= current.generation
  /\ \A t, u \in published : t.generation = u.generation => t = u
  /\ current \in published

\* The weighted routes of the table published under a generation.
Published(generation) ==
  UNION {Ids(t.routes, Weighted(t.routes)) : t \in {u \in published : u.generation = generation}}

\* A plan's primary and shadow are two weighted routes of one published table, that
\* of its generation, however stale the decision or the snapshot it was made from;
\* and what is observed of a shadow names a route of the table it was planned on.
PlanFromOneTable ==
  \A r \in Requests :
    LET plan == request[r].plan
    IN plan # NoPlan =>
         /\ plan.primary \in Published(plan.generation)
         /\ plan.shadow # NoRoute =>
              /\ plan.shadow \in Published(plan.generation) \ {plan.primary}
              /\ plan.sampled
         /\ \A o \in Observation(r) : o.route_id \in Published(o.generation)

\* The attempts a failover hands out are distinct eligible routes of its snapshot,
\* numbered from zero, at most as many as the budget; the last one is current.
PathWithinDecision ==
  \A r \in Requests :
    LET f == request[r].failover
        tried == {f.path[i].id : i \in DOMAIN f.path}
    IN f # NoFailover =>
         /\ Cardinality(tried) = Len(f.path) /\ Len(f.path) <= f.max_routes
         /\ tried \subseteq f.eligibility.eligible \cap Published(f.snapshot.generation)
         /\ \A i \in DOMAIN f.path : f.path[i].ordinal = i - 1
         /\ f.current = f.path[Len(f.path)].id

Walk(r) == INSTANCE FailoverWalk WITH
  Nowhere <- "none",
  allowed <- request[r].failover.eligibility.eligible,
  budget <- request[r].failover.max_routes,
  walked <- [i \in DOMAIN request[r].failover.path |-> request[r].failover.path[i].id],
  answer <- request[r].failover.decision

\* Whatever is published and re-planned meanwhile, a failover is a walk over distinct
\* routes of one decision that stops only when it has tried them all or spent its budget.
ImplementsWalk ==
  /\ \A r \in Requests : Walk(r)!Init
  /\ [][\A r \in Requests : [Walk(r)!Next]_(Walk(r)!vars)]_vars

\* `expect' and `unreachable!' never panic, and the decision's weights are exact: each
\* eligible route is chosen by as many draws as its weight.
SelectionExact ==
  \A r \in Requests :
    LET routes == request[r].snapshot.routes
        eligibility == request[r].eligibility
        kept == {i \in DOMAIN routes : routes[i].id \in eligibility.eligible}
    IN eligibility.generation = request[r].snapshot.generation =>
         /\ Total(routes, kept) <= U64Max
         /\ \A i \in kept : routes[i].enabled /\ routes[i].weight =
              Cardinality({draw \in 0 .. Total(routes, kept) - 1 :
                             Chosen(routes, kept, draw) = i})
=============================================================================
