CONSTANTS
  U64Max = 5
  Million = 3
  Requests = {r1}
  RouteLists <- MCRouteLists
  InitialRoutes <- MCInitialRoutes
  InitialGeneration = 3
  MaxRoutes = {2, 4}
  PartsPerMillion = {0, 1, 3}
  Stores = {"left", "right"}
  FirstRoutes <- MCFirstRoutes
  FirstGeneration <- MCFirstGeneration
  NextRoutes <- MCNextRoutes
SPECIFICATION RoutingSpec
INVARIANTS
  PlanFromOneTable
  PathWithinDecision
  SelectionExact
  OwnDecisionsExact
  ForeignChoiceLimited
PROPERTIES
  ImplementsWalk
