CONSTANTS
  U64Max = 5
  Million = 3
  Stores = {"left", "right"}
  FirstRoutes <- MCFirstRoutes
  FirstGeneration <- MCFirstGeneration
  NextRoutes <- MCNextRoutes
SPECIFICATION StoresSpec
INVARIANT
  SubsetNeverOverflows
