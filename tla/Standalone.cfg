CONSTANTS
  Namespaces = {"primary", "shadow"}
  Capacity <- MCCapacity
  Replenish <- MCReplenish
  U32Max = 3
  MaxSuccesses = 4
  Threads = {t1, t2}
  RouteIds = {"a", "none"}
  Ordinals = {1, 2}
  Generations = {1, 2}
  Durations = {1, 4, 5, 6}
  NanosPerMicro = 2
  U64Max = 2
SYMMETRY Symmetry
SPECIFICATION StandaloneSpec
CHECK_DEADLOCK FALSE
INVARIANTS
  RetriesPaidFor
  TokensKept
  SeriesAreDimensions
  TraceKeepsEvent
