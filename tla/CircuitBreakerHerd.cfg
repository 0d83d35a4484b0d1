CONSTANTS
  Callers = {c1, c2, c3}
  FailureThreshold = 1
  OpenTimeout = 1
  HalfOpenSuccessThreshold = 2
  MaxInstant = 5
  Horizon = 4
  MaxGeneration = 0
SPECIFICATION Spec
INVARIANT ProbesInFlightBounded
