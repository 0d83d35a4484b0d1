CONSTANTS
  Callers = {c1, c2, c3}
  FailureThreshold = 2
  OpenTimeout = 5
  HalfOpenSuccessThreshold = 1
  MaxInstant = 4
  Horizon = 4
  MaxGeneration = 4
SPECIFICATION Spec
INVARIANT ThresholdTripsBreaker
