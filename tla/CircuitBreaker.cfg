CONSTANTS
  Callers = {c1, c2, c3, c4}
  FailureThreshold = 2
  OpenTimeout = 2
  HalfOpenSuccessThreshold = 2
  MaxInstant = 9
  Horizon = 7
  MaxGeneration = 0
SPECIFICATION FairSpec
INVARIANTS
  TypeOK
  CurrentPermitMatchesMode
  ProbeAccounting
  ThresholdTripsBreaker
PROPERTIES
  ErasAdvance
  ImplementsContract
  OpenEventuallyProbes
  ProbeSlotsFree
