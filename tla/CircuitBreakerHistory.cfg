CONSTANTS
  Callers = {c1, c2, c3}
  FailureThreshold = 3
  OpenTimeout = 1
  HalfOpenSuccessThreshold = 2
  MaxInstant = 3
  Horizon = 3
  MaxGeneration = 8
SYMMETRY CallerSymmetry
SPECIFICATION HSpec
INVARIANTS
  CountersMatchHistory
  RejectionsHaveCause
  ProbeLimit
PROPERTIES
  TransitionsHaveEvidence
