CONSTANTS
  U32Max = 7
  DurationMax = 40
  Requests = {r1}
  Limits <- MCLimits
  AttemptTimeouts = {0, 2, 5}
  MaxAttempts = 3
  MaxElapsed = 5
  Initial = 1
  Maximum = 3
  Factor = 2
  Jitter = "Full"
  LatestCall = 3
  Horizon = 14
SPECIFICATION FairSpec
CHECK_DEADLOCK FALSE
INVARIANTS
  WaitsWithinBudget
  EveryCallReady
PROPERTIES
  NoCallAfterDeadline
  StopReasonTrue
  BoundedRequestsEnd
