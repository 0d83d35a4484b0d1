CONSTANTS
  U32Max = 7
  DurationMax = 40
  Shadows = {s1, s2}
  Capacity = 1
  PrimaryLimits <- MCPrimaryLimits
  ShadowDeadlines = {2, 4}
  RetryPolicies <- MCRetryPolicies
  LatestDispatch = 1
  Horizon = 7
SPECIFICATION FairSpec
CHECK_DEADLOCK FALSE
PROPERTIES
  AttemptsWithinDeadline
  OutcomesTrue
  ShadowsEnd
