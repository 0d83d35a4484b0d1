CONSTANTS
  U32Max = 7
  DurationMax = 12
  Policies <- MCPolicies
  LatestWork = 7
SPECIFICATION Spec
CHECK_DEADLOCK FALSE
INVARIANTS
  RetriesAllowed
PROPERTIES
  SleepOnCurve
  GivesUpWithCause
