\* Any peer, and two reloads between two settings.
SPECIFICATION TSpec
CONSTANTS
  Settings <- MCSettings
  PongWithin = 1
  MaxTime = 9
  MaxReloads = 2
INVARIANTS NothingOverdue HealthySurvives
CHECK_DEADLOCK FALSE
