\* One caller and a monitor that checks once or twice, with two reloads.
SPECIFICATION FairDSpec
CONSTANTS
  caller = caller
  Callers = {caller}
  Monitor = Monitor
  MaxChecks = 2
  MaxReloads = 2
INVARIANTS NoPanic RepliesMatch
PROPERTIES RunGoesOn ReloadReachesMonitor
CHECK_DEADLOCK FALSE
