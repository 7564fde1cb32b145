\* Two handlers of any kind, a reload and a shutdown at any time.
SPECIFICATION FairHSpec
CONSTANTS
  h1 = h1
  h2 = h2
  Handlers = {h1, h2}
  MaxReloads = 1
INVARIANTS ReloadsReach OnlyShutdownExpires
PROPERTIES HandlersEnd
CHECK_DEADLOCK FALSE
