\* A shutdown while a handler registers its connection.
SPECIFICATION FairHSpec
CONSTANTS
  h1 = h1
  h2 = h2
  Handlers = {h1}
  MaxReloads = 0
PROPERTIES ShutdownEnds
CHECK_DEADLOCK FALSE
