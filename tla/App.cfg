\* A request and a connection, an edit, signals and a shutdown at any time.
SPECIFICATION FairAppSpec
CONSTANTS
  request1 = request1
  conn1 = conn1
  Hangup = Hangup
  Requests = {request1}
  empty = empty
  odd = odd
  loud = loud
  broken = broken
  Files = {empty, odd, loud, broken}
  Contents <- MCContents
  Initial = empty
  Parts <- MCParts
  MaxEvents = 3
  Conns = {conn1}
  Kinds = {"worker", "controller"}
  MaxBackground = 1
INVARIANTS AllOrNothing ShutdownComplete
PROPERTIES RunReturns HangupTakesEffect
CHECK_DEADLOCK FALSE
