\* A version 2 handshake fails after the worker it had claimed has left.
SPECIFICATION MgrSpec
CONSTANTS
  phone = phone
  w1 = w1
  w2 = w2
  a1 = a1
  a1again = a1again
  a2 = a2
  home = home
  away = away
  ctrl1 = ctrl1
  ctrl2 = ctrl2
  NoWorker = NoWorker
  NoConn = NoConn
  NoController = NoController
  DeviceIDs = {phone}
  WorkerIDs = {w1}
  Workers = {a1, a1again}
  DeviceOf <- MCDeviceOf
  IDOf <- MCIDOf
  Conns = {home, away}
  ConnDevice <- MCConnDevice
  Origins = {home, away}
  ConnOrigin <- MCConnOrigin
  WorkerOrigin <- MCWorkerOrigin
  Controllers = {ctrl1}
  V2Controllers = {ctrl1}
  RequestedWeights = {3}
  RateLimits <- NoLimit
  ScoreBuckets = 1
  ScoreBucketPeriod = 1
  PruneAge = 1
  MaxTime = 2
INVARIANTS GoneIsNotOffered
CHECK_DEADLOCK FALSE
