\* Two phones, four connections (one of them a reconnect), and a clock that lets a
\* prune and both penalty buckets expire; and one of the phones alone with reloads
\* between three rate limits.
SPECIFICATION MCSpec
CONSTANTS
  phoneA = phoneA
  phoneB = phoneB
  w1 = w1
  w2 = w2
  a1 = a1
  a1again = a1again
  a2 = a2
  b1 = b1
  NoWorker = NoWorker
  DeviceIDs = {phoneA, phoneB}
  WorkerIDs = {w1, w2}
  Workers <- MCWorkers
  DeviceOf <- MCDeviceOf
  IDOf <- MCIDOf
  RequestedWeights = {0, 11}
  RateLimits <- MCRateLimits
  ScoreBuckets = 2
  ScoreBucketPeriod = 1
  PruneAge = 1
  LoadTime = 3
  MaxTime = 4
  MaxGrants = 3
INVARIANTS TypeOK CountersMatch NoOvercommit OnePlace RateLimitIsExact
PROPERTIES NoBusierAndFresher ImplementsLease LongestWaitingFirst
