\* Two requests, each about the device or for a job, and a device that
\* connects twice.
SPECIFICATION FairASpec
CONSTANTS
  r1 = r1
  r2 = r2
  job = job
  Requests = {r1, r2}
  JobIDs = {job}
  MaxAsks = 1
  MaxInstances = 2
  MaxConns = 2
INVARIANTS OutcomesTrue
PROPERTIES OutcomeIsFinal RequestsEnd
CHECK_DEADLOCK FALSE
