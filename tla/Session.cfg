\* A login and a request, one message nobody asked for, and a ring of two buckets
\* of two ticks each, for as long as it takes to go round more than once.
SPECIFICATION FairSSpec
CONSTANTS
  BucketDuration = 2
  Windows = 1
  MaxRequests = 2
  MaxUnsolicited = 1
  MaxTime = 6
INVARIANTS ResponsesAccounted WindowExact
PROPERTIES SessionEndsTogether
CHECK_DEADLOCK FALSE
