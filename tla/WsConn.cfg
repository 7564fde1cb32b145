\* Two callers with calls of every kind, two closers, a queue of one.
SPECIFICATION FairWSpec
CONSTANTS
  c1 = c1
  c2 = c2
  k1 = k1
  k2 = k2
  Writer = Writer
  Callers = {c1, c2}
  Program <- MCProgram
  Closers = {k1, k2}
  QueueSize = 1
INVARIANTS WrittenInOrder NoUseAfterPutBack
PROPERTIES NothingAfterClose ClosingEnds
CHECK_DEADLOCK FALSE
