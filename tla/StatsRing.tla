------------------------------- MODULE StatsRing -------------------------------
(***************************************************************************)
(* The ring of buckets that answers how many requests ended in the last    *)
(* seconds or minutes (libs/stats/count_duration.go).  A bucket is cleared *)
(* when the ring comes round to it, and the ring moves only when it is     *)
(* used.  Counts and durations move together; here a bucket has the count. *)
(***************************************************************************)
EXTENDS Naturals, Sequences, SequencesExt

CONSTANTS
  BucketDuration,   \* how long a bucket is filled
  Windows           \* buckets of the longest window

ASSUME RingAssumption == BucketDuration \in Nat \ {0} /\ Windows \in Nat

NumBuckets == 1 + Windows
Buckets == 0..NumBuckets - 1

NewRing == [bucket |-> [i \in Buckets |-> 0], head |-> 0, headTime |-> 0]

\* Wrong: clears the bucket it stops at, and not those it passes.
AdvanceToLast(ring, now) ==
  LET n    == (now - ring.headTime) \div BucketDuration
      head == (ring.head + n) % NumBuckets
  IN  IF n = 0 THEN ring
      ELSE [bucket   |-> [ring.bucket EXCEPT ![head] = 0],
            head     |-> head,
            headTime |-> ring.headTime + n * BucketDuration]

\* The buckets whose time has come are cleared, all of them when the ring was not
\* used for longer than it is; it then starts at its first bucket again.
Advance(ring, now) ==
  LET n      == (now - ring.headTime) \div BucketDuration
      passed == {(ring.head + i) % NumBuckets : i \in 1..n}
  IN  IF n = 0 THEN ring
      ELSE [bucket   |-> [i \in Buckets |-> IF i \in passed THEN 0 ELSE ring.bucket[i]],
            head     |-> IF n >= NumBuckets THEN 0 ELSE (ring.head + n) % NumBuckets,
            headTime |-> ring.headTime + n * BucketDuration]

AfterAdd(ring, now) ==
  LET moved == Advance(ring, now)
  IN  [moved EXCEPT !.bucket[moved.head] = @ + 1]

\* The newest n buckets.
Scanned(ring, n) ==
  [j \in 1..n |-> ring.bucket[(ring.head + NumBuckets - (j - 1)) % NumBuckets]]

\* The count GetWindows tells for a window of n buckets.
WindowSum(ring, now, n) ==
  FoldSeq(LAMBDA a, b : a + b, 0, Scanned(Advance(ring, now), n))
=============================================================================
