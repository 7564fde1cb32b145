--------------------------- MODULE SelectorProofs ---------------------------
(***************************************************************************)
(* Theorems about Selector and SelectorAudit, for every set of devices,    *)
(* workers and connections and every rate limit.                           *)
(***************************************************************************)
EXTENDS SelectorAudit, FiniteSetTheorems, SequenceTheorems, WellFoundedInduction, TLAPS

-----------------------------------------------------------------------------
(* Sequences and finite sets. *)

\* Removing the first occurrence of e from a sequence without duplicates closes the gap:
\* the loop of removeWorkerFromDevice.
LEMMA RemoveFirstShape ==
  ASSUME NEW S, NEW s \in Seq(S), NEW e, IsInjective(s)
  PROVE  LET r == RemoveFirst(s, e)
         IN  \/ r = s /\ e \notin Range(s)
             \/ \E k \in 1..Len(s) :
                  /\ s[k] = e
                  /\ r \in Seq(S) /\ Len(r) = Len(s) - 1
                  /\ \A j \in 1..(Len(s) - 1) : r[j] = IF j < k THEN s[j] ELSE s[j + 1]
<1>1. CASE \A i \in 1..Len(s) : s[i] # e
  <2>1. RemoveFirst(s, e) = s
    BY <1>1 DEF RemoveFirst
  <2>2. e \notin Range(s)
    BY <1>1 DEF Range
  <2> QED BY <2>1, <2>2
<1>2. CASE \E i \in 1..Len(s) : s[i] = e
  <2>1. PICK k \in 1..Len(s) : s[k] = e
    BY <1>2
  <2>2. \A j \in 1..Len(s) : s[j] = e => j = k
    BY <2>1 DEF IsInjective
  <2> DEFINE I == {j \in 1..Len(s) : s[j] = e}
  <2>3. I = {k}
    BY <2>1, <2>2
  <2>4. Min(I) = k
    BY <2>3 DEF Min
  <2>5. SelectInSeq(s, LAMBDA v : v = e) = k
    BY <2>3, <2>4 DEF SelectInSeq
  <2> DEFINE before == SubSeq(s, 1, k - 1)
             after == SubSeq(s, k + 1, Len(s))
             t == before \o after
  <2>6. RemoveFirst(s, e) = t
    BY <1>2, <2>5 DEF RemoveFirst, RemoveAt
  <2>7. /\ before \in Seq(S)
        /\ Len(before) = k - 1
        /\ \A j \in 1..(k - 1) : before[j] = s[j]
    BY SubSeqProperties
  <2>8. /\ after \in Seq(S)
        /\ Len(after) = Len(s) - k
        /\ \A j \in 1..(Len(s) - k) : after[j] = s[k + j]
    BY SubSeqProperties
  <2> HIDE DEF before, after
  <2>9. /\ t \in Seq(S)
        /\ Len(t) = Len(before) + Len(after)
        /\ \A j \in 1..(Len(before) + Len(after)) :
             t[j] = IF j <= Len(before) THEN before[j] ELSE after[j - Len(before)]
    BY <2>7, <2>8, ConcatProperties
  <2> HIDE DEF t
  <2>10. Len(t) = Len(s) - 1
    BY <2>7, <2>8, <2>9
  <2>11. ASSUME NEW j \in 1..(Len(s) - 1)
         PROVE  t[j] = IF j < k THEN s[j] ELSE s[j + 1]
    <3>1. CASE j < k
      BY <2>7, <2>8, <2>9, <3>1
    <3>2. CASE j >= k
      <4> Len(s) \in Nat
        OBVIOUS
      <4>1. j - (k - 1) \in 1..(Len(s) - k) /\ t[j] = after[j - (k - 1)]
        <5>1. j - (k - 1) \in 1..(Len(s) - k)
          BY <3>2
        <5>2. j \in 1..(Len(before) + Len(after)) /\ ~ (j <= Len(before))
          BY <2>7, <2>8, <3>2
        <5>3. t[j] = after[j - Len(before)]
          BY <2>9, <5>2
        <5> QED BY <2>7, <5>1, <5>3
      <4>2. after[j - (k - 1)] = s[k + (j - (k - 1))]
        BY <2>8, <4>1
      <4> QED BY <3>2, <4>1, <4>2
    <3> QED BY <3>1, <3>2
  <2> QED BY <2>1, <2>6, <2>9, <2>10, <2>11
<1> QED BY <1>1, <1>2

\* It removes e and nothing else.
LEMMA RemoveFirstProperties ==
  ASSUME NEW S, NEW s \in Seq(S), NEW e, IsInjective(s)
  PROVE  /\ RemoveFirst(s, e) \in Seq(S)
         /\ IsInjective(RemoveFirst(s, e))
         /\ Range(RemoveFirst(s, e)) = Range(s) \ {e}
<1> DEFINE r == RemoveFirst(s, e)
<1>1. CASE r = s /\ e \notin Range(s)
  BY <1>1
<1>2. CASE ~ (r = s /\ e \notin Range(s))
  <2>1. PICK k \in 1..Len(s) :
          /\ s[k] = e
          /\ r \in Seq(S) /\ Len(r) = Len(s) - 1
          /\ \A j \in 1..(Len(s) - 1) : r[j] = IF j < k THEN s[j] ELSE s[j + 1]
    BY <1>2, RemoveFirstShape
  <2>2. \A j \in 1..Len(s) : s[j] = e => j = k
    BY <2>1 DEF IsInjective
  <2> HIDE DEF r
  <2>3. IsInjective(r)
    <3>1. DOMAIN r = 1..(Len(s) - 1) /\ Len(s) \in Nat
      BY <2>1
    <3> SUFFICES ASSUME NEW i \in 1..(Len(s) - 1), NEW j \in 1..(Len(s) - 1), r[i] = r[j]
                 PROVE  i = j
      BY <3>1 DEF IsInjective
    <3> DEFINE place(n) == IF n < k THEN n ELSE n + 1
    <3>2. \A n \in 1..(Len(s) - 1) : place(n) \in 1..Len(s) /\ r[n] = s[place(n)]
      BY <2>1, <3>1
    <3>3. place(i) = place(j) => i = j
      BY <3>1
    <3> HIDE DEF place
    <3>4. \A a, b \in 1..Len(s) : s[a] = s[b] => a = b
      BY DEF IsInjective
    <3> QED
      BY <3>2, <3>3, <3>4
  <2>4. ASSUME NEW x \in Range(r) PROVE x \in Range(s) \ {e}
    <3>1. PICK j \in 1..(Len(s) - 1) : r[j] = x
      BY <2>1 DEF Range
    <3>2. PICK i \in 1..Len(s) : i # k /\ x = s[i]
      BY <2>1, <3>1
    <3> QED
      BY <2>2, <3>2 DEF Range
  <2>5. ASSUME NEW x \in Range(s) \ {e} PROVE x \in Range(r)
    <3>1. PICK j \in 1..Len(s) : s[j] = x
      BY DEF Range
    <3>2. j # k
      BY <2>1, <3>1
    <3>3. CASE j < k
      BY <2>1, <3>1, <3>3 DEF Range
    <3>4. CASE j > k
      <4>1. j - 1 \in 1..(Len(s) - 1) /\ r[j - 1] = x
        BY <2>1, <3>1, <3>4
      <4> QED BY <2>1, <4>1 DEF Range
    <3> QED BY <3>2, <3>3, <3>4
  <2> QED BY <2>1, <2>3, <2>4, <2>5 DEF r
<1> QED BY <1>1, <1>2 DEF r

\* Appending a new element to a sequence without duplicates adds that element.
LEMMA AppendNewProperties ==
  ASSUME NEW S, NEW s \in Seq(S), NEW e \in S, IsInjective(s), e \notin Range(s)
  PROVE  /\ Append(s, e) \in Seq(S)
         /\ IsInjective(Append(s, e))
         /\ Range(Append(s, e)) = Range(s) \cup {e}
<1> DEFINE t == Append(s, e)
<1>1. /\ t \in Seq(S)
      /\ DOMAIN t = 1..(Len(s) + 1)
      /\ DOMAIN s = 1..Len(s)
      /\ Len(s) \in Nat
      /\ \A i \in 1..Len(s) : t[i] = s[i]
      /\ t[Len(s) + 1] = e
  OBVIOUS
<1> HIDE DEF t
<1>2. IsInjective(t)
  BY <1>1 DEF IsInjective, Range
<1>3. Range(t) = Range(s) \cup {e}
  <2>1. ASSUME NEW x \in Range(t) PROVE x \in Range(s) \cup {e}
    BY <1>1 DEF Range
  <2>2. ASSUME NEW x \in Range(s) PROVE x \in Range(t)
    BY <1>1 DEF Range
  <2>3. e \in Range(t)
    BY <1>1 DEF Range
  <2> QED BY <2>1, <2>2, <2>3
<1> QED BY <1>1, <1>2, <1>3 DEF t

\* The tail of a sequence without duplicates loses the head and nothing else.
LEMMA TailProperties ==
  ASSUME NEW S, NEW s \in Seq(S), IsInjective(s), s # <<>>
  PROVE  /\ Head(s) \in Range(s)
         /\ Tail(s) \in Seq(S)
         /\ IsInjective(Tail(s))
         /\ Range(Tail(s)) = Range(s) \ {Head(s)}
<1> DEFINE t == Tail(s)
<1>1. /\ Len(s) \in Nat \ {0}
      /\ Head(s) = s[1]
      /\ DOMAIN s = 1..Len(s)
      /\ t \in Seq(S)
      /\ DOMAIN t = 1..(Len(s) - 1)
      /\ \A i \in 1..(Len(s) - 1) : t[i] = s[i + 1]
  OBVIOUS
<1> HIDE DEF t
<1>2. IsInjective(t)
  <2>1. ASSUME NEW i \in 1..(Len(s) - 1), NEW j \in 1..(Len(s) - 1), t[i] = t[j]
        PROVE  i = j
    <3>1. s[i + 1] = s[j + 1] /\ i + 1 \in DOMAIN s /\ j + 1 \in DOMAIN s
      BY <1>1, <2>1
    <3>2. i + 1 = j + 1
      BY <3>1 DEF IsInjective
    <3> QED BY <3>2
  <2> QED BY <1>1, <2>1 DEF IsInjective
<1>3. ASSUME NEW x \in Range(t) PROVE x \in Range(s) \ {Head(s)}
  <2>1. PICK i \in 1..(Len(s) - 1) : x = s[i + 1]
    BY <1>1 DEF Range
  <2> QED BY <1>1, <2>1 DEF Range, IsInjective
<1>4. ASSUME NEW x \in Range(s) \ {Head(s)} PROVE x \in Range(t)
  <2>1. PICK i \in 1..Len(s) : x = s[i]
    BY <1>1 DEF Range
  <2>2. i - 1 \in 1..(Len(s) - 1) /\ t[i - 1] = x
    BY <1>1, <2>1
  <2> QED BY <1>1, <2>2 DEF Range
<1>5. Head(s) \in Range(s)
  BY <1>1 DEF Range
<1> QED BY <1>1, <1>2, <1>3, <1>4, <1>5 DEF t

\* Min of a nonempty set of naturals is its least element.
LEMMA MinProperties ==
  ASSUME NEW S, S \subseteq Nat, S # {}
  PROVE  Min(S) \in S /\ \A n \in S : Min(S) <= n
<1> DEFINE R == {ss \in Nat \X Nat : ss[1] < ss[2]}
<1>1. IsWellFoundedOn(R, Nat)
  BY NatLessThanWellFounded DEF OpToRel
<1>2. \A x, y \in Nat : <<x, y>> \in R <=> x < y
  OBVIOUS
<1> HIDE DEF R
<1>3. PICK x \in S : \A y \in S : ~ (<<y, x>> \in R)
  BY <1>1, WFMin
<1>4. \A y \in S : x \in Nat /\ y \in Nat /\ ~ (y < x)
  BY <1>2, <1>3
<1>5. \E z \in S : \A y \in S : z <= y
  BY <1>4
<1> QED BY <1>5 DEF Min

\* One more or one less worker of weight k changes the weighted sum by k.
LEMMA WeightSumUpdate ==
  ASSUME NEW n \in [Weights -> Int], NEW k \in Weights
  PROVE  /\ WeightSum([n EXCEPT ![k] = @ + 1]) = WeightSum(n) + k
         /\ WeightSum([n EXCEPT ![k] = @ - 1]) = WeightSum(n) - k
<1>1. n \in [1..10 -> Int] /\ k \in 1..10
  BY DEF Weights, MinimumWeight, MaximumWeight
<1>2. ASSUME NEW m, m = [n EXCEPT ![k] = @ + 1] PROVE WeightSum(m) = WeightSum(n) + k
  BY <1>1, <1>2, SMTT(60) DEF WeightSum
<1>3. ASSUME NEW m, m = [n EXCEPT ![k] = @ - 1] PROVE WeightSum(m) = WeightSum(n) - k
  BY <1>1, <1>3, SMTT(60) DEF WeightSum
<1> QED BY <1>2, <1>3

\* Counts that are not negative: the weighted sum is at most ten times the count.
LEMMA WeightSumBound ==
  ASSUME NEW n \in [Weights -> Nat]
  PROVE  /\ WeightSum(n) \in Nat
         /\ WeightSum(n) <= MaximumWeight * (n[1] + n[2] + n[3] + n[4] + n[5]
                                               + n[6] + n[7] + n[8] + n[9] + n[10])
BY DEF WeightSum, Weights, MinimumWeight, MaximumWeight

-----------------------------------------------------------------------------
(* Operations on one device. *)

\* A device is typed exactly when it is a record over the workers it has seen.
LEMMA DeviceShape ==
  ASSUME NEW dev
  PROVE  IsDevice(dev) <=> /\ dev \in SelectableDevice(Seen(dev))
                           /\ Seen(dev) \subseteq WorkerIDs
BY DEF IsDevice, SelectableDevice, Seen

\* The types of the fields of a device, one by one.
LEMMA DeviceFields ==
  ASSUME NEW dev, IsDevice(dev)
  PROVE  /\ Seen(dev) \subseteq WorkerIDs
         /\ dev.selectionEnabled \in BOOLEAN
         /\ dev.availableWorkers \in Seq(WorkerIDs)
         /\ dev.workerIDsSeen \in [Seen(dev) -> SelectableWorker]
         /\ dev.workersInUse \in Int
         /\ dev.weightUsed \in [Weights -> Int]
         /\ dev.currentWeight \in Int
         /\ dev.lastSelectionTime \in Nat
         /\ dev.selectionHistory \in Seq(Nat)
BY DeviceShape DEF SelectableDevice

\* A new device has no workers and no load.
LEMMA NewDeviceInv ==
  ASSUME NEW enabled \in BOOLEAN, NEW d
  PROVE  DeviceInv(NewDevice(enabled), d)
<1> DEFINE dev == NewDevice(enabled)
<1>1. Seen(dev) = {} /\ Assigned(dev) = {} /\ \A k \in Weights : AssignedAt(dev, k) = {}
  BY DEF NewDevice, Seen, Assigned, AssignedAt
<1>2. dev \in SelectableDevice({})
  BY DEF NewDevice, SelectableDevice, ZeroTime
<1>3. WeightSum(dev.weightUsed) = 0
  BY DEF WeightSum, NewDevice, Weights, MinimumWeight, MaximumWeight
<1>4. CountersAgree(dev)
  BY <1>1, <1>3, FS_EmptySet DEF CountersAgree, NewDevice
<1>5. QueueSound(dev)
  BY <1>1 DEF QueueSound, NewDevice, Range, IsInjective
<1> QED BY <1>1, <1>2, <1>4, <1>5, FS_EmptySet DEF DeviceInv, IsDevice

\* Taking a worker off a device undoes its assignment, or its place in the queue.
LEMMA RemoveWorkerProperties ==
  ASSUME NEW dev, IsDevice(dev), IsFiniteSet(Seen(dev)), CountersAgree(dev),
         IsInjective(dev.availableWorkers),
         NEW id \in Seen(dev),
         dev.workerIDsSeen[id].assignedWeight > 0 => id \notin Range(dev.availableWorkers)
  PROVE  LET after == RemoveWorkerFromDevice(dev, id)
         IN  /\ IsDevice(after)
             /\ after.workerIDsSeen = [dev.workerIDsSeen EXCEPT ![id].assignedWeight = 0]
             /\ CountersAgree(after)
             /\ IsInjective(after.availableWorkers)
             /\ Range(after.availableWorkers) = Range(dev.availableWorkers) \ {id}
<1> DEFINE after == RemoveWorkerFromDevice(dev, id)
           weight == dev.workerIDsSeen[id].assignedWeight
<1>1. dev \in SelectableDevice(Seen(dev)) /\ Seen(dev) \subseteq WorkerIDs
  BY DeviceShape
<1>2. weight \in 0..MaximumWeight /\ dev.workerIDsSeen[id] \in SelectableWorker
  BY <1>1 DEF SelectableDevice, SelectableWorker
<1>3. CASE weight > 0
  <2> DEFINE seen == [dev.workerIDsSeen EXCEPT ![id].assignedWeight = 0]
  <2>1. after = [dev EXCEPT !.workersInUse = @ - 1,
                            !.weightUsed[weight] = @ - 1,
                            !.currentWeight = @ - weight,
                            !.workerIDsSeen = seen]
    BY <1>3, <1>1 DEF RemoveWorkerFromDevice, SelectableDevice
  <2>2. weight \in Weights
    BY <1>2, <1>3 DEF Weights, MinimumWeight, MaximumWeight
  <2>3. seen \in [Seen(dev) -> SelectableWorker]
    <3>1. [dev.workerIDsSeen[id] EXCEPT !.assignedWeight = 0] \in SelectableWorker
      BY <1>2 DEF SelectableWorker, MaximumWeight
    <3> QED BY <3>1, DeviceFields
  <2>4. /\ after \in SelectableDevice(Seen(dev))
        /\ after.workerIDsSeen = seen
        /\ after.availableWorkers = dev.availableWorkers
        /\ after.workersInUse = dev.workersInUse - 1
        /\ after.weightUsed = [dev.weightUsed EXCEPT ![weight] = @ - 1]
        /\ after.currentWeight = dev.currentWeight - weight
    <3> DEFINE inUse == dev.workersInUse - 1
               used == [dev.weightUsed EXCEPT ![weight] = @ - 1]
               current == dev.currentWeight - weight
    <3>1. inUse \in Int /\ used \in [Weights -> Int] /\ current \in Int
      BY <1>2, <2>2, DeviceFields
    <3>2. after = [dev EXCEPT !.workersInUse = inUse, !.weightUsed = used,
                              !.currentWeight = current, !.workerIDsSeen = seen]
      BY <1>1, <2>1 DEF SelectableDevice
    <3> HIDE DEF seen, weight, after, inUse, used, current
    <3>3. /\ after.workerIDsSeen = seen
          /\ after.availableWorkers = dev.availableWorkers
          /\ after.workersInUse = inUse
          /\ after.weightUsed = used
          /\ after.currentWeight = current
      BY <1>1, <3>2 DEF SelectableDevice
    <3>4. after \in SelectableDevice(Seen(dev))
      BY <1>1, <2>3, <3>1, <3>2 DEF SelectableDevice
    <3> QED BY <3>3, <3>4 DEF inUse, used, current
  <2>5. Seen(after) = Seen(dev)
    BY <2>3, <2>4 DEF Seen
  <2>6. /\ Assigned(after) = Assigned(dev) \ {id}
        /\ id \in Assigned(dev)
    BY <1>3, <1>1, <2>3, <2>4, <2>5 DEF Assigned, SelectableDevice, SelectableWorker
  <2>7. ASSUME NEW k \in Weights
        PROVE  /\ AssignedAt(after, k) = AssignedAt(dev, k) \ {id}
               /\ id \in AssignedAt(dev, k) <=> k = weight
    <3>1. k > 0
      BY DEF Weights, MinimumWeight
    <3>2. \A x \in Seen(dev) :
            seen[x].assignedWeight = IF x = id THEN 0
                                     ELSE dev.workerIDsSeen[x].assignedWeight
      BY <1>2, DeviceFields DEF SelectableWorker
    <3> QED BY <1>3, <2>4, <2>5, <3>1, <3>2 DEF AssignedAt
  <2>8. IsFiniteSet(Assigned(dev)) /\ \A k \in Weights : IsFiniteSet(AssignedAt(dev, k))
    BY FS_Subset DEF Assigned, AssignedAt
  <2>9. after.workersInUse = Cardinality(Assigned(after))
    BY <2>4, <2>6, <2>8, FS_RemoveElement DEF CountersAgree
  <2>10. ASSUME NEW k \in Weights
         PROVE  after.weightUsed[k] = Cardinality(AssignedAt(after, k))
    <3>1. dev.weightUsed[k] = Cardinality(AssignedAt(dev, k))
      BY DEF CountersAgree
    <3>2. Cardinality(AssignedAt(dev, k) \ {id})
            = IF id \in AssignedAt(dev, k) THEN Cardinality(AssignedAt(dev, k)) - 1
              ELSE Cardinality(AssignedAt(dev, k))
      BY <2>8, FS_RemoveElement
    <3>3. after.weightUsed[k] = IF k = weight THEN dev.weightUsed[k] - 1
                                ELSE dev.weightUsed[k]
      BY <2>4, DeviceFields
    <3>4. /\ AssignedAt(after, k) = AssignedAt(dev, k) \ {id}
          /\ id \in AssignedAt(dev, k) <=> k = weight
      BY <2>7
    <3> HIDE DEF after, weight
    <3>5. CASE k = weight
      BY <3>1, <3>2, <3>3, <3>4, <3>5
    <3>6. CASE k # weight
      BY <3>1, <3>2, <3>3, <3>4, <3>6
    <3> QED BY <3>5, <3>6
  <2>11. after.currentWeight = WeightSum(after.weightUsed)
    <3>1. dev.weightUsed \in [Weights -> Int]
      BY DeviceFields
    <3>2. WeightSum([dev.weightUsed EXCEPT ![weight] = @ - 1])
            = WeightSum(dev.weightUsed) - weight
      BY <2>2, <3>1, WeightSumUpdate
    <3> QED BY <2>4, <3>2 DEF CountersAgree
  <2> QED
    BY <1>1, <1>3, <2>4, <2>5, <2>9, <2>10, <2>11 DEF CountersAgree, IsDevice
<1>4. CASE ~ (weight > 0)
  <2>1. weight = 0
    BY <1>2, <1>4
  <2>2. /\ RemoveFirst(dev.availableWorkers, id) \in Seq(WorkerIDs)
        /\ IsInjective(RemoveFirst(dev.availableWorkers, id))
        /\ Range(RemoveFirst(dev.availableWorkers, id)) = Range(dev.availableWorkers) \ {id}
    BY <1>1, RemoveFirstProperties DEF SelectableDevice
  <2>3. after = [dev EXCEPT !.availableWorkers = RemoveFirst(@, id)]
    BY <1>4 DEF RemoveWorkerFromDevice
  <2>4. /\ after \in SelectableDevice(Seen(dev))
        /\ after.workerIDsSeen = dev.workerIDsSeen
        /\ after.availableWorkers = RemoveFirst(dev.availableWorkers, id)
        /\ after.workersInUse = dev.workersInUse
        /\ after.weightUsed = dev.weightUsed
        /\ after.currentWeight = dev.currentWeight
    BY <1>1, <2>2, <2>3 DEF SelectableDevice
  <2>5. dev.workerIDsSeen = [dev.workerIDsSeen EXCEPT ![id].assignedWeight = 0]
    BY <1>1, <1>2, <2>1 DEF SelectableDevice, SelectableWorker
  <2>6. CountersAgree(after)
    BY <2>4 DEF CountersAgree, Assigned, AssignedAt, Seen
  <2> QED
    BY <1>1, <2>2, <2>4, <2>5, <2>6 DEF IsDevice
<1> QED BY <1>3, <1>4

\* A connection that takes a slot over keeps the device's records sound.
LEMMA OfferWorkerInv ==
  ASSUME NEW c \in Workers, NEW dev, DeviceInv(dev, DeviceOf[c])
  PROVE  /\ DeviceInv(OfferWorker(dev, c), DeviceOf[c])
         /\ \A x : SlotState(OfferWorker(dev, c), x) =
                    IF x = IDOf[c] THEN [state |-> "free", worker |-> c]
                    ELSE SlotState(dev, x)
<1> DEFINE id == IDOf[c]
           freed == IF id \in Seen(dev) THEN RemoveWorkerFromDevice(dev, id) ELSE dev
           entry == [worker |-> c, assignedWeight |-> 0, lastUnavailable |-> ZeroTime]
           seen == MapPut(freed.workerIDsSeen, id, entry)
           queue == Append(freed.availableWorkers, id)
           after == OfferWorker(dev, c)
<1>1. id \in WorkerIDs /\ DeviceOf[c] \in DeviceIDs
  BY WorkersAssumption
<1>2. /\ IsDevice(freed)
      /\ Seen(freed) = Seen(dev)
      /\ CountersAgree(freed)
      /\ IsInjective(freed.availableWorkers)
      /\ Range(freed.availableWorkers) = Range(dev.availableWorkers) \ {id}
      /\ id \in Seen(dev) => freed.workerIDsSeen[id].assignedWeight = 0
      /\ \A x \in Seen(dev) \ {id} : freed.workerIDsSeen[x] = dev.workerIDsSeen[x]
  <2>1. CASE id \in Seen(dev)
    <3>1. dev.workerIDsSeen[id].assignedWeight > 0 => id \notin Range(dev.availableWorkers)
      BY <2>1 DEF DeviceInv, QueueSound
    <3>2. dev.workerIDsSeen \in [Seen(dev) -> SelectableWorker]
      BY DeviceFields DEF DeviceInv
    <3>3. /\ IsDevice(freed)
          /\ freed.workerIDsSeen = [dev.workerIDsSeen EXCEPT ![id].assignedWeight = 0]
          /\ CountersAgree(freed)
          /\ IsInjective(freed.availableWorkers)
          /\ Range(freed.availableWorkers) = Range(dev.availableWorkers) \ {id}
      BY <2>1, <3>1, RemoveWorkerProperties DEF DeviceInv, QueueSound
    <3> HIDE DEF freed
    <3> QED BY <2>1, <3>2, <3>3 DEF Seen, SelectableWorker
  <2>2. CASE id \notin Seen(dev)
    BY <2>2 DEF DeviceInv, QueueSound
  <2> QED BY <2>1, <2>2
<1>3. after = [freed EXCEPT !.workerIDsSeen = seen, !.availableWorkers = queue]
  BY DEF OfferWorker, Seen
<1> HIDE DEF freed, after
<1>4. entry \in SelectableWorker
  BY DEF SelectableWorker, ZeroTime, MaximumWeight
<1>5. /\ DOMAIN seen = Seen(dev) \cup {id}
      /\ seen[id] = entry
      /\ \A x \in Seen(dev) \ {id} : seen[x] = dev.workerIDsSeen[x]
      /\ seen \in [Seen(dev) \cup {id} -> SelectableWorker]
  <2>1. dev.workerIDsSeen \in [Seen(dev) -> SelectableWorker]
    BY DeviceFields DEF DeviceInv
  <2>2. DOMAIN freed.workerIDsSeen = Seen(dev)
    BY <1>2 DEF Seen
  <2>3. DOMAIN seen = Seen(dev) \cup {id}
    BY <2>2 DEF MapPut
  <2>4. seen = [x \in Seen(dev) \cup {id} |-> IF x = id THEN entry ELSE freed.workerIDsSeen[x]]
    BY <2>2 DEF MapPut
  <2> HIDE DEF seen, entry
  <2> QED BY <1>2, <1>4, <2>1, <2>3, <2>4
<1>6. /\ queue \in Seq(WorkerIDs)
      /\ IsInjective(queue)
      /\ Range(queue) = Range(dev.availableWorkers) \cup {id}
  <2>1. freed.availableWorkers \in Seq(WorkerIDs)
    BY <1>2, DeviceFields
  <2>2. id \notin Range(freed.availableWorkers)
    BY <1>2
  <2>3. /\ queue \in Seq(WorkerIDs)
        /\ IsInjective(queue)
        /\ Range(queue) = Range(freed.availableWorkers) \cup {id}
    BY <1>1, <1>2, <2>1, <2>2, AppendNewProperties
  <2> QED BY <1>2, <2>3
<1> HIDE DEF seen, queue, entry
<1>7. /\ after \in SelectableDevice(Seen(dev) \cup {id})
      /\ after.workerIDsSeen = seen
      /\ after.availableWorkers = queue
      /\ after.workersInUse = freed.workersInUse
      /\ after.weightUsed = freed.weightUsed
      /\ after.currentWeight = freed.currentWeight
  <2>1. freed \in SelectableDevice(Seen(freed))
    BY <1>2, DeviceShape
  <2> QED BY <1>3, <1>5, <1>6, <2>1 DEF SelectableDevice
<1>8. Seen(after) = Seen(dev) \cup {id}
  BY <1>5, <1>7 DEF Seen
<1>9. IsDevice(after) /\ IsFiniteSet(Seen(after))
  <2>1. Seen(dev) \subseteq WorkerIDs /\ IsFiniteSet(Seen(dev))
    BY DeviceFields DEF DeviceInv
  <2>2. IsFiniteSet(Seen(dev) \cup {id})
    BY <2>1, FS_AddElement
  <2> QED BY <1>1, <1>7, <1>8, <2>1, <2>2 DEF IsDevice
<1>10. entry.assignedWeight = 0 /\ entry.lastUnavailable = ZeroTime /\ entry.worker = c
  BY DEF entry
<1>11. CountersAgree(after)
  <2>1. Assigned(after) = Assigned(freed)
    BY <1>2, <1>5, <1>7, <1>8, <1>10 DEF Assigned
  <2>2. ASSUME NEW k \in Weights PROVE AssignedAt(after, k) = AssignedAt(freed, k)
    <3>1. k # 0
      BY DEF Weights, MinimumWeight
    <3> QED BY <1>2, <1>5, <1>7, <1>8, <1>10, <3>1 DEF AssignedAt
  <2> QED BY <1>2, <1>7, <2>1, <2>2 DEF CountersAgree
<1>12. QueueSound(after)
  <2>1. Range(queue) \subseteq Seen(after)
    BY <1>6, <1>8 DEF DeviceInv, QueueSound
  <2>2. ASSUME NEW x \in Seen(after)
        PROVE  /\ seen[x].assignedWeight > 0 => seen[x].lastUnavailable = ZeroTime
               /\ x \in Range(queue) <=>
                    seen[x].assignedWeight = 0 /\ seen[x].lastUnavailable = ZeroTime
    <3>1. CASE x = id
      BY <1>5, <1>6, <1>10, <3>1
    <3>2. CASE x # id
      BY <1>5, <1>6, <1>8, <2>2, <3>2 DEF DeviceInv, QueueSound
    <3> QED BY <3>1, <3>2
  <2> QED BY <1>6, <1>7, <2>1, <2>2 DEF QueueSound
<1>13. ASSUME NEW x \in Seen(after)
       PROVE  IDOf[seen[x].worker] = x /\ DeviceOf[seen[x].worker] = DeviceOf[c]
  <2>1. CASE x = id
    BY <1>5, <1>10, <2>1
  <2>2. CASE x # id
    BY <1>5, <1>8, <2>2 DEF DeviceInv
  <2> QED BY <2>1, <2>2
<1>14. DeviceInv(after, DeviceOf[c])
  BY <1>7, <1>9, <1>11, <1>12, <1>13 DEF DeviceInv
<1>15. ASSUME NEW x
       PROVE  SlotState(after, x) = IF x = id THEN [state |-> "free", worker |-> c]
                                    ELSE SlotState(dev, x)
  BY <1>5, <1>7, <1>8, <1>10 DEF SlotState
<1> QED BY <1>14, <1>15 DEF after

\* A connection that leaves keeps the device's records sound: a late disconnect
\* of a replaced connection changes nothing.
LEMMA WithdrawWorkerInv ==
  ASSUME NEW c \in Workers, NEW d, NEW dev, DeviceInv(dev, d), NEW t \in Nat \ {ZeroTime}
  PROVE  /\ DeviceInv(WithdrawWorker(dev, c, t), d)
         /\ IF SlotState(dev, IDOf[c]).worker = c
            THEN \A x : SlotState(WithdrawWorker(dev, c, t), x) =
                          IF x = IDOf[c] THEN [state |-> "away", worker |-> c]
                          ELSE SlotState(dev, x)
            ELSE WithdrawWorker(dev, c, t) = dev
<1> DEFINE id == IDOf[c]
           seen == [dev.workerIDsSeen EXCEPT ![id].lastUnavailable = t]
           marked == [dev EXCEPT !.workerIDsSeen[id].lastUnavailable = t]
           after == RemoveWorkerFromDevice(marked, id)
<1>1. CASE ~ (id \in Seen(dev) /\ dev.workerIDsSeen[id].worker = c)
  <2>1. SlotState(dev, id).worker # c
    BY <1>1, WorkersAssumption DEF SlotState
  <2> QED BY <1>1, <2>1 DEF WithdrawWorker, Seen
<1>2. CASE id \in Seen(dev) /\ dev.workerIDsSeen[id].worker = c
  <2>1. /\ dev.workerIDsSeen \in [Seen(dev) -> SelectableWorker]
        /\ dev \in SelectableDevice(Seen(dev))
        /\ Seen(dev) \subseteq WorkerIDs
    BY DeviceFields, DeviceShape DEF DeviceInv
  <2>2. /\ seen \in [Seen(dev) -> SelectableWorker]
        /\ DOMAIN seen = Seen(dev)
        /\ \A x \in Seen(dev) \ {id} : seen[x] = dev.workerIDsSeen[x]
        /\ seen[id].assignedWeight = dev.workerIDsSeen[id].assignedWeight
        /\ seen[id].lastUnavailable = t
        /\ seen[id].worker = c
    <3>1. [dev.workerIDsSeen[id] EXCEPT !.lastUnavailable = t] \in SelectableWorker
      BY <1>2, <2>1 DEF SelectableWorker
    <3> QED BY <1>2, <2>1, <3>1 DEF SelectableWorker
  <2>3. marked = [dev EXCEPT !.workerIDsSeen = seen]
    BY <2>1 DEF SelectableDevice
  <2> HIDE DEF seen, marked
  <2>4. /\ marked \in SelectableDevice(Seen(dev))
        /\ marked.workerIDsSeen = seen
        /\ marked.availableWorkers = dev.availableWorkers
        /\ marked.workersInUse = dev.workersInUse
        /\ marked.weightUsed = dev.weightUsed
        /\ marked.currentWeight = dev.currentWeight
    BY <2>1, <2>2, <2>3 DEF SelectableDevice
  <2>5. Seen(marked) = Seen(dev)
    BY <2>2, <2>4 DEF Seen
  <2>6. \A x \in Seen(dev) : seen[x].assignedWeight = dev.workerIDsSeen[x].assignedWeight
    BY <2>2
  <2>7. CountersAgree(marked)
    <3>1. Assigned(marked) = Assigned(dev)
      BY <2>4, <2>5, <2>6 DEF Assigned
    <3>2. \A k \in Weights : AssignedAt(marked, k) = AssignedAt(dev, k)
      BY <2>4, <2>5, <2>6 DEF AssignedAt
    <3> QED BY <2>4, <3>1, <3>2 DEF CountersAgree, DeviceInv
  <2>8. seen[id].assignedWeight > 0 => id \notin Range(dev.availableWorkers)
    BY <1>2, <2>2 DEF DeviceInv, QueueSound
  <2>9. /\ IsDevice(marked)
        /\ IsFiniteSet(Seen(marked))
        /\ IsInjective(marked.availableWorkers)
    BY <2>1, <2>4, <2>5 DEF IsDevice, DeviceInv, QueueSound
  <2>10. /\ IsDevice(after)
         /\ after.workerIDsSeen = [seen EXCEPT ![id].assignedWeight = 0]
         /\ CountersAgree(after)
         /\ IsInjective(after.availableWorkers)
         /\ Range(after.availableWorkers) = Range(dev.availableWorkers) \ {id}
    BY <1>2, <2>4, <2>5, <2>7, <2>8, <2>9, RemoveWorkerProperties
  <2> HIDE DEF after
  <2>11. /\ Seen(after) = Seen(dev)
         /\ \A x \in Seen(dev) \ {id} : after.workerIDsSeen[x] = dev.workerIDsSeen[x]
         /\ after.workerIDsSeen[id].assignedWeight = 0
         /\ after.workerIDsSeen[id].lastUnavailable = t
         /\ after.workerIDsSeen[id].worker = c
    BY <1>2, <2>2, <2>10 DEF Seen, SelectableWorker
  <2>12. QueueSound(after)
    <3>1. Range(after.availableWorkers) \subseteq Seen(after)
      BY <2>10, <2>11 DEF DeviceInv, QueueSound
    <3>2. ASSUME NEW x \in Seen(after)
          PROVE  /\ after.workerIDsSeen[x].assignedWeight > 0 =>
                      after.workerIDsSeen[x].lastUnavailable = ZeroTime
                 /\ x \in Range(after.availableWorkers) <=>
                      /\ after.workerIDsSeen[x].assignedWeight = 0
                      /\ after.workerIDsSeen[x].lastUnavailable = ZeroTime
      <4>1. CASE x = id
        BY <2>10, <2>11, <4>1 DEF ZeroTime
      <4>2. CASE x # id
        BY <2>10, <2>11, <3>2, <4>2 DEF DeviceInv, QueueSound
      <4> QED BY <4>1, <4>2
    <3> QED BY <2>10, <3>1, <3>2 DEF QueueSound
  <2>13. \A x \in Seen(after) : /\ IDOf[after.workerIDsSeen[x].worker] = x
                                /\ DeviceOf[after.workerIDsSeen[x].worker] = d
    <3>1. IDOf[c] = id /\ DeviceOf[c] = d
      BY <1>2 DEF DeviceInv
    <3>2. ASSUME NEW x \in Seen(after)
          PROVE  /\ IDOf[after.workerIDsSeen[x].worker] = x
                 /\ DeviceOf[after.workerIDsSeen[x].worker] = d
      <4>1. CASE x = id
        BY <2>11, <3>1, <4>1
      <4>2. CASE x # id
        BY <2>11, <3>2, <4>2 DEF DeviceInv
      <4> QED BY <4>1, <4>2
    <3> QED BY <3>2
  <2>14. WithdrawWorker(dev, c, t) = after
    BY <1>2 DEF WithdrawWorker, Seen, after, marked
  <2>15. SlotState(dev, id).worker = c
    BY <1>2 DEF SlotState
  <2>16. ASSUME NEW x
         PROVE  SlotState(after, x) = IF x = id THEN [state |-> "away", worker |-> c]
                                      ELSE SlotState(dev, x)
    BY <1>2, <2>11 DEF SlotState, ZeroTime
  <2>17. DeviceInv(after, d)
    BY <2>10, <2>11, <2>12, <2>13 DEF DeviceInv
  <2> QED BY <2>14, <2>15, <2>16, <2>17
<1> QED BY <1>1, <1>2

\* The pruned history is a history.
LEMMA RecentSelectionsType ==
  ASSUME NEW history \in Seq(Nat), NEW cfg \in RateLimits, NEW t \in Nat
  PROVE  RecentSelections(history, cfg, t) \in Seq(Nat)
<1> DEFINE recent == {i \in DOMAIN history : history[i] > t - cfg.Duration}
<1>1. recent \subseteq Nat
  OBVIOUS
<1>2. CASE recent = {}
  BY <1>2 DEF RecentSelections
<1>3. CASE recent # {}
  <2>1. Min(recent) \in recent
    <3> HIDE DEF recent
    <3> QED BY <1>1, <1>3, MinProperties
  <2>2. \A i \in Min(recent)..Len(history) : history[i] \in Nat
    BY <2>1
  <2>3. SubSeq(history, Min(recent), Len(history)) \in Seq(Nat)
    BY <2>1, <2>2, SubSeqProperties
  <2> QED BY <1>3, <2>3 DEF RecentSelections
<1> QED BY <1>2, <1>3

\* A change that leaves a device's workers and load alone keeps its records sound.
LEMMA SameWorkersInv ==
  ASSUME NEW d, NEW dev, DeviceInv(dev, d), NEW after, IsDevice(after),
         after.availableWorkers = dev.availableWorkers,
         after.workerIDsSeen = dev.workerIDsSeen,
         after.workersInUse = dev.workersInUse,
         after.weightUsed = dev.weightUsed,
         after.currentWeight = dev.currentWeight
  PROVE  DeviceInv(after, d)
<1>1. Seen(after) = Seen(dev) /\ Assigned(after) = Assigned(dev)
  BY DEF Seen, Assigned
<1>2. \A k \in Weights : AssignedAt(after, k) = AssignedAt(dev, k)
  BY DEF AssignedAt, Seen
<1>3. CountersAgree(after)
  BY <1>1, <1>2 DEF DeviceInv, CountersAgree
<1>4. QueueSound(after)
  BY <1>1 DEF DeviceInv, QueueSound
<1> QED BY <1>1, <1>3, <1>4 DEF DeviceInv

\* EnableDevice and DisableDevice keep a device's records sound.
LEMMA EnabledInv ==
  ASSUME NEW d, NEW dev, DeviceInv(dev, d), NEW enabled \in BOOLEAN
  PROVE  DeviceInv([dev EXCEPT !.selectionEnabled = enabled], d)
<1> DEFINE after == [dev EXCEPT !.selectionEnabled = enabled]
<1>1. dev \in SelectableDevice(Seen(dev)) /\ Seen(dev) \subseteq WorkerIDs
  BY DeviceShape DEF DeviceInv
<1>2. /\ after \in SelectableDevice(Seen(dev))
      /\ after.availableWorkers = dev.availableWorkers
      /\ after.workerIDsSeen = dev.workerIDsSeen
      /\ after.workersInUse = dev.workersInUse
      /\ after.weightUsed = dev.weightUsed
      /\ after.currentWeight = dev.currentWeight
  BY <1>1 DEF SelectableDevice
<1>3. IsDevice(after)
  BY <1>1, <1>2 DEF IsDevice
<1> HIDE DEF after
<1> QED BY <1>2, <1>3, SameWorkersInv DEF after

\* Pruning a device's selection history keeps its records sound.
LEMMA PruneHistoryInv ==
  ASSUME NEW d, NEW dev, DeviceInv(dev, d), NEW cfg \in RateLimits, NEW t \in Nat
  PROVE  DeviceInv(PruneHistory(dev, cfg, t), d)
<1> DEFINE history == RecentSelections(dev.selectionHistory, cfg, t)
           after == [dev EXCEPT !.selectionHistory = history]
<1>1. dev \in SelectableDevice(Seen(dev)) /\ Seen(dev) \subseteq WorkerIDs
  BY DeviceShape DEF DeviceInv
<1>2. history \in Seq(Nat)
  BY DeviceFields, RecentSelectionsType DEF DeviceInv
<1>3. PruneHistory(dev, cfg, t) = after
  BY DEF PruneHistory
<1> HIDE DEF history
<1>4. /\ after \in SelectableDevice(Seen(dev))
      /\ after.availableWorkers = dev.availableWorkers
      /\ after.workerIDsSeen = dev.workerIDsSeen
      /\ after.workersInUse = dev.workersInUse
      /\ after.weightUsed = dev.weightUsed
      /\ after.currentWeight = dev.currentWeight
  BY <1>1, <1>2 DEF SelectableDevice
<1>5. IsDevice(after)
  BY <1>1, <1>4 DEF IsDevice
<1> HIDE DEF after
<1> QED BY <1>3, <1>4, <1>5, SameWorkersInv

\* The pruner forgets only workers that are neither queued nor assigned.
LEMMA PruneSeenInv ==
  ASSUME NEW d, NEW dev, DeviceInv(dev, d), NEW t \in Nat
  PROVE  /\ DeviceInv(PruneSeen(dev, t), d)
         /\ \A x : \/ SlotState(PruneSeen(dev, t), x) = SlotState(dev, x)
                  \/ /\ SlotState(dev, x).state = "away"
                     /\ SlotState(PruneSeen(dev, t), x) = Lease!Unknown
<1> DEFINE stale == {id \in Seen(dev) :
                       /\ dev.workerIDsSeen[id].lastUnavailable # ZeroTime
                       /\ t - dev.workerIDsSeen[id].lastUnavailable >= PruneAge}
           keep == Seen(dev) \ stale
           seen == [id \in keep |-> dev.workerIDsSeen[id]]
           after == [dev EXCEPT !.workerIDsSeen = seen]
<1>1. /\ dev \in SelectableDevice(Seen(dev))
      /\ Seen(dev) \subseteq WorkerIDs
      /\ dev.workerIDsSeen \in [Seen(dev) -> SelectableWorker]
  BY DeviceShape, DeviceFields DEF DeviceInv
<1>2. PruneSeen(dev, t) = after
  BY <1>1 DEF PruneSeen, Seen, SelectableDevice
<1>3. /\ keep \subseteq Seen(dev)
      /\ \A id \in Seen(dev) : dev.workerIDsSeen[id].lastUnavailable = ZeroTime => id \in keep
  OBVIOUS
<1> HIDE DEF stale, keep
<1>4. seen \in [keep -> SelectableWorker] /\ DOMAIN seen = keep
  BY <1>1, <1>3
<1>5. \A id \in keep : seen[id] = dev.workerIDsSeen[id]
  OBVIOUS
<1> HIDE DEF seen
<1>6. /\ after \in SelectableDevice(keep)
      /\ after.workerIDsSeen = seen
      /\ after.availableWorkers = dev.availableWorkers
      /\ after.workersInUse = dev.workersInUse
      /\ after.weightUsed = dev.weightUsed
      /\ after.currentWeight = dev.currentWeight
  BY <1>1, <1>4 DEF SelectableDevice
<1> HIDE DEF after
<1>7. Seen(after) = keep
  BY <1>4, <1>6 DEF Seen
<1>8. IsDevice(after) /\ IsFiniteSet(Seen(after))
  BY <1>1, <1>3, <1>6, <1>7, FS_Subset DEF IsDevice, DeviceInv
<1>9. \A id \in Seen(dev) :
        dev.workerIDsSeen[id].assignedWeight > 0 =>
          dev.workerIDsSeen[id].lastUnavailable = ZeroTime
  BY DEF DeviceInv, QueueSound
<1>10. Assigned(after) = Assigned(dev)
  BY <1>3, <1>5, <1>6, <1>7, <1>9 DEF Assigned
<1>11. ASSUME NEW k \in Weights PROVE AssignedAt(after, k) = AssignedAt(dev, k)
  <2>1. k > 0
    BY DEF Weights, MinimumWeight
  <2> QED BY <1>3, <1>5, <1>6, <1>7, <1>9, <2>1 DEF AssignedAt
<1>12. CountersAgree(after)
  BY <1>6, <1>10, <1>11 DEF DeviceInv, CountersAgree
<1>13. QueueSound(after)
  <2>1. Range(after.availableWorkers) \subseteq Seen(after)
    BY <1>3, <1>6, <1>7 DEF DeviceInv, QueueSound
  <2> QED BY <1>3, <1>5, <1>6, <1>7, <2>1 DEF DeviceInv, QueueSound
<1>14. \A id \in Seen(after) : /\ IDOf[after.workerIDsSeen[id].worker] = id
                               /\ DeviceOf[after.workerIDsSeen[id].worker] = d
  BY <1>3, <1>5, <1>6, <1>7 DEF DeviceInv
<1>15. ASSUME NEW x
       PROVE  \/ SlotState(after, x) = SlotState(dev, x)
              \/ /\ SlotState(dev, x).state = "away"
                 /\ SlotState(after, x) = Lease!Unknown
  <2>1. CASE x \in keep \/ x \notin Seen(dev)
    BY <1>3, <1>5, <1>6, <1>7, <2>1 DEF SlotState
  <2>2. CASE x \in Seen(dev) \ keep
    BY <1>3, <1>7, <1>9, <2>2 DEF SlotState, Lease!Unknown
  <2> QED BY <2>1, <2>2
<1>16. DeviceInv(after, d)
  BY <1>8, <1>12, <1>13, <1>14 DEF DeviceInv
<1> QED BY <1>2, <1>15, <1>16

\* A claim moves the head of the queue, a worker that is known and free, to the
\* assigned ones and counts it once.
LEMMA ClaimInv ==
  ASSUME NEW d, NEW dev, DeviceInv(dev, d), dev.availableWorkers # <<>>,
         NEW weight \in Weights, NEW cfg \in RateLimits, NEW t \in Nat
  PROVE  /\ DeviceInv(ClaimWorkerFromDevice(dev, weight, cfg, t), d)
         /\ Head(dev.availableWorkers) \in WorkerIDs
         /\ SlotState(dev, Head(dev.availableWorkers)).state = "free"
         /\ \A x : SlotState(ClaimWorkerFromDevice(dev, weight, cfg, t), x) =
                    IF x = Head(dev.availableWorkers)
                    THEN [state |-> "leased", worker |-> SlotState(dev, x).worker]
                    ELSE SlotState(dev, x)
<1> DEFINE id == Head(dev.availableWorkers)
           queue == Tail(dev.availableWorkers)
           history == Append(RecentSelections(dev.selectionHistory, cfg, t), t)
           seen == [dev.workerIDsSeen EXCEPT ![id].assignedWeight = weight]
           used == [dev.weightUsed EXCEPT ![weight] = @ + 1]
           after == [dev EXCEPT !.availableWorkers = queue,
                                !.workersInUse = @ + 1,
                                !.weightUsed = used,
                                !.currentWeight = @ + weight,
                                !.lastSelectionTime = t,
                                !.selectionHistory = history,
                                !.workerIDsSeen = seen]
<1>1. /\ dev \in SelectableDevice(Seen(dev))
      /\ Seen(dev) \subseteq WorkerIDs
      /\ dev.availableWorkers \in Seq(WorkerIDs)
      /\ dev.workerIDsSeen \in [Seen(dev) -> SelectableWorker]
      /\ dev.workersInUse \in Int
      /\ dev.weightUsed \in [Weights -> Int]
      /\ dev.currentWeight \in Int
      /\ dev.selectionHistory \in Seq(Nat)
  BY DeviceShape, DeviceFields DEF DeviceInv
<1>2. ClaimWorkerFromDevice(dev, weight, cfg, t) = after
  BY <1>1 DEF ClaimWorkerFromDevice, SelectableDevice
<1>3. /\ id \in Range(dev.availableWorkers)
      /\ queue \in Seq(WorkerIDs)
      /\ IsInjective(queue)
      /\ Range(queue) = Range(dev.availableWorkers) \ {id}
  BY <1>1, TailProperties DEF DeviceInv, QueueSound
<1>4. history \in Seq(Nat)
  BY <1>1, RecentSelectionsType
<1>5. /\ id \in Seen(dev)
      /\ dev.workerIDsSeen[id].assignedWeight = 0
      /\ dev.workerIDsSeen[id].lastUnavailable = ZeroTime
  BY <1>3 DEF DeviceInv, QueueSound
<1> HIDE DEF id, queue, history
<1>6. /\ weight \in 0..MaximumWeight
      /\ weight > 0
      /\ weight \in Int
  BY DEF Weights, MinimumWeight, MaximumWeight
<1>7. /\ seen \in [Seen(dev) -> SelectableWorker]
      /\ DOMAIN seen = Seen(dev)
      /\ \A x \in Seen(dev) \ {id} : seen[x] = dev.workerIDsSeen[x]
      /\ seen[id].assignedWeight = weight
      /\ seen[id].lastUnavailable = dev.workerIDsSeen[id].lastUnavailable
      /\ seen[id].worker = dev.workerIDsSeen[id].worker
  <2>1. [dev.workerIDsSeen[id] EXCEPT !.assignedWeight = weight] \in SelectableWorker
    <3>1. dev.workerIDsSeen[id] \in SelectableWorker
      BY <1>1, <1>5
    <3> QED BY <1>6, <3>1 DEF SelectableWorker
  <2> QED BY <1>1, <1>5, <2>1 DEF SelectableWorker
<1>8. used \in [Weights -> Int] /\ dev.workersInUse + 1 \in Int /\ dev.currentWeight + weight \in Int
  BY <1>1, <1>6
<1>9. \A k \in Weights : used[k] = IF k = weight THEN dev.weightUsed[k] + 1 ELSE dev.weightUsed[k]
  BY <1>1
<1>10. WeightSum(used) = WeightSum(dev.weightUsed) + weight
  BY <1>1, WeightSumUpdate
<1> HIDE DEF seen, used
<1>11. /\ after \in SelectableDevice(Seen(dev))
       /\ after.workerIDsSeen = seen
       /\ after.availableWorkers = queue
       /\ after.workersInUse = dev.workersInUse + 1
       /\ after.weightUsed = used
       /\ after.currentWeight = dev.currentWeight + weight
  BY <1>1, <1>3, <1>4, <1>7, <1>8 DEF SelectableDevice
<1> HIDE DEF after
<1>12. Seen(after) = Seen(dev)
  BY <1>7, <1>11 DEF Seen
<1>13. IsDevice(after) /\ IsFiniteSet(Seen(after))
  BY <1>1, <1>11, <1>12 DEF IsDevice, DeviceInv
<1>14. CountersAgree(after)
  <2>1. /\ Assigned(after) = Assigned(dev) \cup {id}
        /\ id \notin Assigned(dev)
        /\ IsFiniteSet(Assigned(dev))
    <3>1. IsFiniteSet(Assigned(dev))
      BY FS_Subset DEF Assigned, DeviceInv
    <3> QED BY <1>5, <1>6, <1>7, <1>11, <1>12, <3>1 DEF Assigned
  <2>2. after.workersInUse = Cardinality(Assigned(after))
    <3>1. dev.workersInUse = Cardinality(Assigned(dev))
      BY DEF DeviceInv, CountersAgree
    <3>2. Cardinality(Assigned(dev) \cup {id}) = Cardinality(Assigned(dev)) + 1
      BY <2>1, FS_AddElement
    <3> QED
      BY <1>11, <2>1, <3>1, <3>2
  <2>3. ASSUME NEW k \in Weights
        PROVE  after.weightUsed[k] = Cardinality(AssignedAt(after, k))
    <3>1. k > 0
      BY DEF Weights, MinimumWeight
    <3>2. IsFiniteSet(AssignedAt(dev, k)) /\ id \notin AssignedAt(dev, k)
      BY <1>5, <3>1, FS_Subset DEF AssignedAt, DeviceInv
    <3>3. dev.weightUsed[k] = Cardinality(AssignedAt(dev, k))
      BY DEF DeviceInv, CountersAgree
    <3>4. CASE k = weight
      <4>1. AssignedAt(after, k) = AssignedAt(dev, k) \cup {id}
        BY <1>5, <1>7, <1>11, <1>12, <3>4 DEF AssignedAt
      <4>2. Cardinality(AssignedAt(after, k)) = Cardinality(AssignedAt(dev, k)) + 1
        BY <3>2, <4>1, FS_AddElement
      <4> QED BY <1>9, <1>11, <3>3, <3>4, <4>2
    <3>5. CASE k # weight
      <4>1. AssignedAt(after, k) = AssignedAt(dev, k)
        BY <1>5, <1>7, <1>11, <1>12, <3>1, <3>5 DEF AssignedAt
      <4> QED BY <1>9, <1>11, <3>3, <3>5, <4>1
    <3> QED BY <3>4, <3>5
  <2>4. after.currentWeight = WeightSum(after.weightUsed)
    BY <1>10, <1>11 DEF DeviceInv, CountersAgree
  <2> QED BY <2>2, <2>3, <2>4 DEF CountersAgree
<1>15. QueueSound(after)
  <2>1. Range(queue) \subseteq Seen(after)
    BY <1>3, <1>12 DEF DeviceInv, QueueSound
  <2>2. ASSUME NEW x \in Seen(after)
        PROVE  /\ seen[x].assignedWeight > 0 => seen[x].lastUnavailable = ZeroTime
               /\ x \in Range(queue) <=>
                    seen[x].assignedWeight = 0 /\ seen[x].lastUnavailable = ZeroTime
    <3>1. CASE x = id
      BY <1>3, <1>5, <1>6, <1>7, <3>1
    <3>2. CASE x # id
      BY <1>3, <1>7, <1>12, <2>2, <3>2 DEF DeviceInv, QueueSound
    <3> QED BY <3>1, <3>2
  <2> QED BY <1>3, <1>11, <2>1, <2>2 DEF QueueSound
<1>16. ASSUME NEW x \in Seen(after)
       PROVE  /\ IDOf[after.workerIDsSeen[x].worker] = x
              /\ DeviceOf[after.workerIDsSeen[x].worker] = d
  <2>1. seen[x].worker = dev.workerIDsSeen[x].worker
    BY <1>7, <1>12, <1>16
  <2> QED BY <1>11, <1>12, <1>16, <2>1 DEF DeviceInv
<1>17. DeviceInv(after, d)
  BY <1>13, <1>14, <1>15, <1>16 DEF DeviceInv
<1>18. SlotState(dev, id).state = "free"
  BY <1>5 DEF SlotState
<1>19. ASSUME NEW x
       PROVE  SlotState(after, x) =
                IF x = id THEN [state |-> "leased", worker |-> SlotState(dev, x).worker]
                ELSE SlotState(dev, x)
  BY <1>5, <1>6, <1>7, <1>11, <1>12 DEF SlotState
<1>20. id \in WorkerIDs
  BY <1>1, <1>5
<1> QED BY <1>2, <1>17, <1>18, <1>19, <1>20 DEF id

-----------------------------------------------------------------------------
(* The inductive invariant. *)

\* What SelectorInv says of a map of devices.
DevicesInv(devs) ==
  /\ DOMAIN devs \subseteq DeviceIDs
  /\ \A d \in DOMAIN devs : DeviceInv(devs[d], d)

\* The inductive invariant, split into its part about the map and the rest.
LEMMA SelectorInvShape ==
  SelectorInv <=> /\ DevicesInv(devices)
                  /\ rateLimit \in RateLimits
                  /\ now \in Nat \ {ZeroTime}
BY DEF SelectorInv, TypeOK, DevicesInv, DeviceInv

\* A map assignment of a sound device keeps the map sound.
LEMMA MapPutInv ==
  ASSUME NEW devs, DevicesInv(devs), NEW d \in DeviceIDs, NEW dev, DeviceInv(dev, d)
  PROVE  DevicesInv(MapPut(devs, d, dev))
BY DEF DevicesInv, MapPut

\* SetWorkerAvailable keeps the map sound.
LEMMA SetWorkerAvailableInv ==
  ASSUME NEW devs, DevicesInv(devs), NEW c \in Workers
  PROVE  DevicesInv(AfterSetWorkerAvailable(devs, c))
<1> DEFINE d == DeviceOf[c]
           dev == IF d \in DOMAIN devs THEN devs[d] ELSE NewDevice(TRUE)
<1>1. d \in DeviceIDs
  BY WorkersAssumption
<1>2. DeviceInv(dev, d)
  BY NewDeviceInv DEF DevicesInv
<1>3. DeviceInv(OfferWorker(dev, c), d)
  BY <1>2, OfferWorkerInv
<1>4. AfterSetWorkerAvailable(devs, c) = MapPut(devs, d, OfferWorker(dev, c))
  BY DEF AfterSetWorkerAvailable
<1> HIDE DEF d, dev
<1> QED BY <1>1, <1>3, <1>4, MapPutInv

\* SetWorkerUnavailable keeps the map sound.
LEMMA SetWorkerUnavailableInv ==
  ASSUME NEW devs, DevicesInv(devs), NEW c \in Workers, NEW t \in Nat \ {ZeroTime}
  PROVE  DevicesInv(AfterSetWorkerUnavailable(devs, c, t))
BY WithdrawWorkerInv DEF AfterSetWorkerUnavailable, DevicesInv

\* EnableDevice keeps the map sound.
LEMMA EnableDeviceInv ==
  ASSUME NEW devs, DevicesInv(devs), NEW id \in DeviceIDs
  PROVE  DevicesInv(AfterEnableDevice(devs, id))
BY EnabledInv DEF AfterEnableDevice, DevicesInv

\* DisableDevice keeps the map sound, also when it adds the device.
LEMMA DisableDeviceInv ==
  ASSUME NEW devs, DevicesInv(devs), NEW id \in DeviceIDs
  PROVE  DevicesInv(AfterDisableDevice(devs, id))
<1>1. CASE id \in DOMAIN devs
  <2>1. DeviceInv([devs[id] EXCEPT !.selectionEnabled = FALSE], id)
    BY <1>1, EnabledInv DEF DevicesInv
  <2> QED BY <1>1, <2>1 DEF AfterDisableDevice, DevicesInv
<1>2. CASE id \notin DOMAIN devs
  BY <1>2, NewDeviceInv, MapPutInv DEF AfterDisableDevice
<1> QED BY <1>1, <1>2

\* RemoveDeadDevice keeps the map sound.
LEMMA RemoveDeadDeviceInv ==
  ASSUME NEW devs, DevicesInv(devs), NEW id \in DeviceIDs
  PROVE  DevicesInv(AfterRemoveDeadDevice(devs, id))
BY DEF AfterRemoveDeadDevice, DevicesInv

\* PruneWorkerIDsSeen keeps the map sound.
LEMMA PruneWorkerIDsSeenInv ==
  ASSUME NEW devs, DevicesInv(devs), NEW t \in Nat
  PROVE  DevicesInv(AfterPruneWorkerIDsSeen(devs, t))
BY PruneSeenInv DEF AfterPruneWorkerIDsSeen, DevicesInv

\* Asking whether devices are rate limited keeps the map sound and every queue as it is.
LEMMA RateCheckInv ==
  ASSUME NEW devs, DevicesInv(devs), NEW cfg \in RateLimits, NEW t \in Nat
  PROVE  /\ DevicesInv(AfterRateCheck(devs, cfg, t))
         /\ DOMAIN AfterRateCheck(devs, cfg, t) = DOMAIN devs
         /\ \A d \in DOMAIN devs :
              AfterRateCheck(devs, cfg, t)[d].availableWorkers = devs[d].availableWorkers
<1>1. ASSUME NEW d \in DOMAIN devs
      PROVE  PruneHistory(devs[d], cfg, t).availableWorkers = devs[d].availableWorkers
  <2>1. devs[d] \in SelectableDevice(Seen(devs[d]))
    BY DeviceShape DEF DevicesInv, DeviceInv
  <2> QED BY <2>1 DEF PruneHistory, SelectableDevice
<1> QED BY <1>1, PruneHistoryInv DEF AfterRateCheck, DevicesInv

\* A clamped weight is a weight.
LEMMA ClampWeightType ==
  ASSUME NEW w \in Int
  PROVE  ClampWeight(w) \in Weights
BY DEF ClampWeight, Weights, MinimumWeight, MaximumWeight, DefaultWeight

\* GetAvailableWorker keeps the map sound.
LEMMA AfterClaimInv ==
  ASSUME NEW devs, DevicesInv(devs), NEW cfg \in RateLimits, NEW t \in Nat,
         NEW weight \in Weights, NEW d \in Eligible(devs, cfg, t)
  PROVE  DevicesInv(AfterClaim(devs, d, weight, cfg, t))
<1> DEFINE checked == AfterRateCheck(devs, cfg, t)
<1>1. d \in DOMAIN devs /\ devs[d].availableWorkers # <<>>
  BY DEF Eligible, Candidate
<1>2. /\ DevicesInv(checked)
      /\ DOMAIN checked = DOMAIN devs
      /\ checked[d].availableWorkers # <<>>
  BY <1>1, RateCheckInv
<1> HIDE DEF checked
<1>3. DeviceInv(ClaimWorkerFromDevice(checked[d], weight, cfg, t), d)
  BY <1>1, <1>2, ClaimInv DEF DevicesInv
<1>4. DevicesInv([checked EXCEPT ![d] = ClaimWorkerFromDevice(@, weight, cfg, t)])
  BY <1>1, <1>2, <1>3 DEF DevicesInv
<1> QED BY <1>4 DEF AfterClaim, checked

\* The inductive invariant holds initially.
LEMMA InitInv == Init => SelectorInv
<1> SUFFICES ASSUME Init PROVE SelectorInv
  OBVIOUS
<1>1. DevicesInv(devices)
  BY DEF Init, DevicesInv
<1> QED BY <1>1, SelectorInvShape DEF Init, ZeroTime

\* Every step keeps the inductive invariant, one case per operation.
LEMMA StepInv == SelectorInv /\ [Next]_vars => SelectorInv'
<1> SUFFICES ASSUME SelectorInv, [Next]_vars
             PROVE  /\ DevicesInv(devices')
                    /\ rateLimit' \in RateLimits
                    /\ now' \in Nat \ {ZeroTime}
  BY DEF SelectorInv, TypeOK, DevicesInv, DeviceInv
<1>1. /\ DevicesInv(devices)
      /\ rateLimit \in RateLimits
      /\ now \in Nat \ {ZeroTime}
  BY SelectorInvShape
<1>2. CASE UNCHANGED vars
  BY <1>1, <1>2 DEF vars
<1>3. ASSUME NEW c \in Workers, SetWorkerAvailable(c)
      PROVE  DevicesInv(devices') /\ UNCHANGED <<rateLimit, now>>
  BY <1>1, <1>3, SetWorkerAvailableInv DEF SetWorkerAvailable
<1>4. ASSUME NEW c \in Workers, SetWorkerUnavailable(c)
      PROVE  DevicesInv(devices') /\ UNCHANGED <<rateLimit, now>>
  BY <1>1, <1>4, SetWorkerUnavailableInv DEF SetWorkerUnavailable
<1>5. ASSUME NEW d \in DeviceIDs, EnableDevice(d)
      PROVE  DevicesInv(devices') /\ UNCHANGED <<rateLimit, now>>
  BY <1>1, <1>5, EnableDeviceInv DEF EnableDevice
<1>6. ASSUME NEW d \in DeviceIDs, DisableDevice(d)
      PROVE  DevicesInv(devices') /\ UNCHANGED <<rateLimit, now>>
  BY <1>1, <1>6, DisableDeviceInv DEF DisableDevice
<1>7. ASSUME NEW d \in DeviceIDs, RemoveDeadDevice(d)
      PROVE  DevicesInv(devices') /\ UNCHANGED <<rateLimit, now>>
  BY <1>1, <1>7, RemoveDeadDeviceInv DEF RemoveDeadDevice
<1>8. ASSUME RefuseWorker
      PROVE  DevicesInv(devices') /\ UNCHANGED <<rateLimit, now>>
  BY <1>1, <1>8, RateCheckInv DEF RefuseWorker
<1>9. ASSUME PruneWorkerIDsSeen
      PROVE  DevicesInv(devices') /\ UNCHANGED <<rateLimit, now>>
  BY <1>1, <1>9, PruneWorkerIDsSeenInv DEF PruneWorkerIDsSeen
<1>10. ASSUME NEW requested \in RequestedWeights, NEW d \in DeviceIDs,
              SelectWorker(requested, d)
       PROVE  DevicesInv(devices') /\ UNCHANGED <<rateLimit, now>>
  <2>1. ClampWeight(requested) \in Weights
    BY WeightsAssumption, ClampWeightType
  <2>2. d \in Eligible(devices, rateLimit, now)
    BY <1>10 DEF SelectWorker, BestDevices
  <2> QED BY <1>1, <1>10, <2>1, <2>2, AfterClaimInv DEF SelectWorker
<1>11. ASSUME NEW cfg \in RateLimits, PutSettings(cfg)
       PROVE  devices' = devices /\ rateLimit' \in RateLimits /\ now' = now
  BY <1>11 DEF PutSettings
<1>12. ASSUME Tick
       PROVE  devices' = devices /\ rateLimit' = rateLimit /\ now' \in Nat \ {ZeroTime}
  BY <1>1, <1>12 DEF Tick, ZeroTime
<1> QED
  BY <1>1, <1>2, <1>3, <1>4, <1>5, <1>6, <1>7, <1>8, <1>9, <1>10, <1>11, <1>12
     DEF Next, Upkeep

\* The inductive invariant holds in every reachable state.
THEOREM SelectorInvariant == Spec => []SelectorInv
BY InitInv, StepInv, PTL DEF Spec

\* Every variable keeps the type of the Go field it stands for.
THEOREM TypeCorrect == Spec => []TypeOK
<1>1. SelectorInv => TypeOK
  BY DEF SelectorInv
<1> QED BY <1>1, SelectorInvariant, PTL

\* The load counters kept by hand agree with the weights assigned to the workers.
THEOREM LoadAccounting == Spec => []CountersMatch
<1>1. SelectorInv => CountersMatch
  BY DEF SelectorInv, DeviceInv, CountersMatch
<1> QED BY <1>1, SelectorInvariant, PTL

\* A known worker is queued once, or assigned, or away, and never two of these.
THEOREM WorkersInOnePlace == Spec => []OnePlace
<1>1. SelectorInv => OnePlace
  BY DEF SelectorInv, DeviceInv, OnePlace
<1> QED BY <1>1, SelectorInvariant, PTL

\* A device is never given more weight than ten times the workers it is known
\* to have: its assigned workers, taken weight by weight, are all different.
LEMMA LoadBound ==
  ASSUME NEW d, NEW dev, DeviceInv(dev, d)
  PROVE  dev.currentWeight <= MaximumWeight * Cardinality(Seen(dev))
<1> DEFINE upTo(k) == {id \in Seen(dev) : /\ dev.workerIDsSeen[id].assignedWeight > 0
                                          /\ dev.workerIDsSeen[id].assignedWeight <= k}
           size(k) == Cardinality(upTo(k))
           n == dev.weightUsed
<1>1. /\ IsFiniteSet(Seen(dev))
      /\ \A id \in Seen(dev) : dev.workerIDsSeen[id].assignedWeight \in 0..10
  BY DeviceFields DEF DeviceInv, SelectableWorker, MaximumWeight
<1>2. \A k : IsFiniteSet(upTo(k)) /\ size(k) \in Nat
  BY <1>1, FS_Subset, FS_CardinalityType
<1>3. ASSUME NEW k \in Weights
      PROVE  size(k) = size(k - 1) + n[k] /\ n[k] \in Nat
  <2>1. k \in 1..10
    BY DEF Weights, MinimumWeight, MaximumWeight
  <2>2. /\ upTo(k) = upTo(k - 1) \cup AssignedAt(dev, k)
        /\ upTo(k - 1) \cap AssignedAt(dev, k) = {}
    BY <1>1, <2>1 DEF AssignedAt
  <2>3. IsFiniteSet(AssignedAt(dev, k)) /\ n[k] = Cardinality(AssignedAt(dev, k))
    BY <1>1, FS_Subset DEF AssignedAt, DeviceInv, CountersAgree
  <2>4. Cardinality(AssignedAt(dev, k)) \in Nat
    BY <2>3, FS_CardinalityType
  <2>5. IsFiniteSet(upTo(k - 1)) /\ size(k - 1) \in Nat
    BY <1>2
  <2> HIDE DEF upTo
  <2>6. Cardinality(upTo(k - 1) \cup AssignedAt(dev, k))
          = Cardinality(upTo(k - 1)) + Cardinality(AssignedAt(dev, k)) - Cardinality({})
    BY <2>2, <2>3, <2>5, FS_Union
  <2> QED BY <2>2, <2>3, <2>4, <2>5, <2>6, FS_EmptySet
<1>4. size(0) = 0
  <2>1. upTo(0) = {}
    BY <1>1
  <2> QED BY <2>1, FS_EmptySet
<1>5. size(10) <= Cardinality(Seen(dev)) /\ Cardinality(Seen(dev)) \in Nat
  BY <1>1, FS_Subset, FS_CardinalityType
<1> HIDE DEF upTo, size, n
<1>6. n \in [Weights -> Nat]
  <2>1. n \in [Weights -> Int]
    BY DeviceFields DEF DeviceInv, n
  <2> QED BY <1>3, <2>1
<1>7. /\ size(1) = size(0) + n[1] /\ size(2) = size(1) + n[2] /\ size(3) = size(2) + n[3]
      /\ size(4) = size(3) + n[4] /\ size(5) = size(4) + n[5] /\ size(6) = size(5) + n[6]
      /\ size(7) = size(6) + n[7] /\ size(8) = size(7) + n[8] /\ size(9) = size(8) + n[9]
      /\ size(10) = size(9) + n[10]
  BY <1>3 DEF Weights, MinimumWeight, MaximumWeight
<1>8. n[1] + n[2] + n[3] + n[4] + n[5] + n[6] + n[7] + n[8] + n[9] + n[10] = size(10)
  BY <1>3, <1>4, <1>7 DEF Weights, MinimumWeight, MaximumWeight
<1>9. WeightSum(n) \in Nat /\ WeightSum(n) <= MaximumWeight * size(10)
  BY <1>6, <1>8, WeightSumBound
<1>10. dev.currentWeight = WeightSum(n)
  BY DEF DeviceInv, CountersAgree, n
<1>11. size(10) \in Nat
  BY <1>2
<1> QED BY <1>5, <1>9, <1>10, <1>11 DEF MaximumWeight

\* No device is ever overcommitted.
THEOREM NeverOvercommitted == Spec => []NoOvercommit
<1>1. SelectorInv => NoOvercommit
  BY LoadBound DEF SelectorInv, NoOvercommit
<1> QED BY <1>1, SelectorInvariant, PTL

-----------------------------------------------------------------------------
(* The refinement of WorkerLease. *)

\* The abstract state that a map of devices stands for.
LeaseMap(devs) == [s \in DeviceIDs \X WorkerIDs |-> LeaseIn(devs, s[1], s[2])]

\* Leases depend only on which devices there are and on what they have seen.
LEMMA SameSeenSameLeases ==
  ASSUME NEW devs, NEW after, DOMAIN after = DOMAIN devs,
         \A d \in DOMAIN devs : after[d].workerIDsSeen = devs[d].workerIDsSeen
  PROVE  LeaseMap(after) = LeaseMap(devs)
<1>1. ASSUME NEW d, NEW id PROVE LeaseIn(after, d, id) = LeaseIn(devs, d, id)
  BY DEF LeaseIn, SlotState, Seen
<1> QED BY <1>1 DEF LeaseMap

\* A new device has no known slots.
LEMMA NewDeviceLeases ==
  ASSUME NEW enabled, NEW x
  PROVE  SlotState(NewDevice(enabled), x) = Lease!Unknown
BY DEF SlotState, NewDevice, Seen, Lease!Unknown

\* SetWorkerAvailable: the connection's slot becomes free and its own.
LEMMA AvailableLeases ==
  ASSUME NEW devs, DevicesInv(devs), NEW c \in Workers
  PROVE  LeaseMap(AfterSetWorkerAvailable(devs, c))
           = [LeaseMap(devs) EXCEPT ![<<DeviceOf[c], IDOf[c]>>]
                                      = [state |-> "free", worker |-> c]]
<1> DEFINE d == DeviceOf[c]
           dev == IF d \in DOMAIN devs THEN devs[d] ELSE NewDevice(TRUE)
           after == AfterSetWorkerAvailable(devs, c)
<1>1. d \in DeviceIDs /\ IDOf[c] \in WorkerIDs
  BY WorkersAssumption
<1>2. DeviceInv(dev, d)
  BY NewDeviceInv DEF DevicesInv
<1>3. /\ DOMAIN after = DOMAIN devs \cup {d}
      /\ after[d] = OfferWorker(dev, c)
      /\ \A e \in DOMAIN devs \ {d} : after[e] = devs[e]
  BY DEF AfterSetWorkerAvailable, MapPut
<1>4. \A x : SlotState(dev, x) = LeaseIn(devs, d, x)
  BY NewDeviceLeases DEF LeaseIn, Lease!Unknown
<1> HIDE DEF dev
<1>5. \A x : SlotState(OfferWorker(dev, c), x) =
               IF x = IDOf[c] THEN [state |-> "free", worker |-> c] ELSE SlotState(dev, x)
  <2>1. DeviceInv(dev, DeviceOf[c])
    BY <1>2
  <2> HIDE DEF d
  <2> QED BY <2>1, OfferWorkerInv
<1> HIDE DEF d, after
<1>6. ASSUME NEW e \in DeviceIDs, NEW x \in WorkerIDs
      PROVE  LeaseIn(after, e, x) =
               IF e = d /\ x = IDOf[c] THEN [state |-> "free", worker |-> c]
               ELSE LeaseIn(devs, e, x)
  <2>1. CASE e = d
    BY <1>3, <1>4, <1>5, <2>1 DEF LeaseIn
  <2>2. CASE e # d
    BY <1>3, <2>2 DEF LeaseIn
  <2> QED BY <2>1, <2>2
<1>7. ASSUME NEW s \in DeviceIDs \X WorkerIDs
      PROVE  LeaseIn(after, s[1], s[2]) =
               IF s = <<d, IDOf[c]>> THEN [state |-> "free", worker |-> c]
               ELSE LeaseIn(devs, s[1], s[2])
  BY <1>6
<1> QED BY <1>1, <1>7 DEF LeaseMap, d, after

\* SetWorkerUnavailable: the slot is given up if it is the connection's own.
LEMMA UnavailableLeases ==
  ASSUME NEW devs, DevicesInv(devs), NEW c \in Workers, NEW t \in Nat \ {ZeroTime}
  PROVE  LET after == LeaseMap(AfterSetWorkerUnavailable(devs, c, t))
             slot == <<DeviceOf[c], IDOf[c]>>
         IN  IF LeaseMap(devs)[slot].worker = c
             THEN after = [LeaseMap(devs) EXCEPT ![slot] = [state |-> "away", worker |-> c]]
             ELSE after = LeaseMap(devs)
<1> DEFINE d == DeviceOf[c]
           after == AfterSetWorkerUnavailable(devs, c, t)
<1>1. d \in DeviceIDs /\ IDOf[c] \in WorkerIDs /\ c # NoWorker
  BY WorkersAssumption
<1>2. /\ DOMAIN after = DOMAIN devs
      /\ \A e \in DOMAIN devs :
           after[e] = IF e = d THEN WithdrawWorker(devs[e], c, t) ELSE devs[e]
  BY DEF AfterSetWorkerUnavailable
<1>3. LeaseMap(devs)[<<d, IDOf[c]>>] = LeaseIn(devs, d, IDOf[c])
  BY <1>1 DEF LeaseMap
<1> HIDE DEF d, after
<1>4. CASE LeaseIn(devs, d, IDOf[c]).worker = c
  <2>1. d \in DOMAIN devs /\ SlotState(devs[d], IDOf[c]).worker = c
    BY <1>1, <1>4 DEF LeaseIn
  <2>2. \A x : SlotState(after[d], x) =
                 IF x = IDOf[c] THEN [state |-> "away", worker |-> c]
                 ELSE SlotState(devs[d], x)
    <3>1. DeviceInv(devs[d], d) /\ after[d] = WithdrawWorker(devs[d], c, t)
      BY <1>2, <2>1 DEF DevicesInv
    <3> QED BY <2>1, <3>1, WithdrawWorkerInv
  <2>3. ASSUME NEW e \in DeviceIDs, NEW x \in WorkerIDs
        PROVE  LeaseIn(after, e, x) =
                 IF e = d /\ x = IDOf[c] THEN [state |-> "away", worker |-> c]
                 ELSE LeaseIn(devs, e, x)
    BY <1>2, <2>1, <2>2 DEF LeaseIn
  <2>4. ASSUME NEW s \in DeviceIDs \X WorkerIDs
        PROVE  LeaseIn(after, s[1], s[2]) =
                 IF s = <<d, IDOf[c]>> THEN [state |-> "away", worker |-> c]
                 ELSE LeaseIn(devs, s[1], s[2])
    BY <2>3
  <2> QED BY <1>1, <1>3, <1>4, <2>4 DEF LeaseMap, d, after
<1>5. CASE LeaseIn(devs, d, IDOf[c]).worker # c
  <2>1. ASSUME NEW e \in DOMAIN devs PROVE after[e] = devs[e]
    <3>1. CASE e = d
      <4>1. SlotState(devs[d], IDOf[c]).worker # c /\ DeviceInv(devs[d], d)
        BY <1>5, <2>1, <3>1 DEF LeaseIn, DevicesInv
      <4>2. WithdrawWorker(devs[d], c, t) = devs[d]
        BY <4>1, WithdrawWorkerInv
      <4> QED BY <1>2, <3>1, <4>2
    <3>2. CASE e # d
      BY <1>2, <3>2
    <3> QED BY <3>1, <3>2
  <2>2. LeaseMap(after) = LeaseMap(devs)
    BY <1>2, <2>1, SameSeenSameLeases
  <2> QED BY <1>3, <1>5, <2>2 DEF d, after
<1> QED BY <1>4, <1>5

\* EnableDevice, DisableDevice and the rate check leave every lease alone.
LEMMA EnableLeases ==
  ASSUME NEW devs, DevicesInv(devs), NEW id
  PROVE  LeaseMap(AfterEnableDevice(devs, id)) = LeaseMap(devs)
<1>1. \A d \in DOMAIN devs : devs[d] \in SelectableDevice(Seen(devs[d]))
  BY DeviceShape DEF DevicesInv, DeviceInv
<1>2. \A d \in DOMAIN devs :
        [devs[d] EXCEPT !.selectionEnabled = TRUE].workerIDsSeen = devs[d].workerIDsSeen
  BY <1>1 DEF SelectableDevice
<1>3. /\ DOMAIN AfterEnableDevice(devs, id) = DOMAIN devs
      /\ \A d \in DOMAIN devs :
           AfterEnableDevice(devs, id)[d].workerIDsSeen = devs[d].workerIDsSeen
  BY <1>2 DEF AfterEnableDevice
<1> QED BY <1>3, SameSeenSameLeases

\* DisableDevice may add a device, but one without workers.
LEMMA DisableLeases ==
  ASSUME NEW devs, DevicesInv(devs), NEW id \in DeviceIDs
  PROVE  LeaseMap(AfterDisableDevice(devs, id)) = LeaseMap(devs)
<1> DEFINE after == AfterDisableDevice(devs, id)
<1>1. CASE id \in DOMAIN devs
  <2>1. devs[id] \in SelectableDevice(Seen(devs[id]))
    BY <1>1, DeviceShape DEF DevicesInv, DeviceInv
  <2>2. [devs[id] EXCEPT !.selectionEnabled = FALSE].workerIDsSeen = devs[id].workerIDsSeen
    BY <2>1 DEF SelectableDevice
  <2>3. DOMAIN after = DOMAIN devs
    BY <1>1 DEF AfterDisableDevice
  <2>4. \A d \in DOMAIN devs : after[d] = IF d = id
                                          THEN [devs[id] EXCEPT !.selectionEnabled = FALSE]
                                          ELSE devs[d]
    BY <1>1 DEF AfterDisableDevice
  <2> HIDE DEF after
  <2>5. LeaseMap(after) = LeaseMap(devs)
    BY <2>2, <2>3, <2>4, SameSeenSameLeases
  <2> QED BY <2>5 DEF after
<1>2. CASE id \notin DOMAIN devs
  <2>1. /\ DOMAIN after = DOMAIN devs \cup {id}
        /\ after[id] = NewDevice(FALSE)
        /\ \A d \in DOMAIN devs : after[d] = devs[d]
    BY <1>2 DEF AfterDisableDevice, MapPut
  <2> HIDE DEF after
  <2>2. ASSUME NEW d, NEW x PROVE LeaseIn(after, d, x) = LeaseIn(devs, d, x)
    BY <1>2, <2>1, NewDeviceLeases DEF LeaseIn, Lease!Unknown
  <2> QED BY <2>2 DEF LeaseMap, after
<1> QED BY <1>1, <1>2

\* Pruning histories leaves every lease alone.
LEMMA RateCheckLeases ==
  ASSUME NEW devs, DevicesInv(devs), NEW cfg, NEW t
  PROVE  /\ LeaseMap(AfterRateCheck(devs, cfg, t)) = LeaseMap(devs)
         /\ DOMAIN AfterRateCheck(devs, cfg, t) = DOMAIN devs
         /\ \A d \in DOMAIN devs :
              AfterRateCheck(devs, cfg, t)[d].workerIDsSeen = devs[d].workerIDsSeen
<1>1. \A d \in DOMAIN devs : devs[d] \in SelectableDevice(Seen(devs[d]))
  BY DeviceShape DEF DevicesInv, DeviceInv
<1>2. \A d \in DOMAIN devs : PruneHistory(devs[d], cfg, t).workerIDsSeen = devs[d].workerIDsSeen
  BY <1>1 DEF SelectableDevice, PruneHistory
<1>3. /\ DOMAIN AfterRateCheck(devs, cfg, t) = DOMAIN devs
      /\ \A d \in DOMAIN devs :
           AfterRateCheck(devs, cfg, t)[d].workerIDsSeen = devs[d].workerIDsSeen
  BY <1>2 DEF AfterRateCheck
<1> QED BY <1>3, SameSeenSameLeases

\* A device that is dropped has no leased slot.
LEMMA RemoveDeadLeases ==
  ASSUME NEW devs, DevicesInv(devs), NEW id \in DeviceIDs
  PROVE  LET after == LeaseMap(AfterRemoveDeadDevice(devs, id))
         IN  \/ after = LeaseMap(devs)
             \/ /\ \A s \in Lease!Slots : s[1] = id => LeaseMap(devs)[s].state # "leased"
                /\ after = [s \in Lease!Slots |-> IF s[1] = id THEN Lease!Unknown
                                                  ELSE LeaseMap(devs)[s]]
<1> DEFINE after == AfterRemoveDeadDevice(devs, id)
<1>1. CASE ~ (id \in DOMAIN devs /\ ~ HasAssigned(devs[id]))
  BY <1>1 DEF AfterRemoveDeadDevice
<1>2. CASE id \in DOMAIN devs /\ ~ HasAssigned(devs[id])
  <2>1. DOMAIN after = DOMAIN devs \ {id} /\ \A d \in DOMAIN devs \ {id} : after[d] = devs[d]
    BY <1>2 DEF AfterRemoveDeadDevice
  <2> HIDE DEF after
  <2>2. \A x : SlotState(devs[id], x).state # "leased"
    BY <1>2 DEF HasAssigned, SlotState, Seen
  <2>3. ASSUME NEW d \in DeviceIDs, NEW x \in WorkerIDs
        PROVE  /\ d = id => LeaseIn(devs, d, x).state # "leased"
               /\ LeaseIn(after, d, x) = IF d = id THEN Lease!Unknown ELSE LeaseIn(devs, d, x)
    BY <1>2, <2>1, <2>2 DEF LeaseIn, Lease!Unknown
  <2>4. \A s \in DeviceIDs \X WorkerIDs :
          /\ s[1] = id => LeaseIn(devs, s[1], s[2]).state # "leased"
          /\ LeaseIn(after, s[1], s[2]) =
               IF s[1] = id THEN Lease!Unknown ELSE LeaseIn(devs, s[1], s[2])
    BY <2>3
  <2> QED BY <2>4 DEF LeaseMap, Lease!Slots, after
<1> QED BY <1>1, <1>2

\* The slots that a prune forgets are all away.
LEMMA PruneLeases ==
  ASSUME NEW devs, DevicesInv(devs), NEW t \in Nat
  PROVE  \E S \in SUBSET Lease!Slots :
           /\ \A s \in S : LeaseMap(devs)[s].state = "away"
           /\ LeaseMap(AfterPruneWorkerIDsSeen(devs, t))
                = [s \in Lease!Slots |-> IF s \in S THEN Lease!Unknown ELSE LeaseMap(devs)[s]]
<1> DEFINE after == AfterPruneWorkerIDsSeen(devs, t)
           S == {s \in DeviceIDs \X WorkerIDs :
                   LeaseIn(after, s[1], s[2]) # LeaseIn(devs, s[1], s[2])}
<1>1. DOMAIN after = DOMAIN devs /\ \A d \in DOMAIN devs : after[d] = PruneSeen(devs[d], t)
  BY DEF AfterPruneWorkerIDsSeen
<1>2. ASSUME NEW d, NEW x
      PROVE  \/ LeaseIn(after, d, x) = LeaseIn(devs, d, x)
             \/ LeaseIn(devs, d, x).state = "away" /\ LeaseIn(after, d, x) = Lease!Unknown
  <2>1. CASE d \in DOMAIN devs
    <3>1. DeviceInv(devs[d], d)
      BY <2>1 DEF DevicesInv
    <3>2. \/ SlotState(PruneSeen(devs[d], t), x) = SlotState(devs[d], x)
          \/ /\ SlotState(devs[d], x).state = "away"
             /\ SlotState(PruneSeen(devs[d], t), x) = Lease!Unknown
      BY <3>1, PruneSeenInv
    <3> HIDE DEF after
    <3> QED BY <1>1, <2>1, <3>2 DEF LeaseIn
  <2>2. CASE d \notin DOMAIN devs
    BY <1>1, <2>2 DEF LeaseIn
  <2> QED BY <2>1, <2>2
<1> HIDE DEF after
<1>3. \A s \in S : LeaseIn(devs, s[1], s[2]).state = "away"
  BY <1>2
<1>4. \A s \in DeviceIDs \X WorkerIDs :
        LeaseIn(after, s[1], s[2]) = IF s \in S THEN Lease!Unknown ELSE LeaseIn(devs, s[1], s[2])
  BY <1>2
<1>5. S \subseteq DeviceIDs \X WorkerIDs
  OBVIOUS
<1> HIDE DEF S
<1>6. \A s \in S : LeaseMap(devs)[s].state = "away"
  BY <1>3, <1>5 DEF LeaseMap
<1>7. LeaseMap(after) = [s \in Lease!Slots |-> IF s \in S THEN Lease!Unknown ELSE LeaseMap(devs)[s]]
  BY <1>4 DEF LeaseMap, Lease!Slots
<1> QED BY <1>5, <1>6, <1>7 DEF Lease!Slots, after

\* A selection leases one free slot.
LEMMA ClaimLeases ==
  ASSUME NEW devs, DevicesInv(devs), NEW cfg \in RateLimits, NEW t \in Nat,
         NEW weight \in Weights, NEW d \in Eligible(devs, cfg, t)
  PROVE  \E s \in Lease!Slots :
           /\ LeaseMap(devs)[s].state = "free"
           /\ LeaseMap(AfterClaim(devs, d, weight, cfg, t))
                = [LeaseMap(devs) EXCEPT ![s] = [state |-> "leased",
                                                 worker |-> LeaseMap(devs)[s].worker]]
<1> DEFINE checked == AfterRateCheck(devs, cfg, t)
           after == AfterClaim(devs, d, weight, cfg, t)
           id == Head(checked[d].availableWorkers)
<1>1. d \in DOMAIN devs /\ devs[d].availableWorkers # <<>> /\ d \in DeviceIDs
  BY DEF Eligible, Candidate, DevicesInv
<1>2. /\ DevicesInv(checked)
      /\ DOMAIN checked = DOMAIN devs
      /\ checked[d].availableWorkers # <<>>
      /\ LeaseMap(checked) = LeaseMap(devs)
  BY <1>1, RateCheckInv, RateCheckLeases
<1>3. /\ DOMAIN after = DOMAIN devs
      /\ after[d] = ClaimWorkerFromDevice(checked[d], weight, cfg, t)
      /\ \A e \in DOMAIN devs \ {d} : after[e] = checked[e]
  BY <1>1, <1>2 DEF AfterClaim
<1> HIDE DEF checked, after
<1>4. /\ id \in WorkerIDs
      /\ SlotState(checked[d], id).state = "free"
      /\ \A x : SlotState(after[d], x) =
                  IF x = id THEN [state |-> "leased", worker |-> SlotState(checked[d], x).worker]
                  ELSE SlotState(checked[d], x)
  <2>1. DeviceInv(checked[d], d)
    BY <1>1, <1>2 DEF DevicesInv
  <2> QED BY <1>2, <1>3, <2>1, ClaimInv
<1> HIDE DEF id
<1>5. ASSUME NEW e \in DeviceIDs, NEW x \in WorkerIDs
      PROVE  LeaseIn(after, e, x) =
               IF e = d /\ x = id
               THEN [state |-> "leased", worker |-> LeaseIn(checked, e, x).worker]
               ELSE LeaseIn(checked, e, x)
  <2>1. CASE e = d
    BY <1>1, <1>2, <1>3, <1>4, <2>1 DEF LeaseIn
  <2>2. CASE e # d
    BY <1>1, <1>2, <1>3, <2>2 DEF LeaseIn
  <2> QED BY <2>1, <2>2
<1>6. ASSUME NEW s \in DeviceIDs \X WorkerIDs
      PROVE  LeaseIn(after, s[1], s[2]) =
               IF s = <<d, id>>
               THEN [state |-> "leased", worker |-> LeaseMap(checked)[s].worker]
               ELSE LeaseMap(checked)[s]
  BY <1>5 DEF LeaseMap
<1>7. <<d, id>> \in Lease!Slots /\ LeaseMap(checked)[<<d, id>>].state = "free"
  <2>1. LeaseIn(checked, d, id).state = "free"
    BY <1>1, <1>2, <1>4 DEF LeaseIn
  <2> QED BY <1>1, <1>4, <2>1 DEF LeaseMap, Lease!Slots
<1>8. LeaseMap(after) = [LeaseMap(checked) EXCEPT
                           ![<<d, id>>] = [state |-> "leased",
                                           worker |-> LeaseMap(checked)[<<d, id>>].worker]]
  BY <1>6 DEF LeaseMap
<1> QED BY <1>2, <1>7, <1>8 DEF after

\* The selector starts with no known slot, as WorkerLease does.
LEMMA InitRefines == Init => Lease!Init
<1>1. \A d, id : LeaseIn([e \in {} |-> NewDevice(TRUE)], d, id) = Lease!Unknown
  BY DEF LeaseIn, Lease!Unknown
<1> QED BY <1>1 DEF Init, Lease!Init, Lease!Slots

\* Every step of the selector is a step of WorkerLease, or changes no lease.
LEMMA StepRefines ==
  SelectorInv /\ [Next]_vars => Lease!Next \/ LeaseMap(devices') = LeaseMap(devices)
<1> SUFFICES ASSUME SelectorInv, [Next]_vars
             PROVE  Lease!Next \/ LeaseMap(devices') = LeaseMap(devices)
  OBVIOUS
<1>1. /\ DevicesInv(devices)
      /\ rateLimit \in RateLimits
      /\ now \in Nat \ {ZeroTime}
  BY SelectorInvShape
<1>2. CASE UNCHANGED devices
  BY <1>2
<1>3. ASSUME NEW c \in Workers, SetWorkerAvailable(c)
      PROVE  Lease!Next
  <2>1. LeaseMap(devices') = [LeaseMap(devices) EXCEPT ![<<DeviceOf[c], IDOf[c]>>]
                                                       = [state |-> "free", worker |-> c]]
    BY <1>1, <1>3, AvailableLeases DEF SetWorkerAvailable
  <2>2. Lease!Announce(c)
    BY <2>1 DEF Lease!Announce, Lease!SlotOf, LeaseMap
  <2> QED BY <2>2 DEF Lease!Next
<1>4. ASSUME NEW c \in Workers, SetWorkerUnavailable(c)
      PROVE  Lease!Next \/ LeaseMap(devices') = LeaseMap(devices)
  <2> DEFINE slot == <<DeviceOf[c], IDOf[c]>>
  <2>1. IF LeaseMap(devices)[slot].worker = c
        THEN LeaseMap(devices') = [LeaseMap(devices) EXCEPT ![slot] = [state |-> "away", worker |-> c]]
        ELSE LeaseMap(devices') = LeaseMap(devices)
    BY <1>1, <1>4, UnavailableLeases DEF SetWorkerUnavailable
  <2>2. CASE LeaseMap(devices)[slot].worker = c
    <3>1. Lease!Leave(c)
      BY <2>1, <2>2 DEF Lease!Leave, Lease!SlotOf, LeaseMap
    <3> QED BY <3>1 DEF Lease!Next
  <2>3. CASE LeaseMap(devices)[slot].worker # c
    BY <2>1, <2>3
  <2> QED BY <2>2, <2>3
<1>5. ASSUME NEW d \in DeviceIDs, EnableDevice(d)
      PROVE  LeaseMap(devices') = LeaseMap(devices)
  BY <1>1, <1>5, EnableLeases DEF EnableDevice
<1>6. ASSUME NEW d \in DeviceIDs, DisableDevice(d)
      PROVE  LeaseMap(devices') = LeaseMap(devices)
  BY <1>1, <1>6, DisableLeases DEF DisableDevice
<1>7. ASSUME NEW d \in DeviceIDs, RemoveDeadDevice(d)
      PROVE  Lease!Next \/ LeaseMap(devices') = LeaseMap(devices)
  <2>1. \/ LeaseMap(devices') = LeaseMap(devices)
        \/ /\ \A s \in Lease!Slots : s[1] = d => LeaseMap(devices)[s].state # "leased"
           /\ LeaseMap(devices') = [s \in Lease!Slots |-> IF s[1] = d THEN Lease!Unknown
                                                         ELSE LeaseMap(devices)[s]]
    BY <1>1, <1>7, RemoveDeadLeases DEF RemoveDeadDevice
  <2>2. Lease!Drop(d) \/ LeaseMap(devices') = LeaseMap(devices)
    BY <2>1 DEF Lease!Drop, LeaseMap
  <2> QED BY <2>2 DEF Lease!Next
<1>8. ASSUME RefuseWorker
      PROVE  LeaseMap(devices') = LeaseMap(devices)
  BY <1>1, <1>8, RateCheckLeases DEF RefuseWorker
<1>9. ASSUME PruneWorkerIDsSeen
      PROVE  Lease!Next
  <2>1. PICK S \in SUBSET Lease!Slots :
          /\ \A s \in S : LeaseMap(devices)[s].state = "away"
          /\ LeaseMap(devices') = [s \in Lease!Slots |-> IF s \in S THEN Lease!Unknown
                                                        ELSE LeaseMap(devices)[s]]
    BY <1>1, <1>9, PruneLeases DEF PruneWorkerIDsSeen
  <2>2. Lease!Forget(S)
    BY <2>1 DEF Lease!Forget, LeaseMap
  <2> QED BY <2>2 DEF Lease!Next
<1>10. ASSUME NEW requested \in RequestedWeights, NEW d \in DeviceIDs,
              SelectWorker(requested, d)
       PROVE  Lease!Next
  <2>1. ClampWeight(requested) \in Weights
    BY WeightsAssumption, ClampWeightType
  <2>2. d \in Eligible(devices, rateLimit, now)
    BY <1>10 DEF SelectWorker, BestDevices
  <2>3. PICK s \in Lease!Slots :
          /\ LeaseMap(devices)[s].state = "free"
          /\ LeaseMap(devices') = [LeaseMap(devices) EXCEPT
                                     ![s] = [state |-> "leased",
                                             worker |-> LeaseMap(devices)[s].worker]]
    BY <1>1, <1>10, <2>1, <2>2, ClaimLeases DEF SelectWorker
  <2>4. Lease!Grant(s)
    BY <2>3 DEF Lease!Grant, LeaseMap
  <2> QED BY <2>4 DEF Lease!Next
<1>11. ASSUME NEW cfg \in RateLimits, PutSettings(cfg)
       PROVE  LeaseMap(devices') = LeaseMap(devices)
  BY <1>11 DEF PutSettings
<1>12. ASSUME Tick
       PROVE  LeaseMap(devices') = LeaseMap(devices)
  BY <1>12 DEF Tick
<1> QED
  BY <1>2, <1>3, <1>4, <1>5, <1>6, <1>7, <1>8, <1>9, <1>10, <1>11, <1>12
     DEF Next, Upkeep, vars

\* The selector implements the lease discipline, for every number of devices,
\* workers and connections.
THEOREM RefinesLease == Spec => ImplementsLease
<1>1. SelectorInv /\ [Next]_vars =>
        [Lease!Next]_([s \in DeviceIDs \X WorkerIDs |-> LeaseIn(devices, s[1], s[2])])
  BY StepRefines DEF LeaseMap
<1> QED BY <1>1, InitRefines, SelectorInvariant, PTL DEF Spec, ImplementsLease, Lease!Spec

-----------------------------------------------------------------------------
(* The clock, the queue and the history of a device. *)

DeviceFieldNames ==
  {"selectionEnabled", "availableWorkers", "workerIDsSeen", "workersInUse",
   "weightUsed", "currentWeight", "lastSelectionTime", "selectionHistory"}

\* removeWorkerFromDevice takes an id out of the queue, if it is not assigned.
LEMMA RemoveWorkerFields ==
  ASSUME NEW dev, DOMAIN dev = DeviceFieldNames, NEW id
  PROVE  LET after == RemoveWorkerFromDevice(dev, id)
         IN  /\ DOMAIN after = DeviceFieldNames
             /\ after.lastSelectionTime = dev.lastSelectionTime
             /\ after.selectionHistory = dev.selectionHistory
             /\ after.availableWorkers = IF dev.workerIDsSeen[id].assignedWeight > 0
                                         THEN dev.availableWorkers
                                         ELSE RemoveFirst(dev.availableWorkers, id)
BY DEF RemoveWorkerFromDevice, DeviceFieldNames

\* What is not in the queue cannot be taken out of it.
LEMMA RemoveAbsent ==
  ASSUME NEW S, NEW s \in Seq(S), NEW e, e \notin Range(s)
  PROVE  RemoveFirst(s, e) = s
<1>1. \A i \in 1..Len(s) : s[i] # e
  BY DEF Range
<1> QED BY <1>1 DEF RemoveFirst

\* A worker that is offered goes to the end of the queue, wherever it was.
LEMMA OfferFields ==
  ASSUME NEW c \in Workers, NEW dev, DeviceInv(dev, DeviceOf[c])
  PROVE  LET after == OfferWorker(dev, c)
         IN  /\ after.lastSelectionTime = dev.lastSelectionTime
             /\ after.selectionHistory = dev.selectionHistory
             /\ after.availableWorkers
                  = Append(RemoveFirst(dev.availableWorkers, IDOf[c]), IDOf[c])
<1> DEFINE id == IDOf[c]
           freed == IF id \in DOMAIN dev.workerIDsSeen
                    THEN RemoveWorkerFromDevice(dev, id) ELSE dev
<1>1. dev \in SelectableDevice(Seen(dev)) /\ QueueSound(dev)
  BY DeviceShape DEF DeviceInv
<1>2. DOMAIN dev = DeviceFieldNames /\ dev.availableWorkers \in Seq(WorkerIDs)
  BY <1>1, DeviceFields DEF SelectableDevice, DeviceFieldNames, DeviceInv
<1>3. /\ DOMAIN freed = DeviceFieldNames
      /\ freed.lastSelectionTime = dev.lastSelectionTime
      /\ freed.selectionHistory = dev.selectionHistory
      /\ freed.availableWorkers = RemoveFirst(dev.availableWorkers, id)
  <2>1. CASE id \in Seen(dev) /\ dev.workerIDsSeen[id].assignedWeight > 0
    <3>1. id \notin Range(dev.availableWorkers)
      <4>1. dev.workerIDsSeen[id].assignedWeight # 0
        BY <2>1
      <4> QED BY <1>1, <2>1, <4>1 DEF QueueSound
    <3> QED BY <1>2, <2>1, <3>1, RemoveWorkerFields, RemoveAbsent DEF Seen
  <2>2. CASE id \in Seen(dev) /\ ~ (dev.workerIDsSeen[id].assignedWeight > 0)
    BY <1>2, <2>2, RemoveWorkerFields DEF Seen
  <2>3. CASE id \notin Seen(dev)
    <3>1. id \notin Range(dev.availableWorkers)
      BY <1>1, <2>3 DEF QueueSound
    <3> QED BY <1>2, <2>3, <3>1, RemoveAbsent DEF Seen
  <2> QED BY <2>1, <2>2, <2>3
<1>4. OfferWorker(dev, c) =
        [freed EXCEPT !.workerIDsSeen =
                        MapPut(@, id, [worker |-> c, assignedWeight |-> 0,
                                       lastUnavailable |-> ZeroTime]),
                      !.availableWorkers = Append(@, id)]
  BY DEF OfferWorker
<1> HIDE DEF freed, id
<1>5. /\ OfferWorker(dev, c).lastSelectionTime = freed.lastSelectionTime
      /\ OfferWorker(dev, c).selectionHistory = freed.selectionHistory
      /\ OfferWorker(dev, c).availableWorkers = Append(freed.availableWorkers, id)
  BY <1>3, <1>4 DEF DeviceFieldNames
<1> QED BY <1>3, <1>5 DEF id

\* One that leaves is taken out of the queue, if it is there.
LEMMA WithdrawFields ==
  ASSUME NEW c \in Workers, NEW d, NEW dev, DeviceInv(dev, d), NEW t
  PROVE  LET after == WithdrawWorker(dev, c, t)
         IN  /\ after.lastSelectionTime = dev.lastSelectionTime
             /\ after.selectionHistory = dev.selectionHistory
             /\ \/ after.availableWorkers = dev.availableWorkers
                \/ after.availableWorkers = RemoveFirst(dev.availableWorkers, IDOf[c])
<1> DEFINE id == IDOf[c]
           marked == [dev EXCEPT !.workerIDsSeen[id].lastUnavailable = t]
<1>1. dev \in SelectableDevice(Seen(dev))
  BY DeviceShape DEF DeviceInv
<1>2. /\ DOMAIN marked = DeviceFieldNames
      /\ marked.lastSelectionTime = dev.lastSelectionTime
      /\ marked.selectionHistory = dev.selectionHistory
      /\ marked.availableWorkers = dev.availableWorkers
  BY <1>1 DEF SelectableDevice, DeviceFieldNames
<1>3. \/ WithdrawWorker(dev, c, t) = RemoveWorkerFromDevice(marked, id)
      \/ WithdrawWorker(dev, c, t) = dev
  BY DEF WithdrawWorker
<1> HIDE DEF marked, id
<1>4. LET after == RemoveWorkerFromDevice(marked, id)
      IN  /\ after.lastSelectionTime = marked.lastSelectionTime
          /\ after.selectionHistory = marked.selectionHistory
          /\ \/ after.availableWorkers = marked.availableWorkers
             \/ after.availableWorkers = RemoveFirst(marked.availableWorkers, id)
  BY <1>2, RemoveWorkerFields
<1> QED BY <1>2, <1>3, <1>4 DEF id

\* Pruning and switching leave the clock and the queue alone.
LEMMA OtherFields ==
  ASSUME NEW d, NEW dev, DeviceInv(dev, d), NEW cfg, NEW t, NEW on
  PROVE  /\ LET after == PruneHistory(dev, cfg, t)
            IN  /\ after.lastSelectionTime = dev.lastSelectionTime
                /\ after.selectionHistory = RecentSelections(dev.selectionHistory, cfg, t)
                /\ after.availableWorkers = dev.availableWorkers
                /\ after.workerIDsSeen = dev.workerIDsSeen
         /\ LET after == PruneSeen(dev, t)
            IN  /\ after.lastSelectionTime = dev.lastSelectionTime
                /\ after.selectionHistory = dev.selectionHistory
                /\ after.availableWorkers = dev.availableWorkers
         /\ LET after == [dev EXCEPT !.selectionEnabled = on]
            IN  /\ after.lastSelectionTime = dev.lastSelectionTime
                /\ after.selectionHistory = dev.selectionHistory
                /\ after.availableWorkers = dev.availableWorkers
<1>1. dev \in SelectableDevice(Seen(dev))
  BY DeviceShape DEF DeviceInv
<1>2. DOMAIN dev = DeviceFieldNames
  BY <1>1 DEF SelectableDevice, DeviceFieldNames
<1> QED BY <1>2 DEF PruneHistory, PruneSeen, DeviceFieldNames

\* A claim takes the head of the queue and remembers when.
LEMMA ClaimFields ==
  ASSUME NEW d, NEW dev, DeviceInv(dev, d), NEW weight, NEW cfg, NEW t
  PROVE  LET after == ClaimWorkerFromDevice(dev, weight, cfg, t)
         IN  /\ after.lastSelectionTime = t
             /\ after.selectionHistory
                  = Append(RecentSelections(dev.selectionHistory, cfg, t), t)
             /\ after.availableWorkers = Tail(dev.availableWorkers)
             /\ \A id \in Seen(after) :
                  \/ id = Head(dev.availableWorkers)
                  \/ id \in Seen(dev) /\ after.workerIDsSeen[id] = dev.workerIDsSeen[id]
<1>1. dev \in SelectableDevice(Seen(dev))
  BY DeviceShape DEF DeviceInv
<1>2. DOMAIN dev = DeviceFieldNames
  BY <1>1 DEF SelectableDevice, DeviceFieldNames
<1> DEFINE after == ClaimWorkerFromDevice(dev, weight, cfg, t)
<1>3. /\ after.lastSelectionTime = t
      /\ after.selectionHistory = Append(RecentSelections(dev.selectionHistory, cfg, t), t)
      /\ after.availableWorkers = Tail(dev.availableWorkers)
      /\ after.workerIDsSeen =
           [dev.workerIDsSeen EXCEPT ![Head(dev.availableWorkers)].assignedWeight = weight]
  BY <1>2 DEF ClaimWorkerFromDevice, DeviceFieldNames
<1> HIDE DEF after
<1>4. \A id \in Seen(after) :
        \/ id = Head(dev.availableWorkers)
        \/ id \in Seen(dev) /\ after.workerIDsSeen[id] = dev.workerIDsSeen[id]
  BY <1>3 DEF Seen
<1> QED BY <1>3, <1>4 DEF after

\* A step that hands no worker out and offers none.  A device that stays may lose a worker
\* from its queue or selections that are over from its history; a new one has neither.
QuietFor(dev, after, cfg, t) ==
  /\ after.lastSelectionTime = dev.lastSelectionTime
  /\ \/ after.availableWorkers = dev.availableWorkers
     \/ \E id \in WorkerIDs : after.availableWorkers = RemoveFirst(dev.availableWorkers, id)
  /\ \/ after.selectionHistory = dev.selectionHistory
     \/ after.selectionHistory = RecentSelections(dev.selectionHistory, cfg, t)

Blank(dev) ==
  dev.lastSelectionTime = ZeroTime /\ dev.availableWorkers = <<>> /\ dev.selectionHistory = <<>>

Quiet(devs, after, cfg, t) ==
  \A d \in DOMAIN after :
    IF d \in DOMAIN devs THEN QuietFor(devs[d], after[d], cfg, t) ELSE Blank(after[d])

\* A new device is blank.
LEMMA NewDeviceBlank == ASSUME NEW enabled PROVE Blank(NewDevice(enabled))
BY DEF Blank, NewDevice

\* Every operation that hands nothing out and offers nothing is quiet.
LEMMA QuietSteps ==
  ASSUME NEW devs, DevicesInv(devs), NEW cfg, NEW t
  PROVE  /\ \A c \in Workers : Quiet(devs, AfterSetWorkerUnavailable(devs, c, t), cfg, t)
         /\ \A d : /\ Quiet(devs, AfterEnableDevice(devs, d), cfg, t)
                   /\ Quiet(devs, AfterDisableDevice(devs, d), cfg, t)
                   /\ Quiet(devs, AfterRemoveDeadDevice(devs, d), cfg, t)
         /\ Quiet(devs, AfterRateCheck(devs, cfg, t), cfg, t)
         /\ Quiet(devs, AfterPruneWorkerIDsSeen(devs, t), cfg, t)
         /\ Quiet(devs, devs, cfg, t)
<1>1. \A d \in DOMAIN devs : DeviceInv(devs[d], d)
  BY DEF DevicesInv
<1>2. ASSUME NEW c \in Workers PROVE Quiet(devs, AfterSetWorkerUnavailable(devs, c, t), cfg, t)
  <2>1. IDOf[c] \in WorkerIDs
    BY WorkersAssumption
  <2>2. \A d \in DOMAIN devs : QuietFor(devs[d], WithdrawWorker(devs[d], c, t), cfg, t)
    BY <1>1, <2>1, WithdrawFields DEF QuietFor
  <2>3. \A d \in DOMAIN devs : QuietFor(devs[d], devs[d], cfg, t)
    BY DEF QuietFor
  <2> QED BY <2>2, <2>3 DEF Quiet, AfterSetWorkerUnavailable
<1>3. \A d \in DOMAIN devs : QuietFor(devs[d], devs[d], cfg, t)
  BY DEF QuietFor
<1>4. \A d \in DOMAIN devs, on \in BOOLEAN :
        QuietFor(devs[d], [devs[d] EXCEPT !.selectionEnabled = on], cfg, t)
  BY <1>1, OtherFields DEF QuietFor
<1>5. ASSUME NEW d
      PROVE  /\ Quiet(devs, AfterEnableDevice(devs, d), cfg, t)
             /\ Quiet(devs, AfterDisableDevice(devs, d), cfg, t)
             /\ Quiet(devs, AfterRemoveDeadDevice(devs, d), cfg, t)
  <2>1. Quiet(devs, AfterEnableDevice(devs, d), cfg, t)
    BY <1>3, <1>4 DEF Quiet, AfterEnableDevice
  <2>2. Quiet(devs, AfterDisableDevice(devs, d), cfg, t)
    <3>1. CASE d \in DOMAIN devs
      <4>1. \A x \in DOMAIN devs :
              AfterDisableDevice(devs, d)[x] =
                IF x = d THEN [devs[x] EXCEPT !.selectionEnabled = FALSE] ELSE devs[x]
        BY <3>1 DEF AfterDisableDevice
      <4>2. DOMAIN AfterDisableDevice(devs, d) = DOMAIN devs
        BY <3>1 DEF AfterDisableDevice
      <4> QED BY <1>3, <1>4, <4>1, <4>2 DEF Quiet
    <3>2. CASE d \notin DOMAIN devs
      BY <1>3, <3>2, NewDeviceBlank DEF Quiet, AfterDisableDevice, MapPut
    <3> QED BY <3>1, <3>2
  <2>3. Quiet(devs, AfterRemoveDeadDevice(devs, d), cfg, t)
    BY <1>3 DEF Quiet, AfterRemoveDeadDevice
  <2> QED BY <2>1, <2>2, <2>3
<1>6. Quiet(devs, AfterRateCheck(devs, cfg, t), cfg, t)
  <2>1. \A d \in DOMAIN devs : QuietFor(devs[d], PruneHistory(devs[d], cfg, t), cfg, t)
    BY <1>1, OtherFields DEF QuietFor
  <2> QED BY <1>3, <2>1 DEF Quiet, AfterRateCheck
<1>7. Quiet(devs, AfterPruneWorkerIDsSeen(devs, t), cfg, t)
  <2>1. \A d \in DOMAIN devs : QuietFor(devs[d], PruneSeen(devs[d], t), cfg, t)
    BY <1>1, OtherFields DEF QuietFor
  <2> QED BY <2>1 DEF Quiet, AfterPruneWorkerIDsSeen
<1>8. Quiet(devs, devs, cfg, t)
  BY <1>3 DEF Quiet
<1> QED BY <1>2, <1>5, <1>6, <1>7, <1>8

\* Only the clock or the settings change, or neither does.
ClockMoves ==
  /\ now' \in {now, now + 1} /\ rateLimit' \in RateLimits
  /\ devices' = devices \/ (now' = now /\ rateLimit' = rateLimit)
  /\ now' = now \/ rateLimit' = rateLimit

\* What the steps of Upkeep do, apart from the offers.
LEMMA UpkeepDoes ==
  ASSUME SelectorInv, Upkeep, \A c \in Workers : ~ SetWorkerAvailable(c)
  PROVE  Quiet(devices, devices', rateLimit, now) /\ ClockMoves
<1>1. DevicesInv(devices) /\ rateLimit \in RateLimits
  BY SelectorInvShape
<1>2. ASSUME NEW c \in Workers, SetWorkerUnavailable(c)
      PROVE  Quiet(devices, devices', rateLimit, now) /\ UNCHANGED <<rateLimit, now>>
  BY <1>1, <1>2, QuietSteps DEF SetWorkerUnavailable
<1>3. ASSUME NEW d \in DeviceIDs, EnableDevice(d) \/ DisableDevice(d) \/ RemoveDeadDevice(d)
      PROVE  Quiet(devices, devices', rateLimit, now) /\ UNCHANGED <<rateLimit, now>>
  BY <1>1, <1>3, QuietSteps DEF EnableDevice, DisableDevice, RemoveDeadDevice
<1>4. ASSUME RefuseWorker \/ PruneWorkerIDsSeen
      PROVE  Quiet(devices, devices', rateLimit, now) /\ UNCHANGED <<rateLimit, now>>
  BY <1>1, <1>4, QuietSteps DEF RefuseWorker, PruneWorkerIDsSeen
<1>5. ASSUME NEW cfg \in RateLimits, PutSettings(cfg)
      PROVE  Quiet(devices, devices', rateLimit, now) /\ ClockMoves
  BY <1>1, <1>5, QuietSteps DEF PutSettings, ClockMoves
<1>6. ASSUME Tick
      PROVE  Quiet(devices, devices', rateLimit, now) /\ ClockMoves
  BY <1>1, <1>6, QuietSteps DEF Tick, ClockMoves
<1>7. ASSUME UNCHANGED <<rateLimit, now>> PROVE ClockMoves
  BY <1>1, <1>7 DEF ClockMoves
<1> QED BY <1>2, <1>3, <1>4, <1>5, <1>6, <1>7 DEF Upkeep

\* What a selection does to the devices.
LEMMA SelectDoes ==
  ASSUME SelectorInv, NEW requested \in RequestedWeights, NEW d \in DeviceIDs,
         SelectWorker(requested, d)
  PROVE  /\ d \in Eligible(devices, rateLimit, now) /\ d \in DOMAIN devices
         /\ DOMAIN devices' = DOMAIN devices /\ UNCHANGED <<rateLimit, now>>
         /\ \A e \in DOMAIN devices \ {d} : QuietFor(devices[e], devices'[e], rateLimit, now)
         /\ devices'[d].lastSelectionTime = now
         /\ devices[d].availableWorkers # <<>>
         /\ devices'[d].availableWorkers = Tail(devices[d].availableWorkers)
         /\ \A id \in Seen(devices'[d]) :
              \/ id = Head(devices[d].availableWorkers)
              \/ /\ id \in Seen(devices[d])
                 /\ devices'[d].workerIDsSeen[id] = devices[d].workerIDsSeen[id]
         /\ devices'[d].selectionHistory =
              Append(RecentSelections(
                       RecentSelections(devices[d].selectionHistory, rateLimit, now),
                       rateLimit, now), now)
<1> DEFINE weight == ClampWeight(requested)
           checked == AfterRateCheck(devices, rateLimit, now)
           claimed == ClaimWorkerFromDevice(checked[d], weight, rateLimit, now)
<1>1. DevicesInv(devices) /\ rateLimit \in RateLimits /\ now \in Nat
  BY SelectorInvShape
<1>2. /\ d \in Eligible(devices, rateLimit, now)
      /\ devices' = AfterClaim(devices, d, weight, rateLimit, now)
      /\ UNCHANGED <<rateLimit, now>>
  BY DEF SelectWorker, BestDevices
<1>3. d \in DOMAIN devices /\ Candidate(devices[d]) /\ devices[d].availableWorkers # <<>>
  BY <1>2 DEF Eligible, Candidate
<1>4. DevicesInv(checked) /\ DOMAIN checked = DOMAIN devices
  BY <1>1, RateCheckInv
<1>5. checked[d] = PruneHistory(devices[d], rateLimit, now)
  BY <1>3 DEF AfterRateCheck
<1>6. Quiet(devices, checked, rateLimit, now)
  BY <1>1, QuietSteps
<1> HIDE DEF checked
<1>7. devices' = [checked EXCEPT ![d] = claimed]
  BY <1>2 DEF AfterClaim, checked
<1>8. DOMAIN devices' = DOMAIN devices /\ devices'[d] = claimed
  BY <1>3, <1>4, <1>7
<1>9. \A e \in DOMAIN devices \ {d} : devices'[e] = checked[e]
  BY <1>3, <1>4, <1>7
<1>10. \A e \in DOMAIN devices \ {d} : QuietFor(devices[e], devices'[e], rateLimit, now)
  BY <1>4, <1>6, <1>9 DEF Quiet
<1>11. DeviceInv(devices[d], d) /\ DeviceInv(checked[d], d)
  BY <1>1, <1>3, <1>4 DEF DevicesInv
<1>12. /\ checked[d].selectionHistory
            = RecentSelections(devices[d].selectionHistory, rateLimit, now)
       /\ checked[d].availableWorkers = devices[d].availableWorkers
       /\ checked[d].workerIDsSeen = devices[d].workerIDsSeen
  BY <1>5, <1>11, OtherFields
<1>13. Seen(checked[d]) = Seen(devices[d])
  BY <1>12 DEF Seen
<1>14. /\ claimed.lastSelectionTime = now
       /\ claimed.selectionHistory
            = Append(RecentSelections(checked[d].selectionHistory, rateLimit, now), now)
       /\ claimed.availableWorkers = Tail(checked[d].availableWorkers)
       /\ \A id \in Seen(claimed) :
            \/ id = Head(checked[d].availableWorkers)
            \/ id \in Seen(checked[d]) /\ claimed.workerIDsSeen[id] = checked[d].workerIDsSeen[id]
  BY <1>11, ClaimFields
<1> HIDE DEF claimed
<1> QED BY <1>2, <1>3, <1>8, <1>10, <1>12, <1>13, <1>14

\* SetWorkerAvailable touches one device.
LEMMA AvailableDoes ==
  ASSUME SelectorInv, NEW c \in Workers, SetWorkerAvailable(c)
  PROVE  LET d == DeviceOf[c]
         IN  /\ d \in DeviceIDs /\ IDOf[c] \in WorkerIDs
             /\ DOMAIN devices' = DOMAIN devices \cup {d} /\ UNCHANGED <<rateLimit, now>>
             /\ \A e \in DOMAIN devices \ {d} : devices'[e] = devices[e]
             /\ \E dev : /\ IF d \in DOMAIN devices THEN dev = devices[d] ELSE Blank(dev)
                         /\ devices'[d].lastSelectionTime = dev.lastSelectionTime
                         /\ devices'[d].selectionHistory = dev.selectionHistory
                         /\ devices'[d].availableWorkers
                              = Append(RemoveFirst(dev.availableWorkers, IDOf[c]), IDOf[c])
<1> DEFINE d == DeviceOf[c]
           dev == IF d \in DOMAIN devices THEN devices[d] ELSE NewDevice(TRUE)
<1>1. d \in DeviceIDs /\ IDOf[c] \in WorkerIDs /\ DevicesInv(devices)
  BY WorkersAssumption, SelectorInvShape
<1>2. DeviceInv(dev, d)
  BY <1>1, NewDeviceInv DEF DevicesInv
<1>3. devices' = MapPut(devices, d, OfferWorker(dev, c)) /\ UNCHANGED <<rateLimit, now>>
  BY DEF SetWorkerAvailable, AfterSetWorkerAvailable
<1>4. IF d \in DOMAIN devices THEN dev = devices[d] ELSE Blank(dev)
  BY NewDeviceBlank
<1>5. LET after == OfferWorker(dev, c)
      IN  /\ after.lastSelectionTime = dev.lastSelectionTime
          /\ after.selectionHistory = dev.selectionHistory
          /\ after.availableWorkers = Append(RemoveFirst(dev.availableWorkers, IDOf[c]), IDOf[c])
  BY <1>2, OfferFields
<1> HIDE DEF dev
<1>6. /\ DOMAIN devices' = DOMAIN devices \cup {d}
      /\ devices'[d] = OfferWorker(dev, c)
      /\ \A e \in DOMAIN devices \ {d} : devices'[e] = devices[e]
  BY <1>3 DEF MapPut
<1> QED BY <1>1, <1>3, <1>4, <1>5, <1>6

-----------------------------------------------------------------------------
(* The choice of a device. *)

\* A quotient by the same divisor is monotone, and below the bound of the dividend.
LEMMA QuotientProperties ==
  ASSUME NEW x \in Nat, NEW y \in Nat, NEW p \in Nat \ {0}, NEW k \in Nat
  PROVE  /\ x \div p \in Nat
         /\ x <= y => x \div p <= y \div p
         /\ x < k * p => x \div p < k
<1> DEFINE q == x \div p
           r == y \div p
<1>1. /\ q \in Int /\ q * p <= x /\ x < q * p + p
      /\ r \in Int /\ r * p <= y /\ y < r * p + p
  BY SMTT(30)
<1> HIDE DEF q, r
<1>2. \A a, b \in Int : a * p < b * p => a < b
  <2> TAKE a, b \in Int
  <2>1. CASE a >= b
    <3>1. a * p = b * p + (a - b) * p
      OBVIOUS
    <3>2. (a - b) * p >= 0
      BY <2>1
    <3> QED BY <3>1, <3>2
  <2>2. CASE a < b
    BY <2>2
  <2> QED BY <2>1, <2>2
<1>3. /\ (q + 1) * p = q * p + p
      /\ (r + 1) * p = r * p + p
      /\ 0 * p = 0
  BY <1>1
<1>4. /\ q * p \in Int /\ r * p \in Int /\ k * p \in Int /\ q + 1 \in Int /\ r + 1 \in Int
  BY <1>1
<1>5. 0 * p < (q + 1) * p
  BY <1>1, <1>3, <1>4
<1>6. 0 < q + 1
  BY <1>2, <1>4, <1>5
<1>7. ASSUME x <= y PROVE q <= r
  <2>1. q * p < (r + 1) * p
    BY <1>1, <1>3, <1>4, <1>7
  <2>2. q < r + 1
    BY <1>1, <1>2, <1>4, <2>1
  <2> QED BY <1>1, <2>2
<1>8. ASSUME x < k * p PROVE q < k
  <2>1. q * p < k * p
    BY <1>1, <1>4, <1>8
  <2> QED BY <1>1, <1>2, <2>1
<1>9. q \in Nat
  BY <1>1, <1>6
<1> QED BY <1>7, <1>8, <1>9 DEF q, r

\* A device selected no earlier than another one has no smaller penalty.
LEMMA PenaltyMonotone ==
  ASSUME NEW a, NEW b, NEW t \in Nat,
         a.lastSelectionTime \in Nat, b.lastSelectionTime \in Nat,
         b.lastSelectionTime <= a.lastSelectionTime, a.lastSelectionTime <= t
  PROVE  /\ Penalty(a, t) \in Nat /\ Penalty(b, t) \in Nat
         /\ 1 <= Penalty(b, t) /\ Penalty(b, t) <= Penalty(a, t)
<1> DEFINE x == t - a.lastSelectionTime
           y == t - b.lastSelectionTime
           S == ScoreBuckets
           p == ScoreBucketPeriod
<1>1. S \in Nat \ {0} /\ p \in Nat \ {0}
  BY TimeAssumption
<1>2. x \in Nat /\ y \in Nat /\ x <= y
  OBVIOUS
<1>3. /\ x \div p \in Nat /\ y \div p \in Nat /\ x \div p <= y \div p
      /\ x < S * p => x \div p < S
      /\ y < S * p => y \div p < S
  BY <1>1, <1>2, QuotientProperties
<1>4. /\ Penalty(a, t) = IF a.lastSelectionTime # 0 /\ x < S * p THEN 10 * (S - (x \div p)) ELSE 1
      /\ Penalty(b, t) = IF b.lastSelectionTime # 0 /\ y < S * p THEN 10 * (S - (y \div p)) ELSE 1
  BY DEF Penalty, ZeroTime
<1>5. S * p \in Nat
  BY <1>1
<1> DEFINE q == x \div p
           r == y \div p
           n == S * p
           P == Penalty(a, t)
           Q == Penalty(b, t)
<1>6. /\ q \in Nat /\ r \in Nat /\ q <= r /\ (x < n => q < S) /\ (y < n => r < S)
      /\ P = IF a.lastSelectionTime # 0 /\ x < n THEN 10 * (S - q) ELSE 1
      /\ Q = IF b.lastSelectionTime # 0 /\ y < n THEN 10 * (S - r) ELSE 1
      /\ n \in Nat
  BY <1>3, <1>4, <1>5
<1> HIDE DEF q, r, n, P, Q
<1>7. P \in Nat /\ Q \in Nat /\ 1 <= Q /\ Q <= P
  BY <1>1, <1>2, <1>6
<1> QED BY <1>7 DEF P, Q

\* The load of a device is not negative.
LEMMA LoadNotNegative ==
  ASSUME NEW d, NEW dev, DeviceInv(dev, d)
  PROVE  dev.currentWeight \in Nat /\ Cardinality(Seen(dev)) \in Nat
<1>1. IsFiniteSet(Seen(dev)) /\ dev.weightUsed \in [Weights -> Int]
  BY DeviceFields DEF DeviceInv
<1>2. \A k \in Weights : dev.weightUsed[k] = Cardinality(AssignedAt(dev, k))
  BY DEF DeviceInv, CountersAgree
<1>3. \A k \in Weights : Cardinality(AssignedAt(dev, k)) \in Nat
  BY <1>1, FS_Subset, FS_CardinalityType DEF AssignedAt
<1>4. dev.weightUsed \in [Weights -> Nat]
  BY <1>1, <1>2, <1>3
<1>5. dev.currentWeight = WeightSum(dev.weightUsed)
  BY DEF DeviceInv, CountersAgree
<1> QED BY <1>1, <1>4, <1>5, WeightSumBound, FS_CardinalityType

\* Products of naturals: both factors larger makes the product larger.
LEMMA ProductsCompare ==
  ASSUME NEW X \in Nat, NEW Y \in Nat, NEW P \in Nat, NEW Q \in Nat,
         Y < X, 1 <= Q, Q <= P
  PROVE  Y * Q < X * P
<1>1. X * P = X * Q + X * (P - Q) /\ X * Q = Y * Q + (X - Y) * Q
  OBVIOUS
<1>2. X * (P - Q) >= 0
  OBVIOUS
<1>3. (X - Y) * Q = (X - Y - 1) * Q + Q /\ (X - Y - 1) * Q >= 0
  OBVIOUS
<1>4. X * (P - Q) \in Int /\ (X - Y) * Q \in Int /\ Y * Q \in Int /\ (X - Y - 1) * Q \in Int
  OBVIOUS
<1> QED BY <1>1, <1>2, <1>3, <1>4

\* No device was selected in the future.
NoneInFuture == \A d \in DOMAIN devices : devices[d].lastSelectionTime <= now

\* A selection stamps the device with the present time.
LEMMA NoneInFutureStep ==
  SelectorInv /\ NoneInFuture /\ [Next]_vars => NoneInFuture'
<1> SUFFICES ASSUME SelectorInv, NoneInFuture, [Next]_vars
             PROVE  NoneInFuture'
  OBVIOUS
<1>1. now \in Nat \ {ZeroTime}
  BY SelectorInvShape
<1>2. \A d \in DOMAIN devices : devices[d].lastSelectionTime \in Nat
  BY SelectorInvShape, DeviceFields DEF DevicesInv, DeviceInv
<1>3. CASE UNCHANGED vars
  BY <1>3 DEF vars, NoneInFuture
<1>4. ASSUME NEW requested \in RequestedWeights, NEW d \in DeviceIDs,
             SelectWorker(requested, d)
      PROVE  NoneInFuture'
  <2>1. /\ DOMAIN devices' = DOMAIN devices /\ now' = now
        /\ \A e \in DOMAIN devices \ {d} : QuietFor(devices[e], devices'[e], rateLimit, now)
        /\ devices'[d].lastSelectionTime = now
    BY <1>4, SelectDoes
  <2> QED BY <1>1, <2>1 DEF NoneInFuture, QuietFor
<1>5. ASSUME NEW c \in Workers, SetWorkerAvailable(c)
      PROVE  NoneInFuture'
  <2> DEFINE d == DeviceOf[c]
  <2>1. /\ DOMAIN devices' = DOMAIN devices \cup {d} /\ now' = now
        /\ \A e \in DOMAIN devices \ {d} : devices'[e] = devices[e]
        /\ devices'[d].lastSelectionTime =
             IF d \in DOMAIN devices THEN devices[d].lastSelectionTime ELSE ZeroTime
    BY <1>5, AvailableDoes DEF Blank
  <2> HIDE DEF d
  <2> QED BY <1>1, <2>1 DEF NoneInFuture, ZeroTime
<1>6. ASSUME Upkeep, \A c \in Workers : ~ SetWorkerAvailable(c)
      PROVE  NoneInFuture'
  <2>1. Quiet(devices, devices', rateLimit, now) /\ now' \in {now, now + 1}
    BY <1>6, UpkeepDoes DEF ClockMoves
  <2>2. ASSUME NEW d \in DOMAIN devices'
        PROVE  devices'[d].lastSelectionTime =
                 IF d \in DOMAIN devices THEN devices[d].lastSelectionTime ELSE ZeroTime
    BY <2>1 DEF Quiet, QuietFor, Blank
  <2> QED BY <1>1, <1>2, <2>1, <2>2 DEF NoneInFuture, ZeroTime
<1> QED BY <1>3, <1>4, <1>5, <1>6 DEF Next

\* The device the selector takes is the best of those that may be asked: one that is less
\* loaded loses only to its penalty, so it was selected later (scoreDevice and
\* getBestDevice, for every request and every state).
THEOREM FairChoice == Spec => NoBusierAndFresher
<1> DEFINE Fair ==
      \A requested \in RequestedWeights, d \in DeviceIDs :
       SelectWorker(requested, d) =>
         \A e \in Eligible(devices, rateLimit, now) :
           LET weight == ClampWeight(requested)
               load(x) == devices[x].currentWeight + weight
               capacity(x) == Cardinality(Seen(devices[x]))
           IN  load(d) * capacity(e) > load(e) * capacity(d) =>
                 devices[d].lastSelectionTime < devices[e].lastSelectionTime
<1>1. ASSUME SelectorInv, NoneInFuture PROVE Fair
  <2> SUFFICES ASSUME NEW requested \in RequestedWeights, NEW d \in DeviceIDs,
                      SelectWorker(requested, d),
                      NEW e \in Eligible(devices, rateLimit, now)
               PROVE  LET weight == ClampWeight(requested)
                          load(x) == devices[x].currentWeight + weight
                          capacity(x) == Cardinality(Seen(devices[x]))
                      IN  load(d) * capacity(e) > load(e) * capacity(d) =>
                            devices[d].lastSelectionTime < devices[e].lastSelectionTime
    OBVIOUS
  <2> DEFINE weight == ClampWeight(requested)
             X == devices[d].currentWeight + weight
             Y == devices[e].currentWeight + weight
             C == Cardinality(Seen(devices[d]))
             E == Cardinality(Seen(devices[e]))
             P == Penalty(devices[d], now)
             Q == Penalty(devices[e], now)
             s == devices[d].lastSelectionTime
             t == devices[e].lastSelectionTime
  <2>1. d \in DOMAIN devices /\ e \in DOMAIN devices /\ ~ (Y * Q * C < X * P * E)
    BY DEF SelectWorker, BestDevices, Eligible, ScoresBelow, Seen
  <2>2. DeviceInv(devices[d], d) /\ DeviceInv(devices[e], e)
    BY <1>1, <2>1, SelectorInvShape DEF DevicesInv
  <2>3. weight \in Nat
    BY WeightsAssumption, ClampWeightType DEF Weights, MinimumWeight, MaximumWeight
  <2>4. X \in Nat /\ Y \in Nat /\ C \in Nat /\ E \in Nat
    BY <2>2, <2>3, LoadNotNegative
  <2>5. now \in Nat /\ s \in Nat /\ t \in Nat /\ s <= now /\ t <= now
    BY <1>1, <2>1, <2>2, SelectorInvShape, DeviceFields DEF DeviceInv, NoneInFuture
  <2>6. t <= s => P \in Nat /\ Q \in Nat /\ 1 <= Q /\ Q <= P
    BY <2>5, PenaltyMonotone
  <2> HIDE DEF X, Y, C, E, P, Q, s, t
  <2>7. ASSUME X * E > Y * C PROVE s < t
    <3> SUFFICES ASSUME t <= s PROVE FALSE
      BY <2>5
    <3>1. P \in Nat /\ Q \in Nat /\ 1 <= Q /\ Q <= P
      BY <2>6
    <3>2. X * E \in Nat /\ Y * C \in Nat
      BY <2>4
    <3>3. (Y * C) * Q < (X * E) * P
      BY <2>7, <3>1, <3>2, ProductsCompare
    <3>4. (Y * C) * Q = Y * Q * C /\ (X * E) * P = X * P * E
      BY <2>4, <3>1
    <3> QED BY <2>1, <3>3, <3>4
  <2> QED BY <2>7 DEF X, Y, C, E, s, t
<1>2. Init => NoneInFuture
  BY DEF Init, NoneInFuture
<1>3. SelectorInv /\ NoneInFuture => Fair
  BY <1>1
<1> HIDE DEF Fair
<1>4. SelectorInv /\ NoneInFuture /\ [Next]_vars => [Fair]_vars
  BY <1>3
<1>5. Spec => [][Fair]_vars
  BY <1>2, <1>4, NoneInFutureStep, SelectorInvariant, PTL DEF Spec
<1> QED BY <1>5 DEF NoBusierAndFresher, Fair

-----------------------------------------------------------------------------
(* The order of the queue. *)

\* Elements that two sequences share stand in the same order in both.
InOrder(r, s) ==
  \A a, b \in DOMAIN r, i, j \in DOMAIN s : r[a] = s[i] /\ r[b] = s[j] /\ i < j => a < b

\* Removing an element keeps the order of the others.
LEMMA RemoveFirstInOrder ==
  ASSUME NEW S, NEW s \in Seq(S), IsInjective(s), NEW e
  PROVE  InOrder(RemoveFirst(s, e), s)
<1> DEFINE r == RemoveFirst(s, e)
<1>1. CASE r = s
  BY <1>1 DEF InOrder, IsInjective
<1>2. CASE r # s
  <2>1. PICK k \in 1..Len(s) :
          /\ r \in Seq(S) /\ Len(r) = Len(s) - 1
          /\ \A j \in 1..(Len(s) - 1) : r[j] = IF j < k THEN s[j] ELSE s[j + 1]
    BY <1>2, RemoveFirstShape
  <2> HIDE DEF r
  <2>2. ASSUME NEW a \in DOMAIN r, NEW i \in DOMAIN s, r[a] = s[i]
        PROVE  i = IF a < k THEN a ELSE a + 1
    <3>1. /\ DOMAIN s = 1..Len(s) /\ DOMAIN r = 1..(Len(s) - 1) /\ Len(s) \in Nat
          /\ k \in Int /\ a \in Int
      BY <2>1
    <3>2. CASE a < k
      BY <2>1, <2>2, <3>1, <3>2 DEF IsInjective
    <3>3. CASE a >= k
      <4>1. r[a] = s[a + 1] /\ a + 1 \in DOMAIN s
        BY <2>1, <3>1, <3>3
      <4>2. s[i] = s[a + 1]
        BY <2>2, <4>1
      <4>3. i = a + 1
        BY <4>1, <4>2 DEF IsInjective
      <4> QED BY <3>1, <3>3, <4>3
    <3> QED BY <3>1, <3>2, <3>3
  <2>3. DOMAIN r = 1..(Len(s) - 1) /\ Len(s) \in Nat /\ k \in Int
    BY <2>1
  <2>4. ASSUME NEW a \in DOMAIN r, NEW b \in DOMAIN r, NEW i \in DOMAIN s,
               NEW j \in DOMAIN s, r[a] = s[i], r[b] = s[j], i < j
        PROVE  a < b
    <3>1. i = (IF a < k THEN a ELSE a + 1) /\ j = (IF b < k THEN b ELSE b + 1)
      BY <2>2, <2>4
    <3> QED BY <2>3, <2>4, <3>1
  <2>5. InOrder(r, s)
    BY <2>4 DEF InOrder
  <2> QED BY <2>5 DEF r
<1> QED BY <1>1, <1>2

\* So does taking the first one.
LEMMA TailInOrder ==
  ASSUME NEW S, NEW s \in Seq(S), IsInjective(s), s # <<>>
  PROVE  InOrder(Tail(s), s)
<1> DEFINE r == Tail(s)
<1>1. /\ DOMAIN s = 1..Len(s) /\ Len(s) \in Nat \ {0}
      /\ DOMAIN r = 1..(Len(s) - 1)
      /\ \A a \in 1..(Len(s) - 1) : r[a] = s[a + 1]
  OBVIOUS
<1> HIDE DEF r
<1>2. ASSUME NEW a \in DOMAIN r, NEW i \in DOMAIN s, r[a] = s[i]
      PROVE  i = a + 1
  BY <1>1, <1>2 DEF IsInjective
<1>3. InOrder(r, s)
  BY <1>1, <1>2 DEF InOrder
<1> QED BY <1>3 DEF r

\* The order is inherited.
LEMMA InOrderTransitive ==
  ASSUME NEW r, NEW q, NEW s, InOrder(r, q), InOrder(q, s), Range(r) \subseteq Range(q)
  PROVE  InOrder(r, s)
<1> SUFFICES ASSUME NEW a \in DOMAIN r, NEW b \in DOMAIN r, NEW i \in DOMAIN s,
                    NEW j \in DOMAIN s, r[a] = s[i], r[b] = s[j], i < j
             PROVE  a < b
  BY DEF InOrder
<1>1. PICK x \in DOMAIN q, y \in DOMAIN q : q[x] = r[a] /\ q[y] = r[b]
  BY DEF Range
<1>2. x < y
  BY <1>1 DEF InOrder
<1> QED BY <1>1, <1>2 DEF InOrder

\* A worker that announces itself goes to the end of both sequences.
LEMMA ToTheEnd ==
  ASSUME NEW S, NEW q \in Seq(S), NEW s \in Seq(S), IsInjective(q), IsInjective(s),
         InOrder(q, s), Range(q) \subseteq Range(s), NEW e \in S
  PROVE  InOrder(Append(RemoveFirst(q, e), e), Append(RemoveFirst(s, e), e))
<1> DEFINE r == RemoveFirst(q, e)
           u == RemoveFirst(s, e)
<1>1. /\ r \in Seq(S) /\ Range(r) = Range(q) \ {e}
      /\ u \in Seq(S) /\ Range(u) = Range(s) \ {e}
  BY RemoveFirstProperties
<1>2. InOrder(r, s)
  BY <1>1, RemoveFirstInOrder, InOrderTransitive
<1>3. \/ u = s
      \/ \E k \in 1..Len(s) :
           /\ Len(u) = Len(s) - 1
           /\ \A j \in 1..(Len(s) - 1) : u[j] = IF j < k THEN s[j] ELSE s[j + 1]
  BY RemoveFirstShape
<1> HIDE DEF r, u
<1>4. InOrder(r, u)
  <2>1. CASE u = s
    BY <1>2, <2>1
  <2>2. CASE u # s
    <3>1. PICK k \in 1..Len(s) :
            /\ Len(u) = Len(s) - 1
            /\ \A j \in 1..(Len(s) - 1) : u[j] = IF j < k THEN s[j] ELSE s[j + 1]
      BY <1>3, <2>2
    <3> DEFINE at(j) == IF j < k THEN j ELSE j + 1
    <3>2. \A j \in DOMAIN u : at(j) \in DOMAIN s /\ u[j] = s[at(j)]
      BY <1>1, <3>1
    <3>3. \A i, j \in DOMAIN u : i < j => at(i) < at(j)
      BY <1>1, <3>1
    <3> HIDE DEF at
    <3> QED BY <1>2, <3>2, <3>3 DEF InOrder
  <2> QED BY <2>1, <2>2
<1>5. e \notin Range(r) /\ e \notin Range(u)
  BY <1>1
<1> DEFINE rr == Append(r, e)
           uu == Append(u, e)
<1>6. /\ DOMAIN rr = 1..(Len(r) + 1) /\ DOMAIN r = 1..Len(r) /\ Len(r) \in Nat
      /\ rr[Len(r) + 1] = e /\ \A i \in 1..Len(r) : rr[i] = r[i]
      /\ DOMAIN uu = 1..(Len(u) + 1) /\ DOMAIN u = 1..Len(u) /\ Len(u) \in Nat
      /\ uu[Len(u) + 1] = e /\ \A i \in 1..Len(u) : uu[i] = u[i]
  BY <1>1
<1> HIDE DEF rr, uu
<1>7. /\ \A a \in DOMAIN rr : rr[a] = e <=> a = Len(r) + 1
      /\ \A i \in DOMAIN uu : uu[i] = e <=> i = Len(u) + 1
  <2>1. /\ \A a \in 1..Len(r) : r[a] # e
        /\ \A i \in 1..Len(u) : u[i] # e
    BY <1>5, <1>6 DEF Range
  <2>2. \A a \in DOMAIN rr : rr[a] = e <=> a = Len(r) + 1
    BY <1>6, <2>1
  <2>3. \A i \in DOMAIN uu : uu[i] = e <=> i = Len(u) + 1
    BY <1>6, <2>1
  <2> QED
    BY <2>2, <2>3
<1>8. ASSUME NEW a \in DOMAIN rr, NEW b \in DOMAIN rr, NEW i \in DOMAIN uu,
             NEW j \in DOMAIN uu, rr[a] = uu[i], rr[b] = uu[j], i < j
      PROVE  a < b
  <2>1. i \in DOMAIN u /\ a \in DOMAIN r /\ r[a] = u[i]
    BY <1>6, <1>7, <1>8
  <2>2. CASE j = Len(u) + 1
    BY <1>6, <1>7, <1>8, <2>1, <2>2
  <2>3. CASE j # Len(u) + 1
    <3>1. j \in DOMAIN u /\ b \in DOMAIN r /\ r[b] = u[j]
      BY <1>6, <1>7, <1>8, <2>3
    <3> QED BY <1>4, <1>8, <2>1, <3>1 DEF InOrder
  <2> QED BY <2>2, <2>3
<1>9. InOrder(rr, uu)
  BY <1>8 DEF InOrder
<1> QED BY <1>9 DEF rr, uu, r, u

\* The auditor watches the selector and changes nothing.
LEMMA AuditedSelector == AuditSpec => Spec
<1>1. AuditInit => Init
  BY DEF AuditInit
<1>2. [AuditNext]_auditVars => [Next]_vars
  BY DEF AuditNext, Next, Upkeep, auditVars, vars
<1> QED BY <1>1, <1>2, PTL DEF AuditSpec, Spec

\* So what holds of the selector holds when it is audited.
LEMMA AuditedInvariant == AuditSpec => []SelectorInv
BY AuditedSelector, SelectorInvariant, PTL

\* The queue of a device holds workers that announced themselves, in that order.
Lined(q, s) == Range(q) \subseteq Range(s) /\ InOrder(q, s)

\* A queue stays in the order of the announcements whatever is taken out of it, and when a
\* worker announces itself again.
LEMMA LinedSteps ==
  ASSUME NEW S, NEW q \in Seq(S), NEW s \in Seq(S), IsInjective(q), IsInjective(s), Lined(q, s)
  PROVE  /\ \A e : Lined(RemoveFirst(q, e), s)
         /\ q # <<>> => Lined(Tail(q), s)
         /\ \A e \in S : LET u == Append(RemoveFirst(s, e), e)
                         IN  /\ u \in Seq(S) /\ IsInjective(u)
                             /\ Lined(Append(RemoveFirst(q, e), e), u)
<1>1. ASSUME NEW e PROVE Lined(RemoveFirst(q, e), s)
  <2>1. Range(RemoveFirst(q, e)) \subseteq Range(q)
    BY RemoveFirstProperties
  <2>2. InOrder(RemoveFirst(q, e), q)
    BY RemoveFirstInOrder
  <2> QED BY <2>1, <2>2, InOrderTransitive DEF Lined
<1>2. ASSUME q # <<>> PROVE Lined(Tail(q), s)
  <2>1. Range(Tail(q)) \subseteq Range(q)
    BY <1>2, TailProperties
  <2>2. InOrder(Tail(q), q)
    BY <1>2, TailInOrder
  <2> QED BY <2>1, <2>2, InOrderTransitive DEF Lined
<1>3. ASSUME NEW e \in S
      PROVE  LET u == Append(RemoveFirst(s, e), e)
             IN  /\ u \in Seq(S) /\ IsInjective(u)
                 /\ Lined(Append(RemoveFirst(q, e), e), u)
  <2>1. /\ RemoveFirst(s, e) \in Seq(S) /\ IsInjective(RemoveFirst(s, e))
        /\ Range(RemoveFirst(s, e)) = Range(s) \ {e}
        /\ RemoveFirst(q, e) \in Seq(S) /\ IsInjective(RemoveFirst(q, e))
        /\ Range(RemoveFirst(q, e)) = Range(q) \ {e}
    BY RemoveFirstProperties
  <2>2. /\ Append(RemoveFirst(s, e), e) \in Seq(S) /\ IsInjective(Append(RemoveFirst(s, e), e))
        /\ Range(Append(RemoveFirst(s, e), e)) = (Range(s) \ {e}) \cup {e}
        /\ Range(Append(RemoveFirst(q, e), e)) = (Range(q) \ {e}) \cup {e}
    BY <2>1, AppendNewProperties
  <2>3. InOrder(Append(RemoveFirst(q, e), e), Append(RemoveFirst(s, e), e))
    BY ToTheEnd DEF Lined
  <2> QED BY <2>2, <2>3 DEF Lined
<1> QED BY <1>1, <1>2, <1>3

\* The inductive invariant of LongestWaitingFirst.
ArrivalsInv ==
  /\ arrivals \in [DeviceIDs -> Seq(WorkerIDs)]
  /\ \A d \in DeviceIDs : IsInjective(arrivals[d])
  /\ \A d \in DeviceIDs \ DOMAIN devices : arrivals[d] = <<>>
  /\ \A d \in DOMAIN devices : Lined(devices[d].availableWorkers, arrivals[d])

\* Every step keeps every queue in the order of the announcements.
LEMMA ArrivalsStep ==
  SelectorInv /\ ArrivalsInv /\ [AuditNext]_auditVars => ArrivalsInv'
<1> SUFFICES ASSUME SelectorInv, ArrivalsInv, [AuditNext]_auditVars
             PROVE  ArrivalsInv'
  OBVIOUS
<1>1. /\ DOMAIN devices \subseteq DeviceIDs
      /\ \A d \in DOMAIN devices : /\ devices[d].availableWorkers \in Seq(WorkerIDs)
                                   /\ IsInjective(devices[d].availableWorkers)
  BY SelectorInvShape, DeviceFields DEF DevicesInv, DeviceInv, QueueSound
<1>2. /\ arrivals \in [DeviceIDs -> Seq(WorkerIDs)]
      /\ \A d \in DeviceIDs : arrivals[d] \in Seq(WorkerIDs) /\ IsInjective(arrivals[d])
      /\ \A d \in DeviceIDs \ DOMAIN devices : arrivals[d] = <<>>
      /\ \A d \in DOMAIN devices : Lined(devices[d].availableWorkers, arrivals[d])
  BY DEF ArrivalsInv
<1>3. Lined(<<>>, <<>>) /\ IsInjective(<<>>)
  BY DEF Lined, InOrder, Range, IsInjective
<1>4. ASSUME NEW d \in DOMAIN devices, NEW after, QuietFor(devices[d], after, rateLimit, now)
      PROVE  Lined(after.availableWorkers, arrivals[d])
  BY <1>1, <1>2, <1>4, LinedSteps DEF QuietFor
<1>5. CASE UNCHANGED auditVars
  BY <1>5 DEF auditVars, ArrivalsInv
<1>6. ASSUME NEW requested \in RequestedWeights, NEW d \in DeviceIDs,
             SelectWorker(requested, d), arrivals' = arrivals
      PROVE  ArrivalsInv'
  <2>1. /\ DOMAIN devices' = DOMAIN devices /\ d \in DOMAIN devices
        /\ \A e \in DOMAIN devices \ {d} : QuietFor(devices[e], devices'[e], rateLimit, now)
        /\ devices[d].availableWorkers # <<>>
        /\ devices'[d].availableWorkers = Tail(devices[d].availableWorkers)
    BY <1>6, SelectDoes
  <2>2. Lined(devices'[d].availableWorkers, arrivals[d])
    BY <1>1, <1>2, <2>1, LinedSteps
  <2>3. \A e \in DOMAIN devices : Lined(devices'[e].availableWorkers, arrivals[e])
    BY <1>4, <2>1, <2>2
  <2> QED BY <1>2, <1>6, <2>1, <2>3 DEF ArrivalsInv
<1>7. ASSUME NEW c \in Workers, SetWorkerAvailable(c),
             arrivals' = [arrivals EXCEPT ![DeviceOf[c]] = Append(RemoveFirst(@, IDOf[c]), IDOf[c])]
      PROVE  ArrivalsInv'
  <2> DEFINE d == DeviceOf[c]
             id == IDOf[c]
  <2>1. PICK dev :
          /\ IF d \in DOMAIN devices THEN dev = devices[d] ELSE Blank(dev)
          /\ devices'[d].availableWorkers = Append(RemoveFirst(dev.availableWorkers, id), id)
    BY <1>7, AvailableDoes
  <2>2. /\ d \in DeviceIDs /\ id \in WorkerIDs
        /\ DOMAIN devices' = DOMAIN devices \cup {d}
        /\ \A e \in DOMAIN devices \ {d} : devices'[e] = devices[e]
    BY <1>7, AvailableDoes
  <2>3. arrivals' = [arrivals EXCEPT ![d] = Append(RemoveFirst(arrivals[d], id), id)]
    BY <1>7
  <2> HIDE DEF d, id
  <2>4. /\ dev.availableWorkers \in Seq(WorkerIDs) /\ IsInjective(dev.availableWorkers)
        /\ Lined(dev.availableWorkers, arrivals[d])
    BY <1>1, <1>2, <1>3, <2>1, <2>2 DEF Blank
  <2>5. /\ Append(RemoveFirst(arrivals[d], id), id) \in Seq(WorkerIDs)
        /\ IsInjective(Append(RemoveFirst(arrivals[d], id), id))
        /\ Lined(devices'[d].availableWorkers, Append(RemoveFirst(arrivals[d], id), id))
    BY <1>2, <2>1, <2>2, <2>4, LinedSteps
  <2>6. /\ arrivals' \in [DeviceIDs -> Seq(WorkerIDs)]
        /\ \A e \in DeviceIDs :
             arrivals'[e] = IF e = d THEN Append(RemoveFirst(arrivals[d], id), id) ELSE arrivals[e]
    BY <1>2, <2>2, <2>3, <2>5
  <2> QED BY <1>1, <1>2, <2>2, <2>5, <2>6 DEF ArrivalsInv
<1>8. ASSUME Upkeep, \A c \in Workers : ~ SetWorkerAvailable(c), arrivals' = Forget(arrivals)
      PROVE  ArrivalsInv'
  <2>1. Quiet(devices, devices', rateLimit, now)
    BY <1>8, UpkeepDoes
  <2>2. \A d \in DeviceIDs : arrivals'[d] = IF d \in DOMAIN devices' THEN arrivals[d] ELSE <<>>
    BY <1>8 DEF Forget
  <2>3. arrivals' \in [DeviceIDs -> Seq(WorkerIDs)]
    BY <1>2, <1>8 DEF Forget
  <2>4. DOMAIN devices' \subseteq DeviceIDs
    <3>1. [Next]_vars
      BY <1>8 DEF Next
    <3>2. SelectorInv'
      BY <3>1, StepInv
    <3> QED BY <3>2 DEF SelectorInv, TypeOK
  <2>5. ASSUME NEW d \in DOMAIN devices' PROVE Lined(devices'[d].availableWorkers, arrivals'[d])
    <3>1. CASE d \in DOMAIN devices
      BY <1>4, <2>1, <2>2, <2>4, <2>5, <3>1 DEF Quiet
    <3>2. CASE d \notin DOMAIN devices
      <4>1. devices'[d].availableWorkers = <<>>
        BY <2>1, <2>5, <3>2 DEF Quiet, Blank
      <4>2. arrivals'[d] = <<>>
        BY <1>2, <2>2, <2>4, <2>5, <3>2
      <4> QED BY <1>3, <4>1, <4>2
    <3> QED BY <3>1, <3>2
  <2> QED BY <1>2, <1>3, <2>2, <2>3, <2>5 DEF ArrivalsInv
<1> QED BY <1>5, <1>6, <1>7, <1>8 DEF AuditNext

\* Whoever announced itself before the worker that is handed out is not waiting any more:
\* the queue SetWorkerAvailable appends to and claimWorkerFromDevice takes the head of is
\* in the order of the announcements, whatever reconnects and disconnects came between.
THEOREM FirstComeFirstServed == AuditSpec => LongestWaitingFirst
<1> DEFINE First ==
      \A d \in DOMAIN devices : \A id \in Seen(devices[d]) :
       (\E requested \in RequestedWeights : SelectWorker(requested, d))
         /\ id \in Assigned(devices'[d]) \ Assigned(devices[d]) =>
         \A i, j \in DOMAIN arrivals[d] :
           arrivals[d][i] = id /\ j < i =>
             arrivals[d][j] \notin Range(devices[d].availableWorkers)
<1>1. ASSUME SelectorInv, ArrivalsInv PROVE First
  <2> SUFFICES ASSUME NEW d \in DOMAIN devices, NEW id \in Seen(devices[d]),
                      NEW requested \in RequestedWeights, SelectWorker(requested, d),
                      id \in Assigned(devices'[d]) \ Assigned(devices[d]),
                      NEW i \in DOMAIN arrivals[d], NEW j \in DOMAIN arrivals[d],
                      arrivals[d][i] = id, j < i,
                      arrivals[d][j] \in Range(devices[d].availableWorkers)
               PROVE  FALSE
    OBVIOUS
  <2> DEFINE q == devices[d].availableWorkers
  <2>1. d \in DeviceIDs /\ q \in Seq(WorkerIDs)
    BY <1>1, SelectorInvShape, DeviceFields DEF DevicesInv, DeviceInv
  <2>2. id = Head(q) /\ q # <<>>
    BY <1>1, <2>1, SelectDoes DEF Assigned
  <2>3. Lined(q, arrivals[d])
    BY <1>1 DEF ArrivalsInv
  <2>4. 1 \in DOMAIN q /\ q[1] = id
    BY <2>1, <2>2
  <2> HIDE DEF q
  <2>5. PICK b \in DOMAIN q : q[b] = arrivals[d][j]
    BY DEF Range, q
  <2>6. b < 1
    BY <2>3, <2>4, <2>5 DEF Lined, InOrder
  <2>7. b \in 1..Len(q)
    BY <2>1, <2>5
  <2> QED BY <2>6, <2>7
<1>2. AuditInit => ArrivalsInv
  <2>1. IsInjective(<<>>)
    BY DEF IsInjective
  <2> QED BY <2>1 DEF AuditInit, Init, ArrivalsInv
<1>3. SelectorInv /\ ArrivalsInv => First
  BY <1>1
<1> HIDE DEF First
<1>4. SelectorInv /\ ArrivalsInv /\ [AuditNext]_auditVars => [First]_auditVars
  BY <1>3
<1>5. AuditSpec => [][First]_auditVars
  BY <1>2, <1>4, ArrivalsStep, AuditedInvariant, PTL DEF AuditSpec
<1> QED BY <1>5 DEF LongestWaitingFirst, First

-----------------------------------------------------------------------------
(* The rate limit. *)

\* Pruning a history drops its oldest selections: all that are over, and the oldest one it
\* keeps is not over.
LEMMA RecentShape ==
  ASSUME NEW h \in Seq(Nat), NEW cfg \in RateLimits, NEW t \in Nat
  PROVE  LET r == RecentSelections(h, cfg, t)
         IN  \E k \in 0..Len(h) :
               /\ r \in Seq(Nat) /\ Len(r) = Len(h) - k
               /\ \A i \in 1..Len(r) : r[i] = h[k + i]
               /\ \A i \in 1..k : h[i] <= t - cfg.Duration
               /\ k < Len(h) => h[k + 1] > t - cfg.Duration
<1> DEFINE r == RecentSelections(h, cfg, t)
           recent == {i \in DOMAIN h : h[i] > t - cfg.Duration}
           D == cfg.Duration
<1>1. D \in Int
  BY RateLimitsAssumption
<1>2. /\ DOMAIN h = 1..Len(h) /\ Len(h) \in Nat
      /\ \A i \in 1..Len(h) : h[i] \in Nat
      /\ \A i \in 1..Len(h) : i \in recent <=> h[i] > t - D
      /\ recent \subseteq 1..Len(h)
  OBVIOUS
<1>3. r = IF recent = {} THEN <<>> ELSE SubSeq(h, Min(recent), Len(h))
  BY DEF RecentSelections
<1>4. r \in Seq(Nat)
  BY RecentSelectionsType
<1> HIDE DEF D, recent
<1>5. CASE recent = {}
  <2> DEFINE k == Len(h)
  <2>1. \A i \in 1..k : h[i] <= t - D
    BY <1>1, <1>2, <1>5
  <2>2. r = <<>>
    BY <1>3, <1>5
  <2> HIDE DEF r
  <2>3. k \in 0..Len(h) /\ Len(r) = Len(h) - k /\ ~ (k < Len(h))
    BY <1>2, <2>2
  <2>4. \A i \in 1..Len(r) : r[i] = h[k + i]
    BY <1>2, <2>3
  <2> HIDE DEF k
  <2> QED BY <1>4, <2>1, <2>3, <2>4 DEF r, D
<1>6. CASE recent # {}
  <2> DEFINE m == Min(recent)
  <2>1. m \in recent /\ \A i \in recent : m <= i
    <3>1. recent \subseteq Nat
      BY <1>2
    <3> QED BY <1>6, <3>1, MinProperties
  <2> HIDE DEF m
  <2>2. m \in 1..Len(h) /\ m - 1 \in 0..Len(h) /\ h[m] > t - D
    BY <1>2, <2>1
  <2>3. r = SubSeq(h, m, Len(h))
    BY <1>3, <1>6 DEF m
  <2>4. /\ Len(r) = Len(h) - m + 1
        /\ \A i \in 1..(Len(h) - m + 1) : r[i] = h[m + i - 1]
    <3>1. \A i \in m..Len(h) : h[i] \in Nat
      BY <1>2, <2>2
    <3> QED BY <1>2, <2>2, <2>3, <3>1, SubSeqProperties
  <2>5. \A i \in 1..(m - 1) : h[i] <= t - D
    BY <1>1, <1>2, <2>1, <2>2
  <2> HIDE DEF r
  <2> DEFINE k == m - 1
  <2>6. k \in 0..Len(h) /\ Len(r) = Len(h) - k /\ k + 1 = m
    BY <1>2, <2>2, <2>4
  <2>7. \A i \in 1..Len(r) : r[i] = h[k + i]
    BY <1>2, <2>2, <2>4
  <2>8. /\ \A i \in 1..k : h[i] <= t - D
        /\ k < Len(h) => h[k + 1] > t - D
    BY <2>2, <2>5, <2>6
  <2> HIDE DEF k
  <2> QED BY <1>4, <2>6, <2>7, <2>8 DEF r, D
<1> QED BY <1>5, <1>6

\* Times in the order they passed, none of them after t.
Chronicle(g, t) ==
  /\ g \in Seq(Nat)
  /\ \A i \in 1..Len(g) : g[i] <= t
  /\ \A i, j \in 1..Len(g) : i <= j => g[i] <= g[j]

\* The history h holds the latest selections of a device, and of those later than the
\* first e it holds every one that is not over.
Remembered(h, g, e, cfg, t) ==
  /\ h \in Seq(Nat) /\ e \in 0..Len(g)
  /\ Len(h) <= Len(g)
  /\ \A i \in 1..Len(h) : h[i] = g[Len(g) - Len(h) + i]
  /\ \A i \in (e + 1)..(Len(g) - Len(h)) : g[i] <= t - cfg.Duration

\* Pruning forgets only what is over.
LEMMA PruneRemembers ==
  ASSUME NEW h, NEW g, NEW e, NEW cfg \in RateLimits, NEW t \in Nat,
         Chronicle(g, t), Remembered(h, g, e, cfg, t)
  PROVE  Remembered(RecentSelections(h, cfg, t), g, e, cfg, t)
<1> DEFINE r == RecentSelections(h, cfg, t)
           D == cfg.Duration
           n == Len(g)
           m == Len(h)
<1>1. h \in Seq(Nat) /\ g \in Seq(Nat) /\ n \in Nat /\ m \in Nat /\ m <= n /\ e \in 0..n
  BY DEF Chronicle, Remembered
<1>2. /\ \A i \in 1..m : h[i] = g[n - m + i]
      /\ \A i \in (e + 1)..(n - m) : g[i] <= t - D
  BY DEF Remembered
<1>3. PICK k \in 0..m :
        /\ r \in Seq(Nat) /\ Len(r) = m - k
        /\ \A i \in 1..Len(r) : r[i] = h[k + i]
        /\ \A i \in 1..k : h[i] <= t - D
  BY <1>1, RecentShape
<1> HIDE DEF r, D, n, m
<1>4. \A i \in 1..(m - k) : r[i] = g[n - (m - k) + i]
  <2> TAKE i \in 1..(m - k)
  <2>1. k + i \in 1..m /\ n - m + (k + i) = n - (m - k) + i
    BY <1>1
  <2>2. r[i] = h[k + i]
    BY <1>3
  <2>3. h[k + i] = g[n - m + (k + i)]
    BY <1>2, <2>1
  <2> QED BY <2>1, <2>2, <2>3
<1>5. \A i \in (e + 1)..(n - (m - k)) : g[i] <= t - D
  <2> TAKE i \in (e + 1)..(n - (m - k))
  <2>1. CASE i <= n - m
    BY <1>1, <1>2, <2>1
  <2>2. CASE i > n - m
    <3>1. i - (n - m) \in 1..k /\ i - (n - m) \in 1..m /\ n - m + (i - (n - m)) = i
      BY <1>1, <2>2
    <3>2. h[i - (n - m)] = g[n - m + (i - (n - m))]
      BY <1>2, <3>1
    <3> QED BY <1>3, <3>1, <3>2
  <2> QED BY <1>1, <2>1, <2>2
<1>6. Len(r) = m - k /\ m - k <= n
  BY <1>1, <1>3
<1> QED BY <1>1, <1>3, <1>4, <1>5, <1>6 DEF Remembered, r, D, n, m

\* The selections of a chronicle in the window that ends at t.
Window(g, cfg, t) == {i \in DOMAIN g : g[i] > t - cfg.Duration /\ g[i] <= t}

\* What a pruned history holds is in the window, and is all of the window that came later
\* than the first e: its length may stand for the number of selections in the window.
LEMMA HistoryCounts ==
  ASSUME NEW h, NEW g, NEW e, NEW cfg \in RateLimits, NEW t \in Nat,
         Chronicle(g, t), Remembered(h, g, e, cfg, t)
  PROVE  LET r == RecentSelections(h, cfg, t)
         IN  /\ Len(r) \in Nat /\ Cardinality(Window(g, cfg, t)) \in Nat
             /\ Len(r) <= Cardinality(Window(g, cfg, t))
             /\ IsFiniteSet(Window(g, cfg, t) \cap (e + 1)..Len(g))
             /\ Cardinality(Window(g, cfg, t) \cap (e + 1)..Len(g)) \in Nat
             /\ Cardinality(Window(g, cfg, t) \cap (e + 1)..Len(g)) <= Len(r)
<1> DEFINE r == RecentSelections(h, cfg, t)
           D == cfg.Duration
           n == Len(g)
           m == Len(h)
           W == Window(g, cfg, t)
           Kept == (n - Len(r) + 1)..n
<1>1. /\ h \in Seq(Nat) /\ g \in Seq(Nat) /\ n \in Nat /\ m \in Nat /\ m <= n /\ e \in 0..n
      /\ DOMAIN g = 1..n /\ \A i \in 1..n : g[i] \in Nat /\ g[i] <= t
      /\ \A i, j \in 1..n : i <= j => g[i] <= g[j]
      /\ D \in Int
  BY RateLimitsAssumption DEF Chronicle, Remembered
<1>2. \A i \in 1..m : h[i] = g[n - m + i]
  BY DEF Remembered
<1>3. PICK k \in 0..m :
        /\ r \in Seq(Nat) /\ Len(r) = m - k
        /\ k < m => h[k + 1] > t - D
  BY <1>1, RecentShape
<1>4. /\ Len(r) \in Nat /\ Len(r) <= n
      /\ \A i \in (e + 1)..(n - Len(r)) : g[i] <= t - D
  <2>1. Remembered(r, g, e, cfg, t)
    BY PruneRemembers
  <2> QED BY <1>1, <1>3, <2>1 DEF Remembered
<1>5. \A i \in 1..n : i \in W <=> g[i] > t - D
  BY <1>1 DEF Window
<1>6. W \subseteq 1..n
  BY <1>1 DEF Window
<1>7. Len(r) = m - k
  BY <1>3
<1> HIDE DEF r, D, n, m, W
<1>8. Kept \subseteq W
  <2> SUFFICES ASSUME NEW i \in Kept PROVE i \in W
    OBVIOUS
  <2>1. i \in 1..n /\ k < m
    BY <1>1, <1>4, <1>7
  <2>2. k + 1 \in 1..m /\ n - m + (k + 1) \in 1..n /\ n - m + (k + 1) <= i
    BY <1>1, <1>7, <2>1
  <2>3. g[n - m + (k + 1)] > t - D
    BY <1>2, <1>3, <2>1, <2>2
  <2>4. g[n - m + (k + 1)] <= g[i]
    BY <1>1, <2>1, <2>2
  <2>5. g[i] \in Nat /\ g[n - m + (k + 1)] \in Nat /\ t - D \in Int
    BY <1>1, <2>1, <2>2
  <2>6. g[i] > t - D
    BY <2>3, <2>4, <2>5
  <2> QED BY <1>5, <2>1, <2>6
<1>9. W \cap (e + 1)..n \subseteq Kept
  <2> SUFFICES ASSUME NEW i \in W, i \in (e + 1)..n PROVE i \in Kept
    OBVIOUS
  <2>1. i \in 1..n
    BY <1>6
  <2>2. g[i] > t - D /\ g[i] \in Nat /\ t - D \in Int
    BY <1>1, <1>5, <2>1
  <2>3. ~ (i <= n - Len(r))
    <3> SUFFICES ASSUME i <= n - Len(r) PROVE FALSE
      OBVIOUS
    <3>1. i \in (e + 1)..(n - Len(r))
      BY <1>1, <1>4, <2>1
    <3> QED BY <1>4, <2>2, <3>1
  <2> QED BY <1>1, <1>4, <2>1, <2>3
<1>10. IsFiniteSet(W) /\ IsFiniteSet(1..n)
  <2>1. IsFiniteSet(1..n)
    BY <1>1, FS_Interval
  <2> QED BY <1>6, <2>1, FS_Subset
<1>11. /\ IsFiniteSet(Kept)
       /\ Cardinality(Kept) = Len(r)
  <2>1. n - Len(r) + 1 \in Int /\ n \in Int
    BY <1>1, <1>4
  <2>2. /\ IsFiniteSet(Kept)
        /\ Cardinality(Kept) = IF n - Len(r) + 1 > n THEN 0 ELSE n - (n - Len(r) + 1) + 1
    BY <2>1, FS_Interval
  <2>3. (IF n - Len(r) + 1 > n THEN 0 ELSE n - (n - Len(r) + 1) + 1) = Len(r)
    BY <1>1, <1>4
  <2> QED BY <2>2, <2>3
<1>12. Cardinality(Kept) <= Cardinality(W)
  BY <1>8, <1>10, FS_Subset
<1> HIDE DEF Kept
<1>13. /\ IsFiniteSet(W \cap (e + 1)..n)
       /\ Cardinality(W \cap (e + 1)..n) <= Cardinality(Kept)
  BY <1>9, <1>11, FS_Subset
<1>14. Cardinality(W) \in Nat /\ Cardinality(W \cap (e + 1)..n) \in Nat
  BY <1>10, <1>13, FS_CardinalityType
<1> QED BY <1>4, <1>11, <1>12, <1>13, <1>14 DEF r, n, W

\* No window of the configured duration holds too many of the selections after the first e.
Limited(g, e, cfg, t) ==
  cfg.Enabled =>
    \A u \in 1..t : Cardinality(Window(g, cfg, u) \cap (e + 1)..Len(g)) <= cfg.MaxSelections

Audited(g, e, cfg, t) == Chronicle(g, t) /\ e \in 0..Len(g) /\ Limited(g, e, cfg, t)

\* The fields of the settings.
LEMMA RateLimitTypes ==
  ASSUME NEW cfg \in RateLimits
  PROVE  /\ cfg.Enabled \in BOOLEAN /\ cfg.MaxSelections \in Int /\ cfg.Duration \in Int
         /\ cfg.Enabled => cfg.MaxSelections > 0
BY RateLimitsAssumption

\* A device that nobody selected yet.
LEMMA NothingSelected ==
  ASSUME NEW cfg \in RateLimits, NEW t \in Nat
  PROVE  Audited(<<>>, 0, cfg, t) /\ Remembered(<<>>, <<>>, 0, cfg, t)
<1>1. Chronicle(<<>>, t)
  BY DEF Chronicle
<1>2. \A u : Window(<<>>, cfg, u) \cap (0 + 1)..Len(<<>>) = {}
  BY DEF Window
<1>3. Limited(<<>>, 0, cfg, t)
  BY <1>2, RateLimitTypes, FS_EmptySet DEF Limited
<1>4. Remembered(<<>>, <<>>, 0, cfg, t)
  BY DEF Remembered
<1> QED BY <1>1, <1>3, <1>4 DEF Audited

\* Time passes: what was over stays over, and nothing enters the window.
LEMMA TimePasses ==
  ASSUME NEW g, NEW e, NEW cfg \in RateLimits, NEW t \in Nat \ {0}, Audited(g, e, cfg, t)
  PROVE  /\ Audited(g, e, cfg, t + 1)
         /\ \A h : Remembered(h, g, e, cfg, t) => Remembered(h, g, e, cfg, t + 1)
<1> DEFINE n == Len(g)
           D == cfg.Duration
           M == cfg.MaxSelections
<1>1. /\ g \in Seq(Nat) /\ n \in Nat /\ DOMAIN g = 1..n /\ e \in 0..n
      /\ \A i \in 1..n : g[i] \in Nat /\ g[i] <= t
      /\ D \in Int /\ M \in Int
  BY RateLimitTypes DEF Audited, Chronicle
<1>2. Chronicle(g, t + 1)
  BY <1>1 DEF Audited, Chronicle
<1>3. Limited(g, e, cfg, t + 1)
  <2> SUFFICES ASSUME cfg.Enabled, NEW u \in 1..(t + 1)
               PROVE  Cardinality(Window(g, cfg, u) \cap (e + 1)..n) <= M
    BY DEF Limited
  <2>1. \A x \in 1..t : Cardinality(Window(g, cfg, x) \cap (e + 1)..n) <= M
    BY DEF Audited, Limited
  <2>2. CASE u \in 1..t
    BY <2>1, <2>2
  <2>3. CASE u = t + 1
    <3> DEFINE A == Window(g, cfg, u) \cap (e + 1)..n
               B == Window(g, cfg, t) \cap (e + 1)..n
    <3>1. Window(g, cfg, u) \subseteq Window(g, cfg, t) /\ Window(g, cfg, t) \subseteq 1..n
      <4>1. Window(g, cfg, t) \subseteq 1..n /\ Window(g, cfg, u) \subseteq 1..n
        BY <1>1 DEF Window
      <4>2. ASSUME NEW i \in 1..n, g[i] > u - D PROVE g[i] > t - D
        BY <1>1, <2>3, <4>2
      <4> QED
        BY <1>1, <4>1, <4>2 DEF Window
    <3>2. IsFiniteSet(1..n)
      BY <1>1, FS_Interval
    <3>3. A \subseteq B /\ B \subseteq 1..n
      BY <3>1
    <3> HIDE DEF A, B
    <3>4. IsFiniteSet(B) /\ IsFiniteSet(A)
      BY <3>2, <3>3, FS_Subset
    <3>5. Cardinality(A) <= Cardinality(B) /\ Cardinality(A) \in Nat /\ Cardinality(B) \in Nat
      BY <3>3, <3>4, FS_Subset, FS_CardinalityType
    <3>6. t \in 1..t
      OBVIOUS
    <3>7. Cardinality(B) <= M
      BY <2>1, <3>6 DEF B
    <3>8. Cardinality(A) <= M
      BY <1>1, <3>5, <3>7
    <3> QED BY <3>8 DEF A
  <2> QED BY <2>2, <2>3
<1>4. ASSUME NEW h, Remembered(h, g, e, cfg, t) PROVE Remembered(h, g, e, cfg, t + 1)
  <2>1. \A i \in (e + 1)..(n - Len(h)) : g[i] <= t - D
    BY <1>4 DEF Remembered
  <2>2. \A i \in (e + 1)..(n - Len(h)) : i \in 1..n
    BY <1>1, <1>4 DEF Remembered
  <2>3. \A i \in (e + 1)..(n - Len(h)) : g[i] <= (t + 1) - D
    BY <1>1, <2>1, <2>2
  <2> QED BY <1>4, <2>3 DEF Remembered
<1> QED BY <1>1, <1>2, <1>3, <1>4 DEF Audited

\* Other settings: what was selected so far was not limited by them.
LEMMA OtherSettings ==
  ASSUME NEW g, NEW e, NEW cfg \in RateLimits, NEW other \in RateLimits, NEW t \in Nat,
         Audited(g, e, cfg, t)
  PROVE  /\ Audited(g, Len(g), other, t)
         /\ \A h : Remembered(h, g, e, cfg, t) => Remembered(h, g, Len(g), other, t)
<1>1. g \in Seq(Nat) /\ Len(g) \in Nat
  BY DEF Audited, Chronicle
<1>2. \A S : S \cap (Len(g) + 1)..Len(g) = {}
  BY <1>1
<1>3. Limited(g, Len(g), other, t)
  <2> SUFFICES ASSUME other.Enabled, NEW u \in 1..t
               PROVE  Cardinality(Window(g, other, u) \cap (Len(g) + 1)..Len(g))
                        <= other.MaxSelections
    BY DEF Limited
  <2>1. Window(g, other, u) \cap (Len(g) + 1)..Len(g) = {}
    BY <1>2
  <2>2. 0 <= other.MaxSelections
    BY RateLimitTypes
  <2> QED BY <2>1, <2>2, FS_EmptySet
<1>4. ASSUME NEW h, Remembered(h, g, e, cfg, t) PROVE Remembered(h, g, Len(g), other, t)
  <2>1. Len(h) \in Nat
    BY <1>4 DEF Remembered
  <2>2. \A i \in (Len(g) + 1)..(Len(g) - Len(h)) : FALSE
    BY <1>1, <2>1
  <2> QED BY <1>1, <1>4, <2>2 DEF Remembered
<1> QED BY <1>1, <1>3, <1>4 DEF Audited

\* A selection of a device whose pruned history has room.
LEMMA SelectionAllowed ==
  ASSUME NEW h, NEW g, NEW e, NEW cfg \in RateLimits, NEW t \in Nat,
         Audited(g, e, cfg, t), Remembered(h, g, e, cfg, t),
         cfg.Enabled => Len(RecentSelections(h, cfg, t)) < cfg.MaxSelections
  PROVE  Audited(Append(g, t), e, cfg, t)
<1> DEFINE n == Len(g)
           D == cfg.Duration
           M == cfg.MaxSelections
           gg == Append(g, t)
           L == Len(RecentSelections(h, cfg, t))
<1>1. /\ g \in Seq(Nat) /\ n \in Nat /\ DOMAIN g = 1..n /\ e \in 0..n
      /\ \A i \in 1..n : g[i] \in Nat /\ g[i] <= t
      /\ \A i, j \in 1..n : i <= j => g[i] <= g[j]
      /\ D \in Int /\ M \in Int
  BY RateLimitTypes DEF Audited, Chronicle
<1>2. /\ gg \in Seq(Nat) /\ Len(gg) = n + 1 /\ DOMAIN gg = 1..(n + 1)
      /\ gg[n + 1] = t /\ \A i \in 1..n : gg[i] = g[i]
  BY <1>1
<1>3. /\ L \in Nat
      /\ IsFiniteSet(Window(g, cfg, t) \cap (e + 1)..n)
      /\ Cardinality(Window(g, cfg, t) \cap (e + 1)..n) \in Nat
      /\ Cardinality(Window(g, cfg, t) \cap (e + 1)..n) <= L
  BY HistoryCounts DEF Audited
<1>4. cfg.Enabled => L < M
  OBVIOUS
<1> HIDE DEF n, D, M, gg, L
<1>5. Chronicle(gg, t)
  <2>1. \A i \in 1..(n + 1) : gg[i] <= t
    BY <1>1, <1>2
  <2>2. \A i, j \in 1..(n + 1) : i <= j => gg[i] <= gg[j]
    <3> TAKE i, j \in 1..(n + 1)
    <3>1. CASE j = n + 1
      BY <1>2, <2>1, <3>1
    <3>2. CASE j # n + 1
      BY <1>1, <1>2, <3>2
    <3> QED BY <3>1, <3>2
  <2> QED BY <1>2, <2>1, <2>2 DEF Chronicle
<1>6. Limited(gg, e, cfg, t)
  <2> SUFFICES ASSUME cfg.Enabled, NEW u \in 1..t
               PROVE  Cardinality(Window(gg, cfg, u) \cap (e + 1)..(n + 1)) <= M
    BY <1>2 DEF Limited, M
  <2> DEFINE A == Window(gg, cfg, u) \cap (e + 1)..(n + 1)
             B == Window(g, cfg, u) \cap (e + 1)..n
  <2>1. A = B \/ (u = t /\ A = B \cup {n + 1})
    <3>1. \A i \in 1..n : i \in Window(gg, cfg, u) <=> i \in Window(g, cfg, u)
      BY <1>1, <1>2 DEF Window
    <3>2. n + 1 \in Window(gg, cfg, u) => u = t
      BY <1>2 DEF Window
    <3>3. /\ Window(gg, cfg, u) \subseteq 1..(n + 1)
          /\ Window(g, cfg, u) \subseteq 1..n
      BY <1>1, <1>2 DEF Window
    <3>4. \A i : i \in A <=> i \in B \/ (i = n + 1 /\ n + 1 \in Window(gg, cfg, u))
      BY <1>1, <3>1, <3>3
    <3> HIDE DEF A, B
    <3> QED BY <3>2, <3>4
  <2>2. \A x \in 1..t : Cardinality(Window(g, cfg, x) \cap (e + 1)..n) <= M
    BY DEF Audited, Limited, n, M
  <2>3. Cardinality(B) <= M
    BY <2>2
  <2>4. u = t => /\ IsFiniteSet(B) /\ Cardinality(B) \in Nat /\ Cardinality(B) < M
    BY <1>1, <1>3, <1>4
  <2> HIDE DEF A, B
  <2>5. CASE A = B
    BY <2>3, <2>5 DEF A
  <2>6. CASE u = t /\ A = B \cup {n + 1}
    <3>1. Cardinality(A) = IF n + 1 \in B THEN Cardinality(B) ELSE Cardinality(B) + 1
      BY <2>4, <2>6, FS_AddElement
    <3>2. Cardinality(A) <= M
      BY <1>1, <2>4, <2>6, <3>1
    <3> QED BY <3>2 DEF A
  <2> QED BY <2>1, <2>5, <2>6
<1>7. e \in 0..Len(gg)
  BY <1>1, <1>2
<1> QED BY <1>5, <1>6, <1>7 DEF Audited, gg

\* The selection is remembered.
LEMMA SelectionRemembered ==
  ASSUME NEW r, NEW g, NEW e, NEW cfg, NEW t \in Nat,
         Chronicle(g, t), Remembered(r, g, e, cfg, t)
  PROVE  Remembered(Append(r, t), Append(g, t), e, cfg, t)
<1> DEFINE n == Len(g)
           m == Len(r)
           rr == Append(r, t)
           gg == Append(g, t)
<1>1. /\ g \in Seq(Nat) /\ r \in Seq(Nat) /\ n \in Nat /\ m \in Nat /\ m <= n /\ e \in 0..n
      /\ \A i \in 1..m : r[i] = g[n - m + i]
      /\ \A i \in (e + 1)..(n - m) : g[i] <= t - cfg.Duration
  BY DEF Chronicle, Remembered
<1>2. /\ gg \in Seq(Nat) /\ Len(gg) = n + 1 /\ gg[n + 1] = t /\ \A i \in 1..n : gg[i] = g[i]
      /\ rr \in Seq(Nat) /\ Len(rr) = m + 1 /\ rr[m + 1] = t /\ \A i \in 1..m : rr[i] = r[i]
  BY <1>1
<1> HIDE DEF n, m, rr, gg
<1>3. \A i \in 1..(m + 1) : rr[i] = gg[(n + 1) - (m + 1) + i]
  <2> TAKE i \in 1..(m + 1)
  <2>1. CASE i = m + 1
    <3>1. (n + 1) - (m + 1) + i = n + 1
      BY <1>1, <2>1
    <3> QED BY <1>2, <2>1, <3>1
  <2>2. CASE i # m + 1
    <3>1. i \in 1..m /\ (n + 1) - (m + 1) + i = n - m + i /\ n - m + i \in 1..n
      BY <1>1, <2>2
    <3>2. rr[i] = g[n - m + i] /\ gg[n - m + i] = g[n - m + i]
      BY <1>1, <1>2, <3>1
    <3> QED BY <3>1, <3>2
  <2> QED BY <2>1, <2>2
<1>4. \A i \in (e + 1)..((n + 1) - (m + 1)) : gg[i] <= t - cfg.Duration
  <2> TAKE i \in (e + 1)..((n + 1) - (m + 1))
  <2>1. i \in (e + 1)..(n - m) /\ i \in 1..n
    BY <1>1
  <2> QED BY <1>1, <1>2, <2>1
<1>5. e \in 0..(n + 1) /\ m + 1 <= n + 1
  BY <1>1
<1> QED BY <1>2, <1>3, <1>4, <1>5 DEF Remembered, rr, gg

\* The inductive invariant of RateLimitIsExact.
HistoryInv ==
  /\ granted \in [DeviceIDs -> Seq(Nat)] /\ earlier \in [DeviceIDs -> Nat]
  /\ \A d \in DeviceIDs : Audited(granted[d], earlier[d], rateLimit, now)
  /\ \A d \in DeviceIDs \ DOMAIN devices : granted[d] = <<>>
  /\ \A d \in DOMAIN devices :
       Remembered(devices[d].selectionHistory, granted[d], earlier[d], rateLimit, now)

\* A candidate is eligible exactly when its pruned history has room.
LEMMA EligibleHasRoom ==
  ASSUME SelectorInv, NEW d \in DOMAIN devices, Candidate(devices[d])
  PROVE  d \in Eligible(devices, rateLimit, now)
           <=> ~ /\ rateLimit.Enabled
                 /\ Len(RecentSelections(devices[d].selectionHistory, rateLimit, now))
                      >= rateLimit.MaxSelections
<1>1. DeviceInv(devices[d], d)
  BY SelectorInvShape DEF DevicesInv
<1>2. AfterRateCheck(devices, rateLimit, now)[d] = PruneHistory(devices[d], rateLimit, now)
  BY DEF AfterRateCheck
<1>3. PruneHistory(devices[d], rateLimit, now).selectionHistory
        = RecentSelections(devices[d].selectionHistory, rateLimit, now)
  BY <1>1, OtherFields
<1> QED BY <1>2, <1>3 DEF Eligible, IsAtMaxSelections

\* Every step keeps the history of every device exact.
LEMMA HistoryStep ==
  SelectorInv /\ HistoryInv /\ [AuditNext]_auditVars => HistoryInv'
<1> SUFFICES ASSUME SelectorInv, HistoryInv, [AuditNext]_auditVars
             PROVE  HistoryInv'
  OBVIOUS
<1>1. /\ DOMAIN devices \subseteq DeviceIDs
      /\ rateLimit \in RateLimits /\ now \in Nat \ {0} /\ now \in Nat
  BY SelectorInvShape DEF DevicesInv, ZeroTime
<1>2. /\ granted \in [DeviceIDs -> Seq(Nat)] /\ earlier \in [DeviceIDs -> Nat]
      /\ \A d \in DeviceIDs : Audited(granted[d], earlier[d], rateLimit, now)
      /\ \A d \in DeviceIDs \ DOMAIN devices : granted[d] = <<>>
      /\ \A d \in DOMAIN devices :
           Remembered(devices[d].selectionHistory, granted[d], earlier[d], rateLimit, now)
  BY DEF HistoryInv
<1>3. \A d \in DeviceIDs : Chronicle(granted[d], now) /\ earlier[d] \in 0..Len(granted[d])
  BY <1>2 DEF Audited
<1>4. ASSUME NEW d \in DOMAIN devices, NEW after, QuietFor(devices[d], after, rateLimit, now)
      PROVE  Remembered(after.selectionHistory, granted[d], earlier[d], rateLimit, now)
  BY <1>1, <1>2, <1>3, <1>4, PruneRemembers DEF QuietFor
<1>5. CASE UNCHANGED auditVars
  BY <1>5 DEF auditVars, HistoryInv
<1>6. ASSUME NEW requested \in RequestedWeights, NEW d \in DeviceIDs,
             SelectWorker(requested, d), granted' = [granted EXCEPT ![d] = Append(@, now)],
             earlier' = earlier
      PROVE  HistoryInv'
  <2> DEFINE h == devices[d].selectionHistory
             r == RecentSelections(h, rateLimit, now)
             rr == RecentSelections(r, rateLimit, now)
             g == granted[d]
             e == earlier[d]
  <2>1. /\ d \in Eligible(devices, rateLimit, now) /\ d \in DOMAIN devices
        /\ DOMAIN devices' = DOMAIN devices /\ UNCHANGED <<rateLimit, now>>
        /\ \A x \in DOMAIN devices \ {d} : QuietFor(devices[x], devices'[x], rateLimit, now)
        /\ devices'[d].selectionHistory = Append(rr, now)
    BY <1>6, SelectDoes
  <2>2. Audited(g, e, rateLimit, now) /\ Remembered(h, g, e, rateLimit, now) /\ Chronicle(g, now)
    BY <1>2, <1>3, <2>1
  <2>3. Remembered(r, g, e, rateLimit, now)
    BY <1>1, <2>2, PruneRemembers
  <2>4. Remembered(rr, g, e, rateLimit, now)
    BY <1>1, <2>2, <2>3, PruneRemembers
  <2>5. rateLimit.Enabled => Len(r) < rateLimit.MaxSelections
    <3>1. ~ (rateLimit.Enabled /\ Len(r) >= rateLimit.MaxSelections)
      BY <2>1, EligibleHasRoom DEF Eligible
    <3>2. Len(r) \in Nat /\ rateLimit.MaxSelections \in Int
      BY <1>1, <2>3, RateLimitTypes DEF Remembered
    <3> QED BY <3>1, <3>2
  <2>6. Audited(Append(g, now), e, rateLimit, now)
    BY <1>1, <2>2, <2>5, SelectionAllowed
  <2>7. Remembered(Append(rr, now), Append(g, now), e, rateLimit, now)
    BY <1>1, <2>2, <2>4, SelectionRemembered
  <2>8. Append(g, now) \in Seq(Nat)
    BY <1>1, <1>2
  <2> HIDE DEF h, r, rr, g, e
  <2>9. /\ granted' \in [DeviceIDs -> Seq(Nat)]
        /\ \A x \in DeviceIDs : granted'[x] = IF x = d THEN Append(g, now) ELSE granted[x]
    BY <1>2, <1>6, <2>8 DEF g
  <2>10. \A x \in DeviceIDs : Audited(granted'[x], earlier'[x], rateLimit', now')
    BY <1>2, <1>6, <2>1, <2>6, <2>9 DEF e
  <2>11. \A x \in DOMAIN devices :
           Remembered(devices'[x].selectionHistory, granted'[x], earlier'[x], rateLimit', now')
    <3> TAKE x \in DOMAIN devices
    <3>1. CASE x = d
      BY <1>1, <1>6, <2>1, <2>7, <2>9, <3>1 DEF e
    <3>2. CASE x # d
      BY <1>1, <1>4, <1>6, <2>1, <2>9, <3>2
    <3> QED BY <3>1, <3>2
  <2> QED BY <1>2, <1>6, <2>1, <2>9, <2>10, <2>11 DEF HistoryInv
<1>7. ASSUME NEW c \in Workers, SetWorkerAvailable(c), UNCHANGED <<granted, earlier>>
      PROVE  HistoryInv'
  <2> DEFINE d == DeviceOf[c]
  <2>1. PICK dev :
          /\ IF d \in DOMAIN devices THEN dev = devices[d] ELSE Blank(dev)
          /\ devices'[d].selectionHistory = dev.selectionHistory
    BY <1>7, AvailableDoes
  <2>2. /\ d \in DeviceIDs /\ UNCHANGED <<rateLimit, now>>
        /\ DOMAIN devices' = DOMAIN devices \cup {d}
        /\ \A e \in DOMAIN devices \ {d} : devices'[e] = devices[e]
    BY <1>7, AvailableDoes
  <2> HIDE DEF d
  <2>3. Remembered(devices'[d].selectionHistory, granted[d], earlier[d], rateLimit, now)
    <3>1. CASE d \in DOMAIN devices
      BY <1>2, <2>1, <3>1
    <3>2. CASE d \notin DOMAIN devices
      <4>1. devices'[d].selectionHistory = <<>> /\ granted[d] = <<>> /\ earlier[d] = 0
        BY <1>2, <1>3, <2>1, <2>2, <3>2 DEF Blank
      <4> QED BY <1>1, <4>1, NothingSelected
    <3> QED BY <3>1, <3>2
  <2> QED BY <1>2, <1>7, <2>2, <2>3 DEF HistoryInv
<1>8. ASSUME Upkeep, \A c \in Workers : ~ SetWorkerAvailable(c), granted' = Forget(granted),
             earlier' = [d \in DeviceIDs |->
                           IF rateLimit' = rateLimit /\ d \in DOMAIN devices' THEN earlier[d]
                           ELSE Len(granted'[d])]
      PROVE  HistoryInv'
  <2>1. Quiet(devices, devices', rateLimit, now) /\ ClockMoves
    BY <1>8, UpkeepDoes
  <2>2. \A d \in DeviceIDs : granted'[d] = IF d \in DOMAIN devices' THEN granted[d] ELSE <<>>
    BY <1>8 DEF Forget
  <2>3. granted' \in [DeviceIDs -> Seq(Nat)]
    BY <1>2, <1>8 DEF Forget
  <2>4. \A d \in DeviceIDs :
          earlier'[d] = IF rateLimit' = rateLimit /\ d \in DOMAIN devices' THEN earlier[d]
                        ELSE Len(granted'[d])
    BY <1>8
  <2>5. earlier' \in [DeviceIDs -> Nat]
    <3>1. \A d \in DeviceIDs : granted'[d] \in Seq(Nat)
      BY <2>3
    <3>2. \A d \in DeviceIDs : Len(granted'[d]) \in Nat
      BY <3>1
    <3> QED BY <1>2, <1>8, <3>2
  <2>6. DOMAIN devices' \subseteq DeviceIDs
    <3>1. [Next]_vars
      BY <1>8 DEF Next
    <3>2. SelectorInv'
      BY <3>1, StepInv
    <3> QED BY <3>2 DEF SelectorInv, TypeOK
  <2>7. /\ rateLimit' \in RateLimits /\ now' \in Nat
        /\ rateLimit' = rateLimit => now' = now \/ now' = now + 1
        /\ rateLimit' # rateLimit => now' = now
    BY <1>1, <2>1 DEF ClockMoves
  <2>8. ASSUME NEW d \in DOMAIN devices'
        PROVE  Remembered(devices'[d].selectionHistory, granted[d], earlier[d], rateLimit, now)
    <3>1. CASE d \in DOMAIN devices
      BY <1>4, <2>1, <2>8, <3>1 DEF Quiet
    <3>2. CASE d \notin DOMAIN devices
      <4>1. devices'[d].selectionHistory = <<>> /\ granted[d] = <<>> /\ earlier[d] = 0
        BY <1>2, <1>3, <2>1, <2>6, <2>8, <3>2 DEF Quiet, Blank
      <4> QED BY <1>1, <4>1, NothingSelected
    <3> QED BY <3>1, <3>2
  <2>9. ASSUME NEW d \in DOMAIN devices'
        PROVE  /\ Audited(granted'[d], earlier'[d], rateLimit', now')
               /\ Remembered(devices'[d].selectionHistory, granted'[d], earlier'[d],
                             rateLimit', now')
    <3> DEFINE g == granted[d]
               e == earlier[d]
               h == devices'[d].selectionHistory
    <3>1. /\ granted'[d] = g
          /\ earlier'[d] = IF rateLimit' = rateLimit THEN e ELSE Len(g)
          /\ Audited(g, e, rateLimit, now) /\ Remembered(h, g, e, rateLimit, now)
      BY <1>2, <2>2, <2>4, <2>6, <2>8, <2>9
    <3> HIDE DEF g, e, h
    <3>2. /\ Audited(g, e, rateLimit, now + 1)
          /\ Remembered(h, g, e, rateLimit, now + 1)
      BY <1>1, <3>1, TimePasses
    <3>3. /\ Audited(g, Len(g), rateLimit', now)
          /\ Remembered(h, g, Len(g), rateLimit', now)
      BY <1>1, <2>7, <3>1, OtherSettings
    <3>4. CASE rateLimit' = rateLimit /\ now' = now
      BY <3>1, <3>4 DEF h
    <3>5. CASE rateLimit' = rateLimit /\ now' = now + 1
      BY <3>1, <3>2, <3>5 DEF h
    <3>6. CASE rateLimit' # rateLimit
      BY <2>7, <3>1, <3>3, <3>6 DEF h
    <3> QED BY <2>7, <3>4, <3>5, <3>6
  <2>10. ASSUME NEW d \in DeviceIDs, d \notin DOMAIN devices'
         PROVE  Audited(granted'[d], earlier'[d], rateLimit', now')
    <3>1. granted'[d] = <<>> /\ earlier'[d] = 0
      BY <2>2, <2>4, <2>10
    <3> QED BY <2>7, <3>1, NothingSelected
  <2> QED BY <2>2, <2>3, <2>5, <2>9, <2>10 DEF HistoryInv
<1> QED BY <1>5, <1>6, <1>7, <1>8 DEF AuditNext

\* The rate limit is exact.  No window of the configured duration holds more selections of
\* a device than MaxSelections while the settings stay, however its history was pruned and
\* its workers came and went; and isAtMaxSelections holds no device back that has room.
THEOREM RateLimitExact == AuditSpec => []RateLimitIsExact
<1>1. AuditInit => HistoryInv
  <2> SUFFICES ASSUME AuditInit PROVE HistoryInv
    OBVIOUS
  <2>1. /\ DOMAIN devices = {} /\ rateLimit \in RateLimits /\ now \in Nat
        /\ granted = [d \in DeviceIDs |-> <<>>] /\ earlier = [d \in DeviceIDs |-> 0]
    BY DEF AuditInit, Init, ZeroTime
  <2>2. Audited(<<>>, 0, rateLimit, now)
    BY <2>1, NothingSelected
  <2> QED BY <2>1, <2>2 DEF HistoryInv
<1>2. ASSUME SelectorInv, HistoryInv PROVE RateLimitIsExact
  <2>1. /\ DOMAIN devices \subseteq DeviceIDs /\ rateLimit \in RateLimits /\ now \in Nat
    BY <1>2, SelectorInvShape DEF DevicesInv
  <2>2. \A d, t : InWindow(d, t) = Window(granted[d], rateLimit, t)
    BY DEF InWindow, Window
  <2>3. \A d \in DeviceIDs : Audited(granted[d], earlier[d], rateLimit, now)
    BY <1>2 DEF HistoryInv
  <2>4. rateLimit.Enabled =>
          \A d \in DeviceIDs : \A t \in 1..now :
            Cardinality(InWindow(d, t) \cap (earlier[d] + 1)..Len(granted[d]))
              <= rateLimit.MaxSelections
    BY <2>2, <2>3 DEF Audited, Limited
  <2>5. ASSUME NEW d \in DOMAIN devices, Candidate(devices[d]),
               Cardinality(InWindow(d, now)) < rateLimit.MaxSelections
        PROVE  d \in Eligible(devices, rateLimit, now)
    <3> DEFINE L == Len(RecentSelections(devices[d].selectionHistory, rateLimit, now))
               C == Cardinality(InWindow(d, now))
    <3>1. Chronicle(granted[d], now)
      BY <2>1, <2>3 DEF Audited
    <3>2. Remembered(devices[d].selectionHistory, granted[d], earlier[d], rateLimit, now)
      BY <1>2 DEF HistoryInv
    <3>3. L \in Nat /\ C \in Nat /\ L <= C
      BY <2>1, <2>2, <3>1, <3>2, HistoryCounts
    <3>4. rateLimit.MaxSelections \in Int /\ C < rateLimit.MaxSelections
      BY <2>1, <2>5, RateLimitTypes
    <3> HIDE DEF L, C
    <3>5. ~ (rateLimit.Enabled /\ L >= rateLimit.MaxSelections)
      BY <3>3, <3>4
    <3> QED BY <1>2, <2>5, <3>5, EligibleHasRoom DEF L
  <2> QED BY <2>4, <2>5 DEF RateLimitIsExact
<1>3. SelectorInv /\ HistoryInv => RateLimitIsExact
  BY <1>2
<1> QED BY <1>1, <1>3, HistoryStep, AuditedInvariant, PTL DEF AuditSpec
=============================================================================
