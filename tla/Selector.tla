------------------------------ MODULE Selector ------------------------------
(***************************************************************************)
(* The worker selector (libs/selector): which worker connection a new      *)
(* controller is paired with.  All its operations run under selector.mu,   *)
(* so each is one atomic step; the connection manager's goroutines call    *)
(* them in any order.                                                      *)
(*                                                                         *)
(* A device is a record, as the Go struct selectableDevice is, and every   *)
(* operation is an operator on the map of devices, so that other modules   *)
(* can make several calls in one step.                                     *)
(***************************************************************************)
EXTENDS Integers, FiniteSets, Sequences, SequencesExt

CONSTANTS
  DeviceIDs,          \* device ids
  WorkerIDs,          \* worker ids
  Workers,            \* worker connections: the values of MITMWorker
  DeviceOf,           \* MITMWorker.DeviceID
  IDOf,               \* MITMWorker.ID
  NoWorker,           \* the zero MITMWorker
  RequestedWeights,   \* weights controllers ask for, out of bounds included
  RateLimits,         \* the rate limit settings the configuration may hold
  ScoreBuckets,       \* IncreasedScoreBuckets
  ScoreBucketPeriod,  \* IncreasedScoreBucketPeriod, in ticks
  PruneAge,           \* the age PruneWorkerIDsSeen is called with, in ticks
  MaxTime             \* bound: the clock stops there

VARIABLES
  devices,            \* baseSelector.devices: device id -> selectableDevice
  rateLimit,          \* the settings in deviceRateLimitSettingsContainer
  now                 \* the clock, in ticks

vars == <<devices, rateLimit, now>>

MinimumWeight == 1
MaximumWeight == 10
DefaultWeight == 5
Weights == MinimumWeight..MaximumWeight

ZeroTime == 0         \* time.Time{}; the clock starts after it

ASSUME WorkersAssumption ==
  /\ DeviceOf \in [Workers -> DeviceIDs]
  /\ IDOf \in [Workers -> WorkerIDs]
  /\ NoWorker \notin Workers

ASSUME WeightsAssumption == RequestedWeights \subseteq Int

\* SelectionHistoryConfig.Validate, which PutSettings runs first
ASSUME RateLimitsAssumption ==
  /\ RateLimits # {}
  /\ RateLimits \subseteq [Enabled : BOOLEAN, MaxSelections : Int, Duration : Int]
  /\ \A cfg \in RateLimits : cfg.Enabled => cfg.MaxSelections > 0 /\ cfg.Duration > 0

ASSUME TimeAssumption ==
  /\ ScoreBuckets \in Nat \ {0}
  /\ ScoreBucketPeriod \in Nat \ {0}
  /\ PruneAge \in Nat \ {0}
  /\ MaxTime \in Nat

-----------------------------------------------------------------------------
(* The types of the Go structs. *)

SelectableWorker ==
  [worker : Workers, assignedWeight : 0..MaximumWeight, lastUnavailable : Nat]

\* A device whose workerIDsSeen has the keys S.
SelectableDevice(S) ==
  [selectionEnabled  : BOOLEAN,
   availableWorkers  : Seq(WorkerIDs),
   workerIDsSeen     : [S -> SelectableWorker],
   workersInUse      : Int,
   weightUsed        : [Weights -> Int],
   currentWeight     : Int,
   lastSelectionTime : Nat,
   selectionHistory  : Seq(Nat)]

IsDevice(dev) == \E S \in SUBSET WorkerIDs : dev \in SelectableDevice(S)

\* The Go map assignment m[k] = v (:> and @@ are opaque to the proof system).
MapPut(m, k, v) == [x \in DOMAIN m \cup {k} |-> IF x = k THEN v ELSE m[x]]

NewDevice(enabled) ==
  [selectionEnabled  |-> enabled,
   availableWorkers  |-> <<>>,
   workerIDsSeen     |-> [id \in {} |-> NoWorker],
   workersInUse      |-> 0,
   weightUsed        |-> [k \in Weights |-> 0],
   currentWeight     |-> 0,
   lastSelectionTime |-> ZeroTime,
   selectionHistory  |-> <<>>]

-----------------------------------------------------------------------------
(* Operations on one device. *)

\* Wrong: forgets to clear the assignment it undid.
RemoveWorkerKeepingWeight(dev, id) ==
  LET weight == dev.workerIDsSeen[id].assignedWeight
  IN  IF weight > 0
      THEN [dev EXCEPT !.workersInUse = @ - 1,
                       !.weightUsed[weight] = @ - 1,
                       !.currentWeight = @ - weight]
      ELSE [dev EXCEPT !.availableWorkers = RemoveFirst(@, id)]

\* Undo the assignment of a worker, or take it out of the queue.
RemoveWorkerFromDevice(dev, id) ==
  LET weight == dev.workerIDsSeen[id].assignedWeight
  IN  IF weight > 0
      THEN [dev EXCEPT !.workersInUse = @ - 1,
                       !.weightUsed[weight] = @ - 1,
                       !.currentWeight = @ - weight,
                       !.workerIDsSeen[id].assignedWeight = 0]
      ELSE [dev EXCEPT !.availableWorkers = RemoveFirst(@, id)]

\* Wrong: does not take the slot away from the connection it replaces.
OfferWorkerTwice(dev, c) ==
  LET entry == [worker |-> c, assignedWeight |-> 0, lastUnavailable |-> ZeroTime]
  IN  [dev EXCEPT !.workerIDsSeen = MapPut(@, IDOf[c], entry),
                  !.availableWorkers = Append(@, IDOf[c])]

\* Wrong: a worker that reconnects goes to the front of the queue.
OfferWorkerInFront(dev, c) ==
  LET id    == IDOf[c]
      freed == IF id \in DOMAIN dev.workerIDsSeen
               THEN RemoveWorkerFromDevice(dev, id) ELSE dev
      entry == [worker |-> c, assignedWeight |-> 0, lastUnavailable |-> ZeroTime]
  IN  [freed EXCEPT !.workerIDsSeen = MapPut(@, id, entry),
                    !.availableWorkers = <<id>> \o @]

\* A connection takes its slot over and goes to the end of the queue.
OfferWorker(dev, c) ==
  LET id    == IDOf[c]
      freed == IF id \in DOMAIN dev.workerIDsSeen
               THEN RemoveWorkerFromDevice(dev, id) ELSE dev
      entry == [worker |-> c, assignedWeight |-> 0, lastUnavailable |-> ZeroTime]
  IN  [freed EXCEPT !.workerIDsSeen = MapPut(@, id, entry),
                    !.availableWorkers = Append(@, id)]

\* Wrong: does not ask whose slot it is.
WithdrawAnyWorker(dev, c, t) ==
  LET id == IDOf[c]
  IN  IF id \in DOMAIN dev.workerIDsSeen
      THEN RemoveWorkerFromDevice(
             [dev EXCEPT !.workerIDsSeen[id].lastUnavailable = t], id)
      ELSE dev

\* A connection leaves, unless its slot already belongs to another one.
WithdrawWorker(dev, c, t) ==
  LET id == IDOf[c]
  IN  IF id \in DOMAIN dev.workerIDsSeen /\ dev.workerIDsSeen[id].worker = c
      THEN RemoveWorkerFromDevice(
             [dev EXCEPT !.workerIDsSeen[id].lastUnavailable = t], id)
      ELSE dev

\* The selections in a history that lie within the window of a rate limit.
RecentSelections(history, cfg, t) ==
  LET recent == {i \in DOMAIN history : history[i] > t - cfg.Duration}
  IN  IF recent = {} THEN <<>>
      ELSE SubSeq(history, Min(recent), Len(history))

PruneHistory(dev, cfg, t) ==
  [dev EXCEPT !.selectionHistory = RecentSelections(@, cfg, t)]

\* Wrong: off by one.
IsAboveMaxSelections(dev, cfg) ==
  cfg.Enabled /\ Len(dev.selectionHistory) > cfg.MaxSelections

\* Evaluated on a device whose history is pruned.
IsAtMaxSelections(dev, cfg) ==
  cfg.Enabled /\ Len(dev.selectionHistory) >= cfg.MaxSelections

\* Wrong: leaves the worker in the queue.
ClaimQueuedWorker(dev, weight, cfg, t) ==
  LET id == Head(dev.availableWorkers)
  IN  [dev EXCEPT !.workersInUse = @ + 1,
                  !.weightUsed[weight] = @ + 1,
                  !.currentWeight = @ + weight,
                  !.lastSelectionTime = t,
                  !.selectionHistory = Append(RecentSelections(@, cfg, t), t),
                  !.workerIDsSeen[id].assignedWeight = weight]

ClaimWorkerFromDevice(dev, weight, cfg, t) ==
  LET id == Head(dev.availableWorkers)
  IN  [dev EXCEPT !.availableWorkers = Tail(@),
                  !.workersInUse = @ + 1,
                  !.weightUsed[weight] = @ + 1,
                  !.currentWeight = @ + weight,
                  !.lastSelectionTime = t,
                  !.selectionHistory = Append(RecentSelections(@, cfg, t), t),
                  !.workerIDsSeen[id].assignedWeight = weight]

\* Wrong: takes the zero time for a time long ago.
PruneEverySeen(dev, t) ==
  LET stale == {id \in DOMAIN dev.workerIDsSeen :
                  t - dev.workerIDsSeen[id].lastUnavailable >= PruneAge}
  IN  [dev EXCEPT !.workerIDsSeen = [id \in DOMAIN @ \ stale |-> @[id]]]

\* Workers that have been unavailable for PruneAge are forgotten.
PruneSeen(dev, t) ==
  LET stale == {id \in DOMAIN dev.workerIDsSeen :
                  /\ dev.workerIDsSeen[id].lastUnavailable # ZeroTime
                  /\ t - dev.workerIDsSeen[id].lastUnavailable >= PruneAge}
  IN  [dev EXCEPT !.workerIDsSeen = [id \in DOMAIN @ \ stale |-> @[id]]]

HasAssigned(dev) ==
  \E id \in DOMAIN dev.workerIDsSeen : dev.workerIDsSeen[id].assignedWeight > 0

-----------------------------------------------------------------------------
(* The choice of a device. *)

\* Wrong: no upper bound.
ClampWeightFromBelow(weight) ==
  IF weight < MinimumWeight THEN DefaultWeight ELSE weight

ClampWeight(weight) ==
  IF weight < MinimumWeight THEN DefaultWeight
  ELSE IF weight > MaximumWeight THEN MaximumWeight ELSE weight

\* Devices that are asked whether they are rate limited.
Candidate(dev) == dev.availableWorkers # <<>> /\ dev.selectionEnabled

\* Asking prunes the histories of the candidates, whatever the outcome.
AfterRateCheck(devs, cfg, t) ==
  [d \in DOMAIN devs |->
     IF Candidate(devs[d]) THEN PruneHistory(devs[d], cfg, t) ELSE devs[d]]

Eligible(devs, cfg, t) ==
  LET checked == AfterRateCheck(devs, cfg, t)
  IN  {d \in DOMAIN devs :
         Candidate(devs[d]) /\ ~ IsAtMaxSelections(checked[d], cfg)}

\* The factor on the score of a device selected a short while ago.
Penalty(dev, t) ==
  IF /\ dev.lastSelectionTime # ZeroTime
     /\ t - dev.lastSelectionTime < ScoreBuckets * ScoreBucketPeriod
  THEN 10 * (ScoreBuckets - ((t - dev.lastSelectionTime) \div ScoreBucketPeriod))
  ELSE 1

\* Wrong: compares loads without regard to capacity.
ScoresBelowPerDevice(a, b, weight, t) ==
  (a.currentWeight + weight) * Penalty(a, t) < (b.currentWeight + weight) * Penalty(b, t)

\* The score is (currentWeight + weight) / capacity times the penalty: the
\* factors all candidates share are left out and the division multiplied out.
ScoresBelow(a, b, weight, t) ==
  (a.currentWeight + weight) * Penalty(a, t) * Cardinality(DOMAIN b.workerIDsSeen)
    < (b.currentWeight + weight) * Penalty(b, t) * Cardinality(DOMAIN a.workerIDsSeen)

\* The first lowest score wins, in the random order of a Go map.
BestDevices(devs, weight, cfg, t) ==
  {d \in Eligible(devs, cfg, t) :
     \A e \in Eligible(devs, cfg, t) : ~ ScoresBelow(devs[e], devs[d], weight, t)}

-----------------------------------------------------------------------------
(* The selector's operations on the map of devices. *)

AfterSetWorkerAvailable(devs, c) ==
  LET d == DeviceOf[c]
      dev == IF d \in DOMAIN devs THEN devs[d] ELSE NewDevice(TRUE)
  IN  MapPut(devs, d, OfferWorker(dev, c))

AfterSetWorkerUnavailable(devs, c, t) ==
  [d \in DOMAIN devs |->
     IF d = DeviceOf[c] THEN WithdrawWorker(devs[d], c, t) ELSE devs[d]]

AfterEnableDevice(devs, id) ==
  [d \in DOMAIN devs |->
     IF d = id THEN [devs[d] EXCEPT !.selectionEnabled = TRUE] ELSE devs[d]]

\* Wrong: does not remember the devices it is told of before their workers.
AfterDisableKnownDevice(devs, id) ==
  IF id \in DOMAIN devs
  THEN [devs EXCEPT ![id].selectionEnabled = FALSE]
  ELSE devs

AfterDisableDevice(devs, id) ==
  IF id \in DOMAIN devs
  THEN [devs EXCEPT ![id].selectionEnabled = FALSE]
  ELSE MapPut(devs, id, NewDevice(FALSE))

\* Wrong: drops a device whose workers are paired with controllers.
AfterRemoveAnyDevice(devs, id) == [d \in DOMAIN devs \ {id} |-> devs[d]]

AfterRemoveDeadDevice(devs, id) ==
  IF id \in DOMAIN devs /\ ~ HasAssigned(devs[id])
  THEN [d \in DOMAIN devs \ {id} |-> devs[d]]
  ELSE devs

AfterPruneWorkerIDsSeen(devs, t) == [d \in DOMAIN devs |-> PruneSeen(devs[d], t)]

AfterClaim(devs, d, weight, cfg, t) ==
  LET checked == AfterRateCheck(devs, cfg, t)
  IN  [checked EXCEPT ![d] = ClaimWorkerFromDevice(@, weight, cfg, t)]

\* The connection a claim on device d returns.
ClaimedWorker(devs, d) ==
  devs[d].workerIDsSeen[Head(devs[d].availableWorkers)].worker

-----------------------------------------------------------------------------
(* The specification: any caller, in any order. *)

Init ==
  /\ devices = [d \in {} |-> NewDevice(TRUE)]
  /\ rateLimit \in RateLimits
  /\ now = ZeroTime + 1

SetWorkerAvailable(c) ==
  /\ devices' = AfterSetWorkerAvailable(devices, c)
  /\ UNCHANGED <<rateLimit, now>>

SetWorkerUnavailable(c) ==
  /\ devices' = AfterSetWorkerUnavailable(devices, c, now)
  /\ UNCHANGED <<rateLimit, now>>

EnableDevice(d) ==
  /\ devices' = AfterEnableDevice(devices, d)
  /\ UNCHANGED <<rateLimit, now>>

DisableDevice(d) ==
  /\ devices' = AfterDisableDevice(devices, d)
  /\ UNCHANGED <<rateLimit, now>>

RemoveDeadDevice(d) ==
  /\ devices' = AfterRemoveDeadDevice(devices, d)
  /\ UNCHANGED <<rateLimit, now>>

PruneWorkerIDsSeen ==
  /\ devices' = AfterPruneWorkerIDsSeen(devices, now)
  /\ UNCHANGED <<rateLimit, now>>

\* GetAvailableWorker, when it returns a worker of device d.
SelectWorker(requested, d) ==
  LET weight == ClampWeight(requested)
  IN  /\ d \in BestDevices(devices, weight, rateLimit, now)
      /\ devices' = AfterClaim(devices, d, weight, rateLimit, now)
      /\ UNCHANGED <<rateLimit, now>>

\* GetAvailableWorker, when it returns "no workers available".
RefuseWorker ==
  /\ Eligible(devices, rateLimit, now) = {}
  /\ devices' = AfterRateCheck(devices, rateLimit, now)
  /\ UNCHANGED <<rateLimit, now>>

\* A configuration reload, through the watcher newBaseSelector registers.
PutSettings(cfg) ==
  /\ rateLimit' = cfg
  /\ UNCHANGED <<devices, now>>

Tick ==
  /\ now < MaxTime
  /\ now' = now + 1
  /\ UNCHANGED <<devices, rateLimit>>

\* Every step that hands no worker out.
Upkeep ==
  \/ \E c \in Workers : SetWorkerAvailable(c) \/ SetWorkerUnavailable(c)
  \/ \E d \in DeviceIDs : EnableDevice(d) \/ DisableDevice(d) \/ RemoveDeadDevice(d)
  \/ RefuseWorker
  \/ PruneWorkerIDsSeen
  \/ \E cfg \in RateLimits : PutSettings(cfg)
  \/ Tick

Next ==
  \/ Upkeep
  \/ \E requested \in RequestedWeights, d \in DeviceIDs : SelectWorker(requested, d)

Spec == Init /\ [][Next]_vars

-----------------------------------------------------------------------------
(* Properties. *)

\* Every variable has the type of the Go field it stands for.
TypeOK ==
  /\ DOMAIN devices \subseteq DeviceIDs
  /\ \A d \in DOMAIN devices : IsDevice(devices[d])
  /\ rateLimit \in RateLimits
  /\ now \in Nat \ {ZeroTime}

Seen(dev) == DOMAIN dev.workerIDsSeen
Assigned(dev) == {id \in Seen(dev) : dev.workerIDsSeen[id].assignedWeight > 0}
AssignedAt(dev, k) == {id \in Seen(dev) : dev.workerIDsSeen[id].assignedWeight = k}

WeightSum(n) ==
  n[1] + 2 * n[2] + 3 * n[3] + 4 * n[4] + 5 * n[5]
    + 6 * n[6] + 7 * n[7] + 8 * n[8] + 9 * n[9] + 10 * n[10]

CountersAgree(dev) ==
  /\ dev.workersInUse = Cardinality(Assigned(dev))
  /\ \A k \in Weights : dev.weightUsed[k] = Cardinality(AssignedAt(dev, k))
  /\ dev.currentWeight = WeightSum(dev.weightUsed)

\* The load counters claimWorkerFromDevice and removeWorkerFromDevice keep by
\* hand always agree with the weights assigned to the workers: no sequence of
\* claims, reconnects, late disconnects and prunes leaks or double-frees load.
CountersMatch == \A d \in DOMAIN devices : CountersAgree(devices[d])

\* GetWeightInfo's ratio never exceeds one: a device is never given more weight
\* than the workers it is known to have can take, also after a prune.
NoOvercommit ==
  \A d \in DOMAIN devices :
    devices[d].currentWeight <= MaximumWeight * Cardinality(Seen(devices[d]))

QueueSound(dev) ==
  /\ Range(dev.availableWorkers) \subseteq Seen(dev)
  /\ IsInjective(dev.availableWorkers)
  /\ \A id \in Seen(dev) :
       LET entry == dev.workerIDsSeen[id]
       IN  /\ entry.assignedWeight > 0 => entry.lastUnavailable = ZeroTime
           /\ id \in Range(dev.availableWorkers)
                <=> entry.assignedWeight = 0 /\ entry.lastUnavailable = ZeroTime

\* A known worker is queued exactly once, or assigned, or away since some
\* time, and never two of these: no worker is handed out twice, none is lost
\* while its connection is up, and the pruner meets only workers that are away.
OnePlace == \A d \in DOMAIN devices : QueueSound(devices[d])

\* GetAvailableWorker never picks a device over an eligible one that would be
\* less loaded by the new weight and was not selected more recently.
NoBusierAndFresher ==
  [][\A requested \in RequestedWeights, d \in DeviceIDs :
       SelectWorker(requested, d) =>
         \A e \in Eligible(devices, rateLimit, now) :
           LET weight == ClampWeight(requested)
               load(x) == devices[x].currentWeight + weight
               capacity(x) == Cardinality(Seen(devices[x]))
           IN  load(d) * capacity(e) > load(e) * capacity(d) =>
                 devices[d].lastSelectionTime < devices[e].lastSelectionTime]_vars

\* What every operation keeps of a device: the part of the inductive invariant
\* that concerns one device.
DeviceInv(dev, d) ==
  /\ IsDevice(dev)
  /\ IsFiniteSet(Seen(dev))
  /\ CountersAgree(dev)
  /\ QueueSound(dev)
  /\ \A id \in Seen(dev) : /\ IDOf[dev.workerIDsSeen[id].worker] = id
                           /\ DeviceOf[dev.workerIDsSeen[id].worker] = d

\* The inductive invariant.
SelectorInv ==
  /\ TypeOK
  /\ \A d \in DOMAIN devices : DeviceInv(devices[d], d)

\* The abstract state of a slot, read off the selector's records.
SlotState(dev, id) ==
  IF id \in Seen(dev)
  THEN LET entry == dev.workerIDsSeen[id]
       IN  [state  |-> IF entry.assignedWeight > 0 THEN "leased"
                       ELSE IF entry.lastUnavailable = ZeroTime THEN "free"
                       ELSE "away",
            worker |-> entry.worker]
  ELSE [state |-> "unknown", worker |-> NoWorker]

LeaseIn(devs, d, id) ==
  IF d \in DOMAIN devs THEN SlotState(devs[d], id)
  ELSE [state |-> "unknown", worker |-> NoWorker]

Lease == INSTANCE WorkerLease WITH
           lease <- [s \in DeviceIDs \X WorkerIDs |-> LeaseIn(devices, s[1], s[2])]

\* The selector implements the lease discipline of WorkerLease: a worker goes
\* from queued to assigned only while it is queued, and pruning and dropping
\* devices forget only workers that are neither queued nor assigned.
ImplementsLease == Lease!Spec
=============================================================================
