----------------------- MODULE ConnectionManagerProofs -----------------------
(***************************************************************************)
(* Theorems about ConnectionManager, for every set of devices, workers,    *)
(* connections and controllers, and about Handler, which hands the manager *)
(* its connections.  The two models share no state; each has its inductive *)
(* invariant, and its theorems are about its own specification.            *)
(*                                                                         *)
(* What the manager does to the selector is read off the leases, one by    *)
(* one: a connection is offered, withdrawn, leased, or forgotten.  The     *)
(* invariant ties each lease to the connection the manager has registered  *)
(* under its slot and to the controller that holds the connection.  What   *)
(* it counts is a sum over finitely many origins.                          *)
(***************************************************************************)
EXTENDS ConnectionManager, Handler, SelectorProofs, Sums

\* The lease of a slot.
L(d, id) == LeaseIn(devices, d, id)

\* A device without a control connection is one the selector was told of.
OfflineIsTracked == \A d \in DOMAIN known : ~ IsConnected(d) => d \in DOMAIN devices

\* What the manager knows of control connections: one that is up is its device's, or is
\* about to be closed; a device's is its own, and up; and the selector heard of every
\* device that is without one, and of every device the operator disabled.
ControlSide ==
  /\ IsFiniteSet(DOMAIN known)
  /\ \A c \in Conns : connPhase[c] = "open" => c \in closing \/ IsCurrentConn(c)
  /\ \A d \in DOMAIN known : IsConnected(d) => /\ ConnDevice[known[d].conn] = d
                                               /\ connPhase[known[d].conn] = "open"
  /\ DisabledByOperator
  /\ OfflineIsTracked

\* The worker map holds a connection where it belongs, while it is up, and only for
\* devices that are known.
InItsPlace ==
  \A d \in DeviceIDs, id \in WorkerIDs :
    LET c == workersByDeviceID[d][id]
    IN  c # NoWorker => /\ DeviceOf[c] = d /\ IDOf[c] = id
                        /\ workerPhase[c] = "open"
                        /\ d \in DOMAIN known

\* A worker connection that is up is registered or about to be closed.
UpIsRegistered ==
  \A c \in Workers : workerPhase[c] = "open" => RegisteredWorker(c) = c \/ c \in closing

\* The session has claimed a worker connection and not let go of it.
Holding(s) == s.phase \in {"claimed", "registered", "proxying"}

\* What is leased out or held has registered once, and a controller that proxies is
\* told to its worker.
HeldIsNotNew ==
  /\ \A d \in DeviceIDs, id \in WorkerIDs :
       L(d, id).state # "unknown" => workerPhase[L(d, id).worker] # "new"
  /\ \A k \in Controllers :
       /\ Holding(session[k]) =>
            session[k].worker \in Workers /\ workerPhase[session[k].worker] # "new"
       /\ session[k].phase = "proxying" => modeInfo[session[k].worker] # NoController

\* What the selector offers nobody holds.
FreeIsFree ==
  \A d \in DeviceIDs, id \in WorkerIDs :
    L(d, id).state = "free" => \A k \in Controllers : ~ Holds(k, L(d, id).worker)

\* A lease offers or assigns the connection.
Offered(lease, c) == lease.worker = c /\ lease.state \in {"free", "leased"}

\* In a clean slot the selector leases the connection that the manager has there, and
\* what is leased somebody holds.
LeasesAgree ==
  \A c \in Workers : CleanSlot(c) =>
    LET lease == L(DeviceOf[c], IDOf[c])
    IN  /\ RegisteredWorker(c) = c <=> Offered(lease, c)
        /\ lease.worker = c /\ lease.state = "leased" => \E k \in Controllers : Holds(k, c)

\* What the manager, the selector and the controllers know of worker connections.
WorkerSide ==
  /\ InItsPlace
  /\ UpIsRegistered
  /\ HeldIsNotNew
  /\ FreeIsFree
  /\ OneControllerPerWorker
  /\ LeasesAgree

\* The inductive invariant.
MgrInv == MgrTypeOK /\ SelectorInv /\ ControlSide /\ WorkerSide

-----------------------------------------------------------------------------
(* The selector's operations, lease by lease. *)

\* The leases of a map of devices, one by one.
LEMMA LeaseOfSlot ==
  ASSUME NEW devs, NEW d \in DeviceIDs, NEW id \in WorkerIDs
  PROVE  LeaseMap(devs)[<<d, id>>] = LeaseIn(devs, d, id)
BY DEF LeaseMap

\* What a lease may be; a sound map leases each connection in its own slot.
LEMMA LeaseFacts ==
  ASSUME NEW devs, DevicesInv(devs), NEW d \in DeviceIDs, NEW id \in WorkerIDs
  PROVE  LET lease == LeaseIn(devs, d, id)
         IN  /\ lease.state \in {"unknown", "free", "leased", "away"}
             /\ IF lease.state = "unknown" THEN lease.worker = NoWorker
                ELSE /\ lease.worker \in Workers
                     /\ DeviceOf[lease.worker] = d /\ IDOf[lease.worker] = id
<1>1. CASE d \in DOMAIN devs /\ id \in Seen(devs[d])
  <2>1. DeviceInv(devs[d], d)
    BY <1>1 DEF DevicesInv
  <2>2. devs[d].workerIDsSeen[id].worker \in Workers
    <3>1. devs[d].workerIDsSeen \in [Seen(devs[d]) -> SelectableWorker]
      BY <2>1, DeviceFields DEF DeviceInv
    <3> QED
      BY <1>1, <3>1 DEF SelectableWorker
  <2> QED
    BY <1>1, <2>1, <2>2 DEF LeaseIn, SlotState, DeviceInv
<1>2. CASE ~ (d \in DOMAIN devs /\ id \in Seen(devs[d]))
  BY <1>2 DEF LeaseIn, SlotState
<1> QED
  BY <1>1, <1>2

\* The operations on a device leave its selectionEnabled alone.
LEMMA FlagKept ==
  ASSUME NEW dev, NEW S, dev \in SelectableDevice(S), NEW c, NEW t, NEW cfg, NEW weight
  PROVE  /\ OfferWorker(dev, c).selectionEnabled = dev.selectionEnabled
         /\ WithdrawWorker(dev, c, t).selectionEnabled = dev.selectionEnabled
         /\ PruneHistory(dev, cfg, t).selectionEnabled = dev.selectionEnabled
         /\ PruneSeen(dev, t).selectionEnabled = dev.selectionEnabled
         /\ ClaimWorkerFromDevice(dev, weight, cfg, t).selectionEnabled = dev.selectionEnabled
<1> DEFINE Parts == {"selectionEnabled", "availableWorkers", "workerIDsSeen", "workersInUse",
                      "weightUsed", "currentWeight", "lastSelectionTime", "selectionHistory"}
<1>1. ASSUME NEW r, DOMAIN r = Parts, NEW id
      PROVE  /\ DOMAIN RemoveWorkerFromDevice(r, id) = Parts
             /\ RemoveWorkerFromDevice(r, id).selectionEnabled = r.selectionEnabled
  BY <1>1 DEF RemoveWorkerFromDevice
<1>2. DOMAIN dev = Parts
  BY DEF SelectableDevice
<1>3. OfferWorker(dev, c).selectionEnabled = dev.selectionEnabled
  BY <1>1, <1>2 DEF OfferWorker
<1>4. WithdrawWorker(dev, c, t).selectionEnabled = dev.selectionEnabled
  <2> DEFINE r == [dev EXCEPT !.workerIDsSeen[IDOf[c]].lastUnavailable = t]
  <2>1. DOMAIN r = Parts /\ r.selectionEnabled = dev.selectionEnabled
    BY <1>2
  <2>2. \/ WithdrawWorker(dev, c, t) = RemoveWorkerFromDevice(r, IDOf[c])
        \/ WithdrawWorker(dev, c, t) = dev
    BY DEF WithdrawWorker
  <2> HIDE DEF r, Parts
  <2> QED
    BY <1>1, <2>1, <2>2
<1>5. PruneHistory(dev, cfg, t).selectionEnabled = dev.selectionEnabled
  BY <1>2 DEF PruneHistory
<1>6. PruneSeen(dev, t).selectionEnabled = dev.selectionEnabled
  BY <1>2 DEF PruneSeen
<1>7. ClaimWorkerFromDevice(dev, weight, cfg, t).selectionEnabled = dev.selectionEnabled
  BY <1>2 DEF ClaimWorkerFromDevice
<1> QED
  BY <1>3, <1>4, <1>5, <1>6, <1>7

\* A sound map holds typed devices.
LEMMA Typed ==
  ASSUME NEW devs, DevicesInv(devs), NEW d \in DOMAIN devs
  PROVE  devs[d] \in SelectableDevice(Seen(devs[d])) /\ d \in DeviceIDs
BY DeviceShape DEF DevicesInv, DeviceInv

\* The devices keep their flags.
FlagsKept(devs, after) ==
  /\ DOMAIN after = DOMAIN devs
  /\ \A d \in DOMAIN devs : after[d].selectionEnabled = devs[d].selectionEnabled

LeasesKept(devs, after) ==
  \A d \in DeviceIDs, id \in WorkerIDs : LeaseIn(after, d, id) = LeaseIn(devs, d, id)

\* SetWorkerAvailable offers the connection in its slot.
LEMMA Offers ==
  ASSUME NEW devs, DevicesInv(devs), NEW c \in Workers
  PROVE  LET after == AfterSetWorkerAvailable(devs, c)
         IN  /\ DOMAIN after = DOMAIN devs \cup {DeviceOf[c]}
             /\ \A d \in DOMAIN devs : after[d].selectionEnabled = devs[d].selectionEnabled
             /\ DeviceOf[c] \notin DOMAIN devs => after[DeviceOf[c]].selectionEnabled
             /\ \A d \in DeviceIDs, id \in WorkerIDs :
                  LeaseIn(after, d, id) = IF d = DeviceOf[c] /\ id = IDOf[c]
                                          THEN [state |-> "free", worker |-> c]
                                          ELSE LeaseIn(devs, d, id)
<1> DEFINE after == AfterSetWorkerAvailable(devs, c)
           D == DeviceOf[c]
           dev == IF D \in DOMAIN devs THEN devs[D] ELSE NewDevice(TRUE)
<1>1. after = MapPut(devs, D, OfferWorker(dev, c))
  BY DEF AfterSetWorkerAvailable
<1>2. \E S : dev \in SelectableDevice(S)
  BY Typed, NewDeviceInv, DeviceShape DEF DeviceInv
<1>3. OfferWorker(dev, c).selectionEnabled = dev.selectionEnabled
  BY <1>2, FlagKept
<1>4. D \notin DOMAIN devs => dev.selectionEnabled
  BY DEF NewDevice
<1>5. D \in DOMAIN devs => dev = devs[D]
  OBVIOUS
<1> HIDE DEF dev
<1>6. /\ DOMAIN after = DOMAIN devs \cup {D}
      /\ \A d \in DOMAIN devs : after[d].selectionEnabled = devs[d].selectionEnabled
      /\ D \notin DOMAIN devs => after[D].selectionEnabled
  BY <1>1, <1>3, <1>4, <1>5 DEF MapPut
<1>7. D \in DeviceIDs /\ IDOf[c] \in WorkerIDs
  BY WorkersAssumption
<1>8. LeaseMap(after) = [LeaseMap(devs) EXCEPT ![<<D, IDOf[c]>>] = [state |-> "free", worker |-> c]]
  BY AvailableLeases
<1> HIDE DEF after, D
<1>9. ASSUME NEW d \in DeviceIDs, NEW id \in WorkerIDs
      PROVE  LeaseIn(after, d, id) = IF d = D /\ id = IDOf[c] THEN [state |-> "free", worker |-> c]
                                     ELSE LeaseIn(devs, d, id)
  <2>1. /\ LeaseMap(after)[<<d, id>>] = LeaseIn(after, d, id)
        /\ LeaseMap(devs)[<<d, id>>] = LeaseIn(devs, d, id)
    BY LeaseOfSlot
  <2>2. /\ <<d, id>> \in DeviceIDs \X WorkerIDs
        /\ <<d, id>> = <<D, IDOf[c]>> <=> d = D /\ id = IDOf[c]
    OBVIOUS
  <2>3. DOMAIN LeaseMap(devs) = DeviceIDs \X WorkerIDs
    BY DEF LeaseMap
  <2> QED
    BY <1>8, <2>1, <2>2, <2>3
<1> QED
  BY <1>6, <1>9 DEF after, D

\* SetWorkerUnavailable withdraws the connection if the slot is its own.
LEMMA Withdraws ==
  ASSUME NEW devs, DevicesInv(devs), NEW c \in Workers, NEW t \in Nat \ {ZeroTime}
  PROVE  LET after == AfterSetWorkerUnavailable(devs, c, t)
         IN  /\ FlagsKept(devs, after)
             /\ \A d \in DeviceIDs, id \in WorkerIDs :
                  LeaseIn(after, d, id) = IF LeaseIn(devs, d, id).worker = c
                                          THEN [state |-> "away", worker |-> c]
                                          ELSE LeaseIn(devs, d, id)
<1> DEFINE after == AfterSetWorkerUnavailable(devs, c, t)
           D == DeviceOf[c]
<1>1. FlagsKept(devs, after)
  <2>1. DOMAIN after = DOMAIN devs
        /\ \A d \in DOMAIN devs :
             after[d] = IF d = D THEN WithdrawWorker(devs[d], c, t) ELSE devs[d]
    BY DEF AfterSetWorkerUnavailable
  <2>2. \A d \in DOMAIN devs :
          WithdrawWorker(devs[d], c, t).selectionEnabled = devs[d].selectionEnabled
    BY Typed, FlagKept
  <2> QED
    BY <2>1, <2>2 DEF FlagsKept
<1>2. D \in DeviceIDs /\ IDOf[c] \in WorkerIDs /\ c # NoWorker
  BY WorkersAssumption
<1>3. IF LeaseMap(devs)[<<D, IDOf[c]>>].worker = c
      THEN LeaseMap(after) =
             [LeaseMap(devs) EXCEPT ![<<D, IDOf[c]>>] = [state |-> "away", worker |-> c]]
      ELSE LeaseMap(after) = LeaseMap(devs)
  BY UnavailableLeases
<1>4. LeaseMap(devs)[<<D, IDOf[c]>>] = LeaseIn(devs, D, IDOf[c])
  BY <1>2, LeaseOfSlot
<1> HIDE DEF after, D
<1>5. ASSUME NEW d \in DeviceIDs, NEW id \in WorkerIDs
      PROVE  LeaseIn(after, d, id) = IF LeaseIn(devs, d, id).worker = c
                                     THEN [state |-> "away", worker |-> c]
                                     ELSE LeaseIn(devs, d, id)
  <2>1. /\ LeaseMap(after)[<<d, id>>] = LeaseIn(after, d, id)
        /\ LeaseMap(devs)[<<d, id>>] = LeaseIn(devs, d, id)
    BY LeaseOfSlot
  <2>2. /\ <<d, id>> \in DeviceIDs \X WorkerIDs
        /\ <<d, id>> = <<D, IDOf[c]>> <=> d = D /\ id = IDOf[c]
    OBVIOUS
  <2>3. DOMAIN LeaseMap(devs) = DeviceIDs \X WorkerIDs
    BY DEF LeaseMap
  <2>4. LeaseIn(devs, d, id).worker = c => d = D /\ id = IDOf[c]
    BY <1>2, LeaseFacts DEF D
  <2>5. CASE LeaseIn(devs, d, id).worker = c
    BY <1>3, <1>4, <2>1, <2>2, <2>3, <2>4, <2>5
  <2>6. CASE LeaseIn(devs, d, id).worker # c
    <3>1. LeaseMap(devs)[<<D, IDOf[c]>>].worker = c => ~ (<<d, id>> = <<D, IDOf[c]>>)
      BY <1>4, <2>2, <2>6
    <3>2. LeaseMap(after)[<<d, id>>] = LeaseMap(devs)[<<d, id>>]
      BY <1>3, <2>2, <2>3, <3>1
    <3> QED
      BY <2>1, <2>6, <3>2
  <2> QED
    BY <2>5, <2>6
<1> QED
  BY <1>1, <1>5 DEF after

\* Equal maps of leases are equal lease by lease.
LEMMA SameLeases ==
  ASSUME NEW devs, NEW after, LeaseMap(after) = LeaseMap(devs)
  PROVE  LeasesKept(devs, after)
BY LeaseOfSlot DEF LeasesKept

\* EnableDevice and DisableDevice set one flag.
LEMMA Enables ==
  ASSUME NEW devs, DevicesInv(devs), NEW id \in DeviceIDs
  PROVE  LET after == AfterEnableDevice(devs, id)
         IN  /\ DOMAIN after = DOMAIN devs
             /\ \A d \in DOMAIN devs :
                  after[d].selectionEnabled = (d = id \/ devs[d].selectionEnabled)
             /\ LeasesKept(devs, after)
<1>1. \A d \in DOMAIN devs : /\ [devs[d] EXCEPT !.selectionEnabled = TRUE].selectionEnabled = TRUE
                             /\ devs[d].selectionEnabled \in BOOLEAN
  BY Typed DEF SelectableDevice
<1>2. DOMAIN AfterEnableDevice(devs, id) = DOMAIN devs
  BY DEF AfterEnableDevice
<1>3. ASSUME NEW d \in DOMAIN devs
      PROVE  AfterEnableDevice(devs, id)[d].selectionEnabled = (d = id \/ devs[d].selectionEnabled)
  <2>1. CASE d = id
    BY <1>1, <2>1 DEF AfterEnableDevice
  <2>2. CASE d # id
    BY <1>1, <2>2 DEF AfterEnableDevice
  <2> QED
    BY <2>1, <2>2
<1>4. LeasesKept(devs, AfterEnableDevice(devs, id))
  BY EnableLeases, SameLeases
<1> QED
  BY <1>2, <1>3, <1>4

\* DisableDevice clears one, and adds a device it does not know.
LEMMA Disables ==
  ASSUME NEW devs, DevicesInv(devs), NEW id \in DeviceIDs
  PROVE  LET after == AfterDisableDevice(devs, id)
         IN  /\ DOMAIN after = DOMAIN devs \cup {id}
             /\ ~ after[id].selectionEnabled
             /\ \A d \in DOMAIN devs \ {id} : after[d].selectionEnabled = devs[d].selectionEnabled
             /\ LeasesKept(devs, after)
<1>1. \A d \in DOMAIN devs : [devs[d] EXCEPT !.selectionEnabled = FALSE].selectionEnabled = FALSE
  BY Typed DEF SelectableDevice
<1>2. LeasesKept(devs, AfterDisableDevice(devs, id))
  BY DisableLeases, SameLeases
<1>3. CASE id \in DOMAIN devs
  <2>1. AfterDisableDevice(devs, id) = [devs EXCEPT ![id].selectionEnabled = FALSE]
    BY <1>3 DEF AfterDisableDevice
  <2> QED
    BY <1>1, <1>2, <1>3, <2>1
<1>4. CASE id \notin DOMAIN devs
  <2>1. NewDevice(FALSE).selectionEnabled = FALSE
    BY DEF NewDevice
  <2>2. AfterDisableDevice(devs, id) = MapPut(devs, id, NewDevice(FALSE))
    BY <1>4 DEF AfterDisableDevice
  <2> QED
    BY <1>2, <1>4, <2>1, <2>2 DEF MapPut
<1> QED
  BY <1>3, <1>4

\* The rate check changes neither flags nor leases.
LEMMA RateChecks ==
  ASSUME NEW devs, DevicesInv(devs), NEW cfg \in RateLimits, NEW t \in Nat
  PROVE  /\ FlagsKept(devs, AfterRateCheck(devs, cfg, t))
         /\ LeasesKept(devs, AfterRateCheck(devs, cfg, t))
<1>1. \A d \in DOMAIN devs :
        PruneHistory(devs[d], cfg, t).selectionEnabled = devs[d].selectionEnabled
  BY Typed, FlagKept
<1>2. FlagsKept(devs, AfterRateCheck(devs, cfg, t))
  BY <1>1 DEF AfterRateCheck, FlagsKept
<1>3. LeasesKept(devs, AfterRateCheck(devs, cfg, t))
  BY RateCheckLeases, SameLeases
<1> QED
  BY <1>2, <1>3

\* GetAvailableWorker leases a free slot, that of the connection it returns.
LEMMA Claims ==
  ASSUME NEW devs, DevicesInv(devs), NEW cfg \in RateLimits, NEW t \in Nat,
         NEW weight \in Weights, NEW d \in Eligible(devs, cfg, t)
  PROVE  LET after == AfterClaim(devs, d, weight, cfg, t)
             id == Head(devs[d].availableWorkers)
         IN  /\ FlagsKept(devs, after)
             /\ d \in DeviceIDs /\ id \in WorkerIDs
             /\ LeaseIn(devs, d, id) = [state |-> "free", worker |-> ClaimedWorker(devs, d)]
             /\ \A e \in DeviceIDs, x \in WorkerIDs :
                  LeaseIn(after, e, x) = IF e = d /\ x = id
                                         THEN [state |-> "leased", worker |-> ClaimedWorker(devs, d)]
                                         ELSE LeaseIn(devs, e, x)
<1> DEFINE checked == AfterRateCheck(devs, cfg, t)
           after == AfterClaim(devs, d, weight, cfg, t)
           id == Head(devs[d].availableWorkers)
<1>1. d \in DOMAIN devs /\ devs[d].availableWorkers # <<>> /\ d \in DeviceIDs
  BY DEF Eligible, Candidate, DevicesInv
<1>2. /\ DevicesInv(checked)
      /\ FlagsKept(devs, checked) /\ DOMAIN checked = DOMAIN devs
      /\ checked[d].availableWorkers = devs[d].availableWorkers
      /\ checked[d].workerIDsSeen = devs[d].workerIDsSeen
      /\ LeasesKept(devs, checked)
  BY <1>1, RateCheckInv, RateCheckLeases, RateChecks
<1>3. /\ DOMAIN after = DOMAIN devs
      /\ after[d] = ClaimWorkerFromDevice(checked[d], weight, cfg, t)
      /\ \A e \in DOMAIN devs \ {d} : after[e] = checked[e]
  BY <1>1, <1>2 DEF AfterClaim
<1> HIDE DEF checked, after
<1>4. FlagsKept(devs, after)
  <2>1. after[d].selectionEnabled = checked[d].selectionEnabled
    BY <1>1, <1>2, <1>3, Typed, FlagKept
  <2> QED
    BY <1>1, <1>2, <1>3, <2>1 DEF FlagsKept
<1>5. /\ id \in WorkerIDs
      /\ SlotState(checked[d], id).state = "free"
      /\ \A x : SlotState(after[d], x) =
                  IF x = id THEN [state |-> "leased", worker |-> SlotState(checked[d], x).worker]
                  ELSE SlotState(checked[d], x)
  <2>1. DeviceInv(checked[d], d)
    BY <1>1, <1>2 DEF DevicesInv
  <2> QED
    BY <1>1, <1>2, <1>3, <2>1, ClaimInv
<1>6. SlotState(checked[d], id) = [state |-> "free", worker |-> ClaimedWorker(devs, d)]
  BY <1>2, <1>5 DEF SlotState, Seen, ClaimedWorker
<1> HIDE DEF id
<1>7. LeaseIn(devs, d, id) = [state |-> "free", worker |-> ClaimedWorker(devs, d)]
  <2>1. LeaseIn(checked, d, id) = SlotState(checked[d], id)
    BY <1>1, <1>2 DEF LeaseIn
  <2> QED
    BY <1>1, <1>2, <1>5, <1>6, <2>1 DEF LeasesKept
<1>8. ASSUME NEW e \in DeviceIDs, NEW x \in WorkerIDs
      PROVE  LeaseIn(after, e, x) = IF e = d /\ x = id
                                    THEN [state |-> "leased", worker |-> ClaimedWorker(devs, d)]
                                    ELSE LeaseIn(devs, e, x)
  <2>1. LeaseIn(checked, e, x) = LeaseIn(devs, e, x)
    BY <1>2 DEF LeasesKept
  <2>2. CASE e = d
    <3>1. /\ LeaseIn(after, e, x) = SlotState(after[d], x)
          /\ LeaseIn(checked, e, x) = SlotState(checked[d], x)
      BY <1>1, <1>2, <1>3, <2>2 DEF LeaseIn
    <3>2. CASE x = id
      <4>1. SlotState(after[d], x) =
              [state |-> "leased", worker |-> SlotState(checked[d], x).worker]
        BY <1>5, <3>2
      <4>2. SlotState(checked[d], x).worker = ClaimedWorker(devs, d)
        BY <1>6, <3>2
      <4> QED
        BY <2>2, <3>1, <3>2, <4>1, <4>2
    <3>3. CASE x # id
      <4>1. SlotState(after[d], x) = SlotState(checked[d], x)
        BY <1>5, <3>3
      <4> QED
        BY <2>1, <2>2, <3>1, <3>3, <4>1
    <3> QED
      BY <3>2, <3>3
  <2>3. CASE e # d
    <3>1. LeaseIn(after, e, x) = LeaseIn(checked, e, x)
      BY <1>2, <1>3, <2>3 DEF LeaseIn
    <3> QED
      BY <2>1, <2>3, <3>1
  <2> QED
    BY <2>2, <2>3
<1> QED
  BY <1>1, <1>4, <1>5, <1>7, <1>8 DEF after, id

\* PruneWorkerIDsSeen forgets slots that are away.
LEMMA Prunes ==
  ASSUME NEW devs, DevicesInv(devs), NEW t \in Nat
  PROVE  LET after == AfterPruneWorkerIDsSeen(devs, t)
         IN  /\ FlagsKept(devs, after)
             /\ \A d \in DeviceIDs, id \in WorkerIDs :
                  \/ LeaseIn(after, d, id) = LeaseIn(devs, d, id)
                  \/ LeaseIn(devs, d, id).state = "away" /\ LeaseIn(after, d, id) = Lease!Unknown
<1> DEFINE after == AfterPruneWorkerIDsSeen(devs, t)
<1>1. DOMAIN after = DOMAIN devs /\ \A d \in DOMAIN devs : after[d] = PruneSeen(devs[d], t)
  BY DEF AfterPruneWorkerIDsSeen
<1> HIDE DEF after
<1>2. FlagsKept(devs, after)
  BY <1>1, Typed, FlagKept DEF FlagsKept
<1>3. ASSUME NEW d \in DeviceIDs, NEW id \in WorkerIDs
      PROVE  \/ LeaseIn(after, d, id) = LeaseIn(devs, d, id)
             \/ LeaseIn(devs, d, id).state = "away" /\ LeaseIn(after, d, id) = Lease!Unknown
  <2>1. CASE d \in DOMAIN devs
    <3>1. DeviceInv(devs[d], d)
      BY <2>1 DEF DevicesInv
    <3>2. \/ SlotState(PruneSeen(devs[d], t), id) = SlotState(devs[d], id)
          \/ /\ SlotState(devs[d], id).state = "away"
             /\ SlotState(PruneSeen(devs[d], t), id) = Lease!Unknown
      BY <3>1, PruneSeenInv
    <3> QED
      BY <1>1, <2>1, <3>2 DEF LeaseIn
  <2>2. CASE d \notin DOMAIN devs
    BY <1>1, <2>2 DEF LeaseIn
  <2> QED
    BY <2>1, <2>2
<1> QED
  BY <1>2, <1>3 DEF after

\* RemoveDeadDevice, for several devices: it drops devices none of whose slots is leased.
LEMMA Removes ==
  ASSUME NEW devs, DevicesInv(devs), NEW S
  PROVE  LET after == AfterRemoveDeadDevices(devs, S)
         IN  /\ DevicesInv(after)
             /\ DOMAIN after \subseteq DOMAIN devs /\ DOMAIN devs \ S \subseteq DOMAIN after
             /\ \A d \in DOMAIN after : after[d] = devs[d]
             /\ \A d \in DeviceIDs, id \in WorkerIDs :
                  IF d \in DOMAIN after THEN LeaseIn(after, d, id) = LeaseIn(devs, d, id)
                  ELSE /\ LeaseIn(devs, d, id).state # "leased"
                  /\ LeaseIn(after, d, id) = Lease!Unknown
<1> DEFINE after == AfterRemoveDeadDevices(devs, S)
<1>1. /\ DOMAIN after = DOMAIN devs \ {e \in S \cap DOMAIN devs : ~ HasAssigned(devs[e])}
      /\ \A d \in DOMAIN after : after[d] = devs[d]
  BY DEF AfterRemoveDeadDevices
<1> HIDE DEF after
<1>2. DevicesInv(after)
  BY <1>1 DEF DevicesInv
<1>3. ASSUME NEW d \in DeviceIDs, NEW id \in WorkerIDs
      PROVE  IF d \in DOMAIN after THEN LeaseIn(after, d, id) = LeaseIn(devs, d, id)
             ELSE /\ LeaseIn(devs, d, id).state # "leased"
                  /\ LeaseIn(after, d, id) = Lease!Unknown
  <2>1. CASE d \in DOMAIN after
    BY <1>1, <2>1 DEF LeaseIn
  <2>2. CASE d \notin DOMAIN after
    <3>1. LeaseIn(after, d, id) = Lease!Unknown
      BY <2>2 DEF LeaseIn, Lease!Unknown
    <3>2. CASE d \in DOMAIN devs
      <4>1. ~ HasAssigned(devs[d])
        BY <1>1, <2>2, <3>2
      <4> QED
        BY <2>2, <3>1, <3>2, <4>1 DEF HasAssigned, LeaseIn, SlotState, Seen
    <3>3. CASE d \notin DOMAIN devs
      BY <2>2, <3>1, <3>3 DEF LeaseIn
    <3> QED
      BY <3>2, <3>3
  <2> QED
    BY <2>1, <2>2
<1> QED
  BY <1>1, <1>2, <1>3 DEF after

-----------------------------------------------------------------------------
(* What the manager's operations do. *)

\* The facts that every step uses.
LEMMA Facts ==
  ASSUME MgrInv
  PROVE  /\ DevicesInv(devices) /\ rateLimit \in RateLimits /\ now \in Nat \ {ZeroTime}
         /\ \A c \in Workers : DeviceOf[c] \in DeviceIDs /\ IDOf[c] \in WorkerIDs /\ c # NoWorker
         /\ \A c \in Conns : ConnDevice[c] \in DeviceIDs /\ c # NoConn
         /\ DOMAIN known \subseteq DeviceIDs /\ \A d \in DOMAIN known : known[d] \in Device
         /\ workersByDeviceID \in [DeviceIDs -> [WorkerIDs -> Workers \cup {NoWorker}]]
<1>1. DevicesInv(devices) /\ rateLimit \in RateLimits /\ now \in Nat \ {ZeroTime}
  BY SelectorInvShape DEF MgrInv
<1> QED
  BY <1>1, WorkersAssumption, ConnsAssumption DEF MgrInv, MgrTypeOK

\* A control connection has become its device's.
ConnRegistered(c) ==
  LET D == ConnDevice[c]
  IN  /\ connPhase[c] = "new" /\ connPhase' = [connPhase EXCEPT ![c] = "open"]
      /\ DOMAIN known' = DOMAIN known \cup {D}
      /\ \A d \in DOMAIN known \ {D} : known'[d] = known[d]
      /\ known'[D] \in Device /\ known'[D].conn = c
      /\ known'[D].selectionEnabled = (D \in DOMAIN known => known[D].selectionEnabled)
      /\ D \in DOMAIN known /\ known[D].conn # NoConn => known[D].conn \in closing'
      /\ closing \subseteq closing'
      /\ DOMAIN devices' = DOMAIN devices
      /\ \A d \in DOMAIN devices :
           \/ devices'[d].selectionEnabled = devices[d].selectionEnabled
           \/ d = D /\ known'[D].selectionEnabled
      /\ LeasesKept(devices, devices')
      /\ UNCHANGED <<workersByDeviceID, workerPhase, session, modeInfo, staleReleases>>

\* RegisterDeviceConnection makes the connection its device's.
LEMMA RegisterDeviceConnectionDoes ==
  ASSUME MgrInv, NEW c \in Conns, RegisterDeviceConnection(c)
  PROVE  ConnRegistered(c) /\ DevicesInv(devices')
<1> DEFINE D == ConnDevice[c]
           devs == WithDevice(D, ConnOrigin[c])
<1>1. D \in DeviceIDs /\ c # NoConn /\ DevicesInv(devices)
  BY Facts
<1>2. NewMITMDevice(ConnOrigin[c]) \in Device
  BY ConnsAssumption DEF NewMITMDevice, Device
<1>3. /\ DOMAIN devs = DOMAIN known \cup {D}
      /\ \A d \in DOMAIN known : devs[d] = known[d]
      /\ devs[D] \in Device
      /\ D \notin DOMAIN known => devs[D].conn = NoConn /\ devs[D].selectionEnabled = TRUE
  BY <1>2, Facts DEF WithDevice, MapPut, NewMITMDevice
<1> HIDE DEF devs
<1>4. known' = [devs EXCEPT ![D].conn = c, ![D].origin = ConnOrigin[c],
                            ![D].past = AccumulateStats(@, devs[D].conn)]
  BY DEF RegisterDeviceConnection, devs
<1>5. /\ DOMAIN known' = DOMAIN known \cup {D}
      /\ \A d \in DOMAIN known \ {D} : known'[d] = known[d]
      /\ known'[D] = [devs[D] EXCEPT !.conn = c, !.origin = ConnOrigin[c],
                                     !.past = AccumulateStats(@, devs[D].conn)]
  BY <1>3, <1>4
<1>6. /\ known'[D] \in Device /\ known'[D].conn = c
      /\ known'[D].selectionEnabled = devs[D].selectionEnabled
  <2>1. AccumulateStats(devs[D].past, devs[D].conn) \in Seq(Conns)
    BY <1>3 DEF Device, AccumulateStats
  <2>2. ConnOrigin[c] \in Origins
    BY ConnsAssumption
  <2>3. /\ known'[D] = [devs[D] EXCEPT !.conn = c, !.origin = ConnOrigin[c],
                                      !.past = AccumulateStats(devs[D].past, devs[D].conn)]
        /\ devs[D] \in Device
    BY <1>3, <1>5
  <2> HIDE DEF D
  <2>4. known'[D] \in Device
    BY <2>1, <2>2, <2>3 DEF Device
  <2> QED
    BY <2>3, <2>4 DEF Device
<1>7. known'[D].selectionEnabled = (D \in DOMAIN known => known[D].selectionEnabled)
  <2>1. D \in DOMAIN known => known[D].selectionEnabled \in BOOLEAN
    BY Facts DEF Device
  <2> QED
    BY <1>3, <1>6, <2>1
<1>8. closing \subseteq closing' /\ (devs[D].conn # NoConn => devs[D].conn \in closing')
  BY DEF RegisterDeviceConnection, devs
<1>9. /\ DOMAIN devices' = DOMAIN devices /\ DevicesInv(devices')
      /\ \A d \in DOMAIN devices :
           \/ devices'[d].selectionEnabled = devices[d].selectionEnabled
           \/ d = D /\ known'[D].selectionEnabled
      /\ LeasesKept(devices, devices')
  <2>1. \/ devices' = devices
        \/ devices' = AfterEnableDevice(devices, D) /\ devs[D].selectionEnabled
    BY DEF RegisterDeviceConnection, devs
  <2>2. CASE devices' = devices
    BY <1>1, <2>2 DEF LeasesKept
  <2>3. CASE devices' = AfterEnableDevice(devices, D) /\ devs[D].selectionEnabled
    <3>1. \A d \in DOMAIN devices : devices[d].selectionEnabled \in BOOLEAN
      BY <1>1, Typed DEF SelectableDevice
    <3> QED
      BY <1>1, <1>6, <2>3, <3>1, Enables, EnableDeviceInv
  <2> QED
    BY <2>1, <2>2, <2>3
<1> QED
  BY <1>3, <1>5, <1>6, <1>7, <1>8, <1>9 DEF RegisterDeviceConnection, ConnRegistered

\* A control connection has closed, and its device, if it was the current one, is without.
ConnClosed(c) ==
  /\ connPhase[c] = "open" /\ connPhase' = [connPhase EXCEPT ![c] = "closed"]
  /\ closing' = closing \ {c}
  /\ DOMAIN known' = DOMAIN known
  /\ \A d \in DOMAIN known :
       /\ known'[d] \in Device
       /\ known'[d].selectionEnabled = known[d].selectionEnabled
       /\ known'[d].conn = IF known[d].conn = c THEN NoConn ELSE known[d].conn
       /\ known[d].conn = c /\ known[d].selectionEnabled =>
            d \in DOMAIN devices' /\ ~ devices'[d].selectionEnabled
  /\ DOMAIN devices \subseteq DOMAIN devices'
  /\ \A d \in DOMAIN devices' :
       \/ ~ devices'[d].selectionEnabled
       \/ d \in DOMAIN devices /\ devices'[d].selectionEnabled = devices[d].selectionEnabled
  /\ LeasesKept(devices, devices')
  /\ UNCHANGED <<workersByDeviceID, workerPhase, session, modeInfo, staleReleases>>

\* DeviceConn.Close takes the connection away from its device, if it is still its own.
LEMMA CloseDeviceConnDoes ==
  ASSUME MgrInv, NEW c \in Conns, CloseDeviceConn(c)
  PROVE  ConnClosed(c) /\ DevicesInv(devices')
<1> DEFINE D == ConnDevice[c]
<1>1. D \in DeviceIDs /\ c # NoConn /\ DevicesInv(devices)
  BY Facts
<1>2. \A d \in DOMAIN known : known[d] \in Device /\ (known[d].conn = c => d = D)
  BY <1>1, Facts DEF MgrInv, ControlSide, IsConnected
<1>3. CASE IsCurrentConn(c)
  <2>1. D \in DOMAIN known /\ known[D].conn = c
    BY <1>3 DEF IsCurrentConn
  <2>2. known' = [known EXCEPT ![D].conn = NoConn, ![D].past = AccumulateStats(@, c)]
    BY <1>3 DEF CloseDeviceConn
  <2>3. AccumulateStats(known[D].past, c) \in Seq(Conns)
    BY <1>2, <2>1 DEF Device, AccumulateStats
  <2>4. /\ known'[D] \in Device /\ known'[D].conn = NoConn
        /\ known'[D].selectionEnabled = known[D].selectionEnabled
        /\ DOMAIN known' = DOMAIN known
        /\ \A d \in DOMAIN known \ {D} : known'[d] = known[d]
    BY <1>2, <2>1, <2>2, <2>3 DEF Device
  <2>5. devices' = IF known[D].selectionEnabled THEN AfterDisableDevice(devices, D) ELSE devices
    BY <1>3 DEF CloseDeviceConn
  <2>6. /\ DevicesInv(devices') /\ LeasesKept(devices, devices')
        /\ DOMAIN devices \subseteq DOMAIN devices'
        /\ known[D].selectionEnabled => D \in DOMAIN devices' /\ ~ devices'[D].selectionEnabled
        /\ \A d \in DOMAIN devices' :
             \/ ~ devices'[d].selectionEnabled
             \/ d \in DOMAIN devices /\ devices'[d].selectionEnabled = devices[d].selectionEnabled
    <3>1. CASE known[D].selectionEnabled
      <4>1. devices' = AfterDisableDevice(devices, D)
        BY <2>5, <3>1
      <4>2. /\ DevicesInv(devices') /\ LeasesKept(devices, devices')
            /\ DOMAIN devices' = DOMAIN devices \cup {D}
            /\ ~ devices'[D].selectionEnabled
            /\ \A d \in DOMAIN devices \ {D} :
                 devices'[d].selectionEnabled = devices[d].selectionEnabled
        BY <1>1, <4>1, Disables, DisableDeviceInv
      <4> QED
        BY <4>2
    <3>2. CASE ~ known[D].selectionEnabled
      BY <1>1, <2>5, <3>2 DEF LeasesKept
    <3> QED
      BY <3>1, <3>2
  <2>7. \A d \in DOMAIN known :
          /\ known'[d] \in Device
          /\ known'[d].selectionEnabled = known[d].selectionEnabled
          /\ known'[d].conn = IF known[d].conn = c THEN NoConn ELSE known[d].conn
          /\ known[d].conn = c /\ known[d].selectionEnabled =>
               d \in DOMAIN devices' /\ ~ devices'[d].selectionEnabled
    BY <1>2, <2>1, <2>4, <2>6
  <2> QED
    BY <2>4, <2>6, <2>7 DEF CloseDeviceConn, ConnClosed
<1>4. CASE ~ IsCurrentConn(c)
  <2>1. UNCHANGED <<known, devices>>
    BY <1>4 DEF CloseDeviceConn
  <2>2. \A d \in DOMAIN known : known[d].conn # c
    BY <1>2, <1>4 DEF IsCurrentConn
  <2> QED
    BY <1>1, <1>2, <2>1, <2>2 DEF CloseDeviceConn, ConnClosed, LeasesKept
<1> QED
  BY <1>3, <1>4

\* Nothing changes for the control side, except that a device whose worker had left may
\* be back in the selector.
ControlKept ==
  /\ UNCHANGED <<known, connPhase>>
  /\ \A c \in Conns : c \in closing => c \in closing'
  /\ DOMAIN devices \subseteq DOMAIN devices'
  /\ \A d \in DOMAIN devices : devices'[d].selectionEnabled = devices[d].selectionEnabled
  /\ \A d \in DOMAIN devices' \ DOMAIN devices : d \notin DOMAIN known => ~ CleanDevice(d)'

\* A worker connection has registered, and replaces the one in its slot.
WorkerRegistered(c) ==
  LET D == DeviceOf[c]
  IN  /\ workerPhase[c] = "new" /\ workerPhase' = [workerPhase EXCEPT ![c] = "open"]
      /\ DOMAIN known' = DOMAIN known \cup {D}
      /\ \A d \in DOMAIN known : known'[d] = known[d]
      /\ known'[D] \in Device
      /\ D \notin DOMAIN known => known'[D].conn = NoConn /\ known'[D].selectionEnabled
      /\ \A d \in DeviceIDs, id \in WorkerIDs :
           workersByDeviceID'[d][id] = IF d = D /\ id = IDOf[c] THEN c
                                       ELSE workersByDeviceID[d][id]
      /\ RegisteredWorker(c) # NoWorker => RegisteredWorker(c) \in closing'
      /\ closing \subseteq closing'
      /\ DOMAIN devices' = DOMAIN devices \cup {D}
      /\ \A d \in DOMAIN devices : d # D \/ D \in DOMAIN known =>
           devices'[d].selectionEnabled = devices[d].selectionEnabled
      /\ D \notin DOMAIN known => ~ devices'[D].selectionEnabled
      /\ \A d \in DeviceIDs, id \in WorkerIDs :
           LeaseIn(devices', d, id) = IF d = D /\ id = IDOf[c]
                                      THEN [state |-> "free", worker |-> c] ELSE L(d, id)
      /\ UNCHANGED <<connPhase, session, modeInfo, staleReleases>>

\* RegisterWorker puts the connection in its slot, in the manager and in the selector.
LEMMA RegisterWorkerDoes ==
  ASSUME MgrInv, NEW c \in Workers, RegisterWorker(c)
  PROVE  WorkerRegistered(c) /\ DevicesInv(devices')
<1> DEFINE D == DeviceOf[c]
           told == IF D \notin DOMAIN known THEN AfterDisableDevice(devices, D) ELSE devices
<1>1. D \in DeviceIDs /\ IDOf[c] \in WorkerIDs /\ DevicesInv(devices)
  BY Facts
<1>2. /\ NewMITMDevice(WorkerOrigin[c]) \in Device
      /\ NewMITMDevice(WorkerOrigin[c]).conn = NoConn
      /\ NewMITMDevice(WorkerOrigin[c]).selectionEnabled
  BY ConnsAssumption DEF NewMITMDevice, Device
<1>3. known' = WithDevice(D, WorkerOrigin[c])
  BY DEF RegisterWorker
<1>4. /\ DOMAIN known' = DOMAIN known \cup {D}
      /\ \A d \in DOMAIN known : known'[d] = known[d]
      /\ known'[D] \in Device
      /\ D \notin DOMAIN known => known'[D].conn = NoConn /\ known'[D].selectionEnabled
  BY <1>2, <1>3, Facts DEF WithDevice, MapPut
<1>5. \A d \in DeviceIDs, id \in WorkerIDs :
        workersByDeviceID'[d][id] = IF d = D /\ id = IDOf[c] THEN c ELSE workersByDeviceID[d][id]
  BY <1>1, Facts DEF RegisterWorker
<1>6. /\ DevicesInv(told) /\ LeasesKept(devices, told)
      /\ DOMAIN told \subseteq DOMAIN devices \cup {D} /\ DOMAIN devices \subseteq DOMAIN told
      /\ \A d \in DOMAIN devices : d # D \/ D \in DOMAIN known =>
           told[d].selectionEnabled = devices[d].selectionEnabled
      /\ D \notin DOMAIN known => D \in DOMAIN told /\ ~ told[D].selectionEnabled
  <2>1. CASE D \in DOMAIN known
    BY <1>1, <2>1 DEF LeasesKept
  <2>2. CASE D \notin DOMAIN known
    <3>1. told = AfterDisableDevice(devices, D)
      BY <2>2
    <3> HIDE DEF told
    <3>2. /\ DevicesInv(told) /\ LeasesKept(devices, told)
          /\ DOMAIN told = DOMAIN devices \cup {D}
          /\ ~ told[D].selectionEnabled
          /\ \A d \in DOMAIN devices \ {D} : told[d].selectionEnabled = devices[d].selectionEnabled
      BY <1>1, <3>1, Disables, DisableDeviceInv
    <3> QED
      BY <2>2, <3>2
  <2> QED
    BY <2>1, <2>2
<1>7. devices' = AfterSetWorkerAvailable(told, c)
  BY DEF RegisterWorker
<1> HIDE DEF told
<1>8. /\ DevicesInv(devices')
      /\ DOMAIN devices' = DOMAIN told \cup {D}
      /\ \A d \in DOMAIN told : devices'[d].selectionEnabled = told[d].selectionEnabled
      /\ \A d \in DeviceIDs, id \in WorkerIDs :
           LeaseIn(devices', d, id) = IF d = D /\ id = IDOf[c]
                                      THEN [state |-> "free", worker |-> c]
                                      ELSE LeaseIn(told, d, id)
  <2>1. DevicesInv(told)
    BY <1>6
  <2>2. DevicesInv(AfterSetWorkerAvailable(told, c))
    BY <2>1, SetWorkerAvailableInv
  <2>3. /\ DOMAIN AfterSetWorkerAvailable(told, c) = DOMAIN told \cup {D}
        /\ \A d \in DOMAIN told :
             AfterSetWorkerAvailable(told, c)[d].selectionEnabled = told[d].selectionEnabled
        /\ \A d \in DeviceIDs, id \in WorkerIDs :
             LeaseIn(AfterSetWorkerAvailable(told, c), d, id) =
               IF d = D /\ id = IDOf[c] THEN [state |-> "free", worker |-> c]
                                        ELSE LeaseIn(told, d, id)
    BY <2>1, Offers
  <2> QED
    BY <1>7, <2>2, <2>3
<1>9. \A d \in DeviceIDs, id \in WorkerIDs :
        LeaseIn(devices', d, id) = IF d = D /\ id = IDOf[c]
                                   THEN [state |-> "free", worker |-> c] ELSE L(d, id)
  BY <1>6, <1>8 DEF L, LeasesKept
<1>10. /\ DOMAIN devices' = DOMAIN devices \cup {D}
       /\ \A d \in DOMAIN devices : d # D \/ D \in DOMAIN known =>
            devices'[d].selectionEnabled = devices[d].selectionEnabled
       /\ D \notin DOMAIN known => ~ devices'[D].selectionEnabled
  BY <1>6, <1>8
<1>11. /\ workerPhase[c] = "new" /\ workerPhase' = [workerPhase EXCEPT ![c] = "open"]
       /\ RegisteredWorker(c) # NoWorker => RegisteredWorker(c) \in closing'
       /\ closing \subseteq closing'
       /\ UNCHANGED <<connPhase, session, modeInfo, staleReleases>>
  BY DEF RegisterWorker
<1> QED
  BY <1>4, <1>5, <1>8, <1>9, <1>10, <1>11 DEF WorkerRegistered

\* A worker connection has left: it is registered no more, its lease is withdrawn if the
\* slot is its own, and sessions may have let go of it and of nothing else.
WorkerLeft(c) ==
  /\ workerPhase'[c] = "closed"
  /\ \A x \in Workers \ {c} : workerPhase'[x] = workerPhase[x]
  /\ \A x \in Workers \ {c} : x \in closing => x \in closing'
  /\ \A d \in DeviceIDs, id \in WorkerIDs :
       /\ workersByDeviceID'[d][id] = IF workersByDeviceID[d][id] = c THEN NoWorker
                                      ELSE workersByDeviceID[d][id]
       /\ \/ LeaseIn(devices', d, id) = L(d, id)
          \/ L(d, id).worker = c /\ LeaseIn(devices', d, id) = [state |-> "away", worker |-> c]
  /\ CleanSlot(c) => ~ Offered(LeaseIn(devices', DeviceOf[c], IDOf[c]), c)
  /\ \A k \in Controllers :
       \/ session'[k] = session[k]
       \/ ~ Holding(session'[k]) /\ (Holding(session[k]) => session[k].worker = c)
  /\ DOMAIN known' = DOMAIN known
  /\ UNCHANGED <<modeInfo, staleReleases>>

\* The close handler of a worker.
LEMMA DeregisterWorkerDoes ==
  ASSUME MgrInv, NEW c \in Workers, DeregisterWorker(c)
  PROVE  /\ DevicesInv(devices') /\ FlagsKept(devices, devices')
         /\ workerPhase' = [workerPhase EXCEPT ![c] = "closed"]
         /\ \A d \in DeviceIDs, id \in WorkerIDs :
              /\ workersByDeviceID'[d][id] = IF workersByDeviceID[d][id] = c THEN NoWorker
                                             ELSE workersByDeviceID[d][id]
              /\ LeaseIn(devices', d, id) = IF L(d, id).worker = c
                                            THEN [state |-> "away", worker |-> c]
                                            ELSE L(d, id)
<1>1. /\ DevicesInv(devices) /\ now \in Nat \ {ZeroTime}
      /\ DeviceOf[c] \in DeviceIDs /\ IDOf[c] \in WorkerIDs /\ c # NoWorker
      /\ workersByDeviceID \in [DeviceIDs -> [WorkerIDs -> Workers \cup {NoWorker}]]
  BY Facts
<1>2. devices' = AfterSetWorkerUnavailable(devices, c, now)
  BY DEF DeregisterWorker
<1>3. /\ DevicesInv(devices') /\ FlagsKept(devices, devices')
      /\ \A d \in DeviceIDs, id \in WorkerIDs :
           LeaseIn(devices', d, id) = IF L(d, id).worker = c
                                      THEN [state |-> "away", worker |-> c]
                                      ELSE L(d, id)
  BY <1>1, <1>2, Withdraws, SetWorkerUnavailableInv DEF L
<1>4. \A d \in DeviceIDs, id \in WorkerIDs :
        workersByDeviceID[d][id] = c => d = DeviceOf[c] /\ id = IDOf[c]
  BY <1>1 DEF MgrInv, WorkerSide, InItsPlace
<1>5. \A d \in DeviceIDs, id \in WorkerIDs :
        workersByDeviceID'[d][id] = IF workersByDeviceID[d][id] = c THEN NoWorker
                                    ELSE workersByDeviceID[d][id]
  BY <1>1, <1>4 DEF DeregisterWorker, RegisteredWorker
<1> QED
  BY <1>3, <1>5 DEF DeregisterWorker

\* Worker.Close takes the connection out of both.
LEMMA CloseWorkerDoes ==
  ASSUME MgrInv, NEW c \in Workers, CloseWorker(c)
  PROVE  ControlKept /\ WorkerLeft(c) /\ DevicesInv(devices')
<1>1. /\ DevicesInv(devices') /\ FlagsKept(devices, devices')
      /\ workerPhase' = [workerPhase EXCEPT ![c] = "closed"]
      /\ \A d \in DeviceIDs, id \in WorkerIDs :
           /\ workersByDeviceID'[d][id] = IF workersByDeviceID[d][id] = c THEN NoWorker
                                          ELSE workersByDeviceID[d][id]
           /\ LeaseIn(devices', d, id) = IF L(d, id).worker = c
                                         THEN [state |-> "away", worker |-> c]
                                         ELSE L(d, id)
  BY DeregisterWorkerDoes DEF CloseWorker
<1>2. /\ workerPhase \in [Workers -> {"new", "open", "closed"}]
      /\ DeviceOf[c] \in DeviceIDs /\ IDOf[c] \in WorkerIDs /\ c \notin Conns
  BY Facts, ControllersAssumption DEF MgrInv, MgrTypeOK
<1>3. ControlKept
  BY <1>1, <1>2 DEF CloseWorker, ControlKept, FlagsKept
<1>4. WorkerLeft(c)
  BY <1>1, <1>2 DEF CloseWorker, WorkerLeft, Offered
<1> QED
  BY <1>1, <1>3, <1>4

\* So does a proxy loop that ends, unless the worker closed before.
LEMMA EndRunDoes ==
  ASSUME MgrInv, NEW k \in Controllers, EndRun(k)
  PROVE  /\ ControlKept /\ WorkerLeft(session[k].worker) /\ DevicesInv(devices')
         /\ session[k].worker \in Workers
<1> DEFINE c == session[k].worker
<1>1. /\ session[k].phase = "proxying" /\ Holding(session[k])
      /\ c \in Workers /\ workerPhase[c] # "new"
      /\ session \in [Controllers -> [phase : {"new", "claimed", "registered", "proxying", "done"},
                                      worker : Workers \cup {NoWorker}]]
  BY DEF EndRun, Holding, MgrInv, MgrTypeOK, WorkerSide, HeldIsNotNew
<1>2. /\ workerPhase \in [Workers -> {"new", "open", "closed"}] /\ DevicesInv(devices)
      /\ DeviceOf[c] \in DeviceIDs /\ IDOf[c] \in WorkerIDs /\ c # NoWorker /\ c \notin Conns
  BY <1>1, Facts, ControllersAssumption DEF MgrInv, MgrTypeOK
<1>3. /\ session' = [session EXCEPT ![k].phase = "done"]
      /\ closing' = (closing \ {c}) \cup {modeInfo[c], k}
      /\ UNCHANGED <<known, connPhase, modeInfo, staleReleases>>
      /\ IF workerPhase[c] = "open" THEN DeregisterWorker(c)
         ELSE UNCHANGED <<devices, workersByDeviceID, workerPhase>>
  BY DEF EndRun
<1> HIDE DEF c
<1>4. \A j \in Controllers :
        \/ session'[j] = session[j]
        \/ ~ Holding(session'[j]) /\ (Holding(session[j]) => session[j].worker = c)
  BY <1>1, <1>3 DEF c, Holding
<1>5. CASE workerPhase[c] = "open"
  <2>1. /\ DevicesInv(devices') /\ FlagsKept(devices, devices')
        /\ workerPhase' = [workerPhase EXCEPT ![c] = "closed"]
        /\ \A d \in DeviceIDs, id \in WorkerIDs :
             /\ workersByDeviceID'[d][id] = IF workersByDeviceID[d][id] = c THEN NoWorker
                                            ELSE workersByDeviceID[d][id]
             /\ LeaseIn(devices', d, id) = IF L(d, id).worker = c
                                           THEN [state |-> "away", worker |-> c]
                                           ELSE L(d, id)
    BY <1>1, <1>3, <1>5, DeregisterWorkerDoes
  <2>2. ControlKept
    BY <1>2, <1>3, <2>1 DEF ControlKept, FlagsKept
  <2>3. /\ workerPhase'[c] = "closed"
        /\ \A x \in Workers \ {c} : workerPhase'[x] = workerPhase[x]
        /\ \A x \in Workers \ {c} : x \in closing => x \in closing'
        /\ ~ Offered(LeaseIn(devices', DeviceOf[c], IDOf[c]), c)
    BY <1>1, <1>2, <1>3, <2>1 DEF Offered, c
  <2>4. WorkerLeft(c)
    BY <1>3, <1>4, <2>1, <2>3 DEF WorkerLeft
  <2> QED
    BY <1>1, <2>1, <2>2, <2>4 DEF c
<1>6. CASE workerPhase[c] # "open"
  <2>1. UNCHANGED <<devices, workersByDeviceID, workerPhase>>
    BY <1>3, <1>6
  <2>2. \A d \in DeviceIDs, id \in WorkerIDs : workersByDeviceID[d][id] # c
    BY <1>2, <1>6 DEF MgrInv, WorkerSide, InItsPlace
  <2>3. workerPhase'[c] = "closed"
    BY <1>1, <1>2, <1>6, <2>1
  <2>4. CleanSlot(c) => ~ Offered(L(DeviceOf[c], IDOf[c]), c)
    BY <1>1, <1>2, <2>2 DEF MgrInv, WorkerSide, LeasesAgree, RegisteredWorker
  <2>5. ControlKept
    BY <1>2, <1>3, <2>1 DEF ControlKept
  <2>6. WorkerLeft(c)
    BY <1>2, <1>3, <1>4, <2>1, <2>2, <2>3, <2>4 DEF WorkerLeft, L
  <2> QED
    BY <1>1, <1>2, <2>1, <2>5, <2>6 DEF c
<1> QED
  BY <1>5, <1>6

\* Worker connections and controllers stay as they are, and no connection that a lease
\* offers is forgotten while it is registered.
WorkersKept ==
  /\ UNCHANGED <<workersByDeviceID, workerPhase, session, modeInfo, staleReleases>>
  /\ \A c \in Workers : c \in closing => c \in closing'
  /\ \A d \in DeviceIDs, id \in WorkerIDs :
       workersByDeviceID[d][id] # NoWorker /\ d \in DOMAIN known => d \in DOMAIN known'
  /\ \A d \in DeviceIDs, id \in WorkerIDs :
       \/ LeaseIn(devices', d, id) = L(d, id)
       \/ /\ LeaseIn(devices', d, id) = Lease!Unknown
          /\ L(d, id).state = "away" \/ workersByDeviceID[d][id] = NoWorker

\* A session goes on or ends without touching a worker.
SessionMoved(k) ==
  /\ UNCHANGED <<workersByDeviceID, workerPhase, staleReleases, known, closing>>
  /\ LeasesKept(devices, devices')
  /\ \A j \in Controllers \ {k} : session'[j] = session[j]
  /\ session'[k].worker = session[k].worker
  /\ Holding(session'[k]) <=> Holding(session[k])
  /\ session'[k].phase = "proxying" => modeInfo'[session[k].worker] # NoController
  /\ \A c \in Workers : modeInfo[c] # NoController => modeInfo'[c] # NoController

\* A session has claimed a connection that was offered.
SessionClaimed(k, c) ==
  /\ UNCHANGED <<workersByDeviceID, workerPhase, staleReleases, known, closing, modeInfo>>
  /\ session[k].phase = "new"
  /\ session' = [session EXCEPT ![k] = [phase |-> "claimed", worker |-> c]]
  /\ L(DeviceOf[c], IDOf[c]) = [state |-> "free", worker |-> c]
  /\ \A d \in DeviceIDs, id \in WorkerIDs :
       LeaseIn(devices', d, id) = IF d = DeviceOf[c] /\ id = IDOf[c]
                                  THEN [state |-> "leased", worker |-> c] ELSE L(d, id)

\* A session has given its connection back.
SessionReleased(k, c) ==
  /\ UNCHANGED <<workersByDeviceID, workerPhase, known, closing, modeInfo>>
  /\ session[k].phase = "claimed" /\ session[k].worker = c
  /\ session' = [session EXCEPT ![k].phase = "done"]
  /\ \A d \in DeviceIDs, id \in WorkerIDs :
       LeaseIn(devices', d, id) = IF d = DeviceOf[c] /\ id = IDOf[c]
                                  THEN [state |-> "free", worker |-> c] ELSE L(d, id)
  /\ staleReleases' = IF RegisteredWorker(c) = c THEN staleReleases ELSE staleReleases \cup {c}

\* A handshake that gets a worker gets one that was offered.
LEMMA ClaimWorkerDoes ==
  ASSUME MgrInv, NEW k \in Controllers, NEW requested \in RequestedWeights, NEW d \in DeviceIDs,
         ClaimWorker(k, requested, d)
  PROVE  /\ ControlKept /\ DevicesInv(devices')
         /\ ClaimedWorker(devices, d) \in Workers
         /\ SessionClaimed(k, ClaimedWorker(devices, d))
<1> DEFINE weight == ClampWeight(requested)
           c == ClaimedWorker(devices, d)
           slot == Head(devices[d].availableWorkers)
<1>1. DevicesInv(devices) /\ rateLimit \in RateLimits /\ now \in Nat
  BY Facts
<1>2. weight \in Weights
  BY WeightsAssumption, ClampWeightType
<1>3. /\ d \in Eligible(devices, rateLimit, now)
      /\ devices' = AfterClaim(devices, d, weight, rateLimit, now)
      /\ session[k].phase = "new"
      /\ session' = [session EXCEPT ![k] = [phase |-> "claimed", worker |-> c]]
      /\ UNCHANGED <<known, workersByDeviceID, controllers, connPhase, workerPhase,
                     modeInfo, closing, devicesTotal, staleReleases>>
  BY DEF ClaimWorker, getAvailableWorker, SelectWorker, BestDevices
<1> HIDE DEF weight, c, slot
<1>4. /\ DevicesInv(devices') /\ FlagsKept(devices, devices')
      /\ slot \in WorkerIDs
      /\ L(d, slot) = [state |-> "free", worker |-> c]
      /\ \A e \in DeviceIDs, x \in WorkerIDs :
           LeaseIn(devices', e, x) = IF e = d /\ x = slot
                                     THEN [state |-> "leased", worker |-> c] ELSE L(e, x)
  BY <1>1, <1>2, <1>3, Claims, AfterClaimInv DEF L, c, slot
<1>5. c \in Workers /\ DeviceOf[c] = d /\ IDOf[c] = slot
  BY <1>1, <1>4, LeaseFacts DEF L
<1>6. ControlKept
  BY <1>3, <1>4 DEF ControlKept, FlagsKept
<1>7. SessionClaimed(k, c)
  BY <1>3, <1>4, <1>5 DEF SessionClaimed
<1> QED
  BY <1>4, <1>5, <1>6, <1>7 DEF c

\* A handshake that fails offers its worker again, which may have left.
LEMMA ReleaseClaimDoes ==
  ASSUME MgrInv, NEW k \in Controllers, ReleaseClaim(k)
  PROVE  /\ ControlKept /\ DevicesInv(devices')
         /\ session[k].worker \in Workers
         /\ SessionReleased(k, session[k].worker)
<1> SUFFICES ASSUME NEW c, c = session[k].worker
             PROVE  /\ ControlKept /\ DevicesInv(devices')
                    /\ c \in Workers
                    /\ SessionReleased(k, c)
  OBVIOUS
<1>1. /\ session[k].phase = "claimed" /\ session[k].worker = c
      /\ devices' = AfterSetWorkerAvailable(devices, c)
      /\ session' = [session EXCEPT ![k].phase = "done"]
      /\ staleReleases' = IF RegisteredWorker(c) = c THEN staleReleases
                          ELSE staleReleases \cup {c}
      /\ UNCHANGED <<known, workersByDeviceID, connPhase, workerPhase, modeInfo, closing>>
  BY DEF ReleaseClaim
<1>2. c \in Workers
  BY <1>1 DEF Holding, MgrInv, WorkerSide, HeldIsNotNew
<1>3. /\ DevicesInv(devices) /\ DeviceOf[c] \in DeviceIDs /\ IDOf[c] \in WorkerIDs
      /\ c # NoWorker
  BY <1>2, Facts
<1>4. /\ DevicesInv(devices')
      /\ DOMAIN devices' = DOMAIN devices \cup {DeviceOf[c]}
      /\ \A d \in DOMAIN devices : devices'[d].selectionEnabled = devices[d].selectionEnabled
      /\ \A d \in DeviceIDs, id \in WorkerIDs :
           LeaseIn(devices', d, id) = IF d = DeviceOf[c] /\ id = IDOf[c]
                                      THEN [state |-> "free", worker |-> c] ELSE L(d, id)
  <2>1. DevicesInv(devices')
    BY <1>1, <1>2, <1>3, SetWorkerAvailableInv
  <2>2. /\ DOMAIN devices' = DOMAIN devices \cup {DeviceOf[c]}
        /\ \A d \in DOMAIN devices : devices'[d].selectionEnabled = devices[d].selectionEnabled
    BY <1>1, <1>2, <1>3, Offers
  <2>3. \A d \in DeviceIDs, id \in WorkerIDs :
          LeaseIn(devices', d, id) = IF d = DeviceOf[c] /\ id = IDOf[c]
                                     THEN [state |-> "free", worker |-> c]
                                     ELSE LeaseIn(devices, d, id)
    <3>1. devices' = AfterSetWorkerAvailable(devices, c) /\ DevicesInv(devices)
      BY <1>1, <1>3
    <3>2. \A d \in DeviceIDs, id \in WorkerIDs :
            LeaseIn(AfterSetWorkerAvailable(devices, c), d, id) =
              IF d = DeviceOf[c] /\ id = IDOf[c] THEN [state |-> "free", worker |-> c]
              ELSE LeaseIn(devices, d, id)
      BY <1>2, <3>1, Offers
    <3> QED
      BY <3>1, <3>2
  <2> QED
    BY <2>1, <2>2, <2>3 DEF L
<1>5. DeviceOf[c] \notin DOMAIN known => c \in staleReleases'
  <2>1. DeviceOf[c] \notin DOMAIN known => RegisteredWorker(c) # c
    BY <1>2, <1>3 DEF MgrInv, WorkerSide, InItsPlace, RegisteredWorker
  <2> QED
    BY <1>1, <2>1
<1>6. ControlKept
  BY <1>1, <1>4, <1>5 DEF ControlKept, CleanDevice
<1>7. SessionReleased(k, c)
  BY <1>1, <1>4 DEF SessionReleased
<1> QED
  BY <1>2, <1>4, <1>6, <1>7

\* A handshake that gets no worker changes no lease.
LEMMA RefuseControllerDoes ==
  ASSUME MgrInv, NEW k \in Controllers, RefuseController(k)
  PROVE  ControlKept /\ SessionMoved(k) /\ DevicesInv(devices')
<1>1. DevicesInv(devices) /\ rateLimit \in RateLimits /\ now \in Nat
  BY Facts
<1>2. /\ DevicesInv(devices') /\ FlagsKept(devices, devices') /\ LeasesKept(devices, devices')
  BY <1>1, RateChecks, RateCheckInv DEF RefuseController, RefuseWorker
<1>3. session \in [Controllers -> [phase : {"new", "claimed", "registered", "proxying", "done"},
                                   worker : Workers \cup {NoWorker}]]
  BY DEF MgrInv, MgrTypeOK
<1>4. ControlKept
  BY <1>2 DEF RefuseController, ControlKept, FlagsKept
<1>5. SessionMoved(k)
  BY <1>2, <1>3 DEF RefuseController, SessionMoved, Holding
<1> QED
  BY <1>2, <1>4, <1>5

\* The handshake is done, and the proxy loop begins.
LEMMA RegisterControllerDoes ==
  ASSUME MgrInv, NEW k \in Controllers, RegisterController(k)
  PROVE  ControlKept /\ SessionMoved(k) /\ DevicesInv(devices')
<1>1. session \in [Controllers -> [phase : {"new", "claimed", "registered", "proxying", "done"},
                                   worker : Workers \cup {NoWorker}]]
  BY DEF MgrInv, MgrTypeOK
<1>2. DevicesInv(devices')
  BY Facts DEF RegisterController
<1>3. ControlKept
  BY DEF RegisterController, ControlKept
<1>4. SessionMoved(k)
  BY <1>1 DEF RegisterController, SessionMoved, Holding, LeasesKept
<1> QED
  BY <1>2, <1>3, <1>4

\* The proxy loop begins, and the worker is told its controller.
LEMMA ProxyControllerDoes ==
  ASSUME MgrInv, NEW k \in Controllers, ProxyController(k)
  PROVE  ControlKept /\ SessionMoved(k) /\ DevicesInv(devices')
<1>1. session \in [Controllers -> [phase : {"new", "claimed", "registered", "proxying", "done"},
                                   worker : Workers \cup {NoWorker}]]
      /\ modeInfo \in [Workers -> Controllers \cup {NoController}]
      /\ NoController \notin Controllers
  BY ControllersAssumption DEF MgrInv, MgrTypeOK
<1>2. session[k].worker \in Workers
  BY DEF ProxyController, Holding, MgrInv, WorkerSide, HeldIsNotNew
<1>3. DevicesInv(devices')
  BY Facts DEF ProxyController
<1>4. ControlKept
  BY DEF ProxyController, ControlKept
<1>5. SessionMoved(k)
  BY <1>1, <1>2 DEF ProxyController, SessionMoved, Holding, LeasesKept
<1> QED
  BY <1>3, <1>4, <1>5

\* What closes a controller or asks for a connection to be closed leaves the rest alone.
LEMMA QuietDoes ==
  ASSUME MgrInv,
         \/ \E k \in Controllers : CloseController(k) \/ DisconnectController(k)
         \/ \E d \in DeviceIDs : DisconnectDevice(d)
         \/ Tick /\ UNCHANGED mgrVars
         \/ UNCHANGED allVars
  PROVE  ControlKept /\ WorkersKept /\ DevicesInv(devices')
<1>1. /\ UNCHANGED <<devices, known, connPhase, workersByDeviceID, workerPhase, session,
                     modeInfo, staleReleases>>
      /\ \A c \in Conns \cup Workers : c \in closing => c \in closing'
  <2>1. CASE \E k \in Controllers : CloseController(k)
    BY <2>1, ControllersAssumption DEF CloseController
  <2>2. CASE \E k \in Controllers : DisconnectController(k)
    BY <2>2 DEF DisconnectController
  <2>3. CASE \E d \in DeviceIDs : DisconnectDevice(d)
    BY <2>3 DEF DisconnectDevice
  <2>4. CASE Tick /\ UNCHANGED mgrVars
    BY <2>4 DEF Tick, mgrVars
  <2>5. CASE UNCHANGED allVars
    BY <2>5 DEF allVars, mgrVars
  <2> QED
    BY <2>1, <2>2, <2>3, <2>4, <2>5
<1>2. DevicesInv(devices')
  BY <1>1, Facts
<1>3. ControlKept
  BY <1>1 DEF ControlKept
<1>4. WorkersKept
  BY <1>1 DEF WorkersKept, L
<1> QED
  BY <1>2, <1>3, <1>4

\* Pruning forgets workers that are away.
LEMMA PruneDoes ==
  ASSUME MgrInv, pruneSelectorWorkerIDs
  PROVE  ControlKept /\ WorkersKept /\ DevicesInv(devices')
<1>1. /\ devices' = AfterPruneWorkerIDsSeen(devices, now)
      /\ UNCHANGED <<known, connPhase, workersByDeviceID, workerPhase, session,
                     modeInfo, staleReleases, closing>>
  BY DEF pruneSelectorWorkerIDs, PruneWorkerIDsSeen, mgrVars
<1>2. DevicesInv(devices) /\ now \in Nat
  BY Facts
<1>3. /\ DevicesInv(devices') /\ FlagsKept(devices, devices')
      /\ \A d \in DeviceIDs, id \in WorkerIDs :
           \/ LeaseIn(devices', d, id) = L(d, id)
           \/ L(d, id).state = "away" /\ LeaseIn(devices', d, id) = Lease!Unknown
  BY <1>1, <1>2, Prunes, PruneWorkerIDsSeenInv DEF L
<1>4. ControlKept
  BY <1>1, <1>3 DEF ControlKept, FlagsKept
<1>5. WorkersKept
  BY <1>1, <1>3 DEF WorkersKept
<1> QED
  BY <1>3, <1>4, <1>5

\* The operator has enabled or disabled a device.
SwitchedTo(d, on) ==
  /\ d \in DOMAIN known
  /\ known[d].selectionEnabled # on
  /\ DOMAIN known' = DOMAIN known
  /\ \A e \in DOMAIN known : /\ known'[e] \in Device
                             /\ known'[e].conn = known[e].conn
                             /\ known'[e].selectionEnabled = IF e = d THEN on
                                                             ELSE known[e].selectionEnabled
  /\ DOMAIN devices \subseteq DOMAIN devices'
  /\ DOMAIN devices' \subseteq DOMAIN devices \cup {d}
  /\ d \in DOMAIN devices' => devices'[d].selectionEnabled = on
  /\ ~ on => d \in DOMAIN devices'
  /\ \A e \in DOMAIN devices \ {d} : devices'[e].selectionEnabled = devices[e].selectionEnabled
  /\ UNCHANGED <<connPhase, closing>>

\* EnableDevice sets both flags of one device.
LEMMA ApiEnableDeviceDoes ==
  ASSUME MgrInv, NEW d \in DeviceIDs, ApiEnableDevice(d)
  PROVE  SwitchedTo(d, TRUE) /\ WorkersKept /\ DevicesInv(devices')
<1>1. DevicesInv(devices) /\ \A e \in DOMAIN known : known[e] \in Device
  BY Facts
<1>2. /\ DevicesInv(devices') /\ LeasesKept(devices, devices')
      /\ DOMAIN devices' = DOMAIN devices
      /\ \A e \in DOMAIN devices :
           devices'[e].selectionEnabled = (e = d \/ devices[e].selectionEnabled)
  BY <1>1, Enables, EnableDeviceInv DEF ApiEnableDevice
<1>3. \A e \in DOMAIN devices : devices[e].selectionEnabled \in BOOLEAN
  BY <1>1, Typed DEF SelectableDevice
<1>4. /\ d \in DOMAIN devices' => devices'[d].selectionEnabled = TRUE
      /\ \A e \in DOMAIN devices \ {d} : devices'[e].selectionEnabled = devices[e].selectionEnabled
  BY <1>2, <1>3
<1>5. /\ d \in DOMAIN known /\ ~ known[d].selectionEnabled
      /\ known' = [known EXCEPT ![d].selectionEnabled = TRUE]
      /\ UNCHANGED <<connPhase, closing>>
  BY DEF ApiEnableDevice
<1>6. /\ DOMAIN known' = DOMAIN known
      /\ \A e \in DOMAIN known : /\ known'[e] \in Device
                                 /\ known'[e].conn = known[e].conn
                                 /\ known'[e].selectionEnabled = IF e = d THEN TRUE
                                                                 ELSE known[e].selectionEnabled
  BY <1>1, <1>5 DEF Device
<1>7. SwitchedTo(d, TRUE)
  BY <1>2, <1>4, <1>5, <1>6 DEF SwitchedTo
<1>8. WorkersKept
  BY <1>2, <1>6 DEF ApiEnableDevice, WorkersKept, LeasesKept, L
<1> QED
  BY <1>2, <1>7, <1>8

\* DisableDevice clears both.
LEMMA ApiDisableDeviceDoes ==
  ASSUME MgrInv, NEW d \in DeviceIDs, ApiDisableDevice(d)
  PROVE  SwitchedTo(d, FALSE) /\ WorkersKept /\ DevicesInv(devices')
<1>1. DevicesInv(devices) /\ \A e \in DOMAIN known : known[e] \in Device
  BY Facts
<1>2. devices' = AfterDisableDevice(devices, d)
  BY DEF ApiDisableDevice
<1>3. /\ DevicesInv(devices') /\ LeasesKept(devices, devices')
      /\ DOMAIN devices' = DOMAIN devices \cup {d}
      /\ ~ devices'[d].selectionEnabled
      /\ \A e \in DOMAIN devices \ {d} : devices'[e].selectionEnabled = devices[e].selectionEnabled
  BY <1>1, <1>2, Disables, DisableDeviceInv
<1>4. devices'[d].selectionEnabled = FALSE
  <2>1. devices'[d].selectionEnabled \in BOOLEAN
    BY <1>3, Typed DEF SelectableDevice
  <2> QED
    BY <1>3, <2>1
<1>5. /\ d \in DOMAIN known /\ known[d].selectionEnabled
      /\ known' = [known EXCEPT ![d].selectionEnabled = FALSE]
      /\ UNCHANGED <<connPhase, closing>>
  BY DEF ApiDisableDevice
<1>6. /\ DOMAIN known' = DOMAIN known
      /\ \A e \in DOMAIN known : /\ known'[e] \in Device
                                 /\ known'[e].conn = known[e].conn
                                 /\ known'[e].selectionEnabled = IF e = d THEN FALSE
                                                                 ELSE known[e].selectionEnabled
  BY <1>1, <1>5 DEF Device
<1>7. SwitchedTo(d, FALSE)
  BY <1>3, <1>4, <1>5, <1>6 DEF SwitchedTo
<1>8. WorkersKept
  BY <1>3, <1>6 DEF ApiDisableDevice, WorkersKept, LeasesKept, L
<1> QED
  BY <1>3, <1>7, <1>8

\* Devices with neither a control connection nor a worker are gone; the selector keeps
\* those of which a connection is assigned.
Deleted(S) ==
  /\ S \subseteq Unconnected
  /\ DOMAIN known' = DOMAIN known \ S
  /\ \A d \in DOMAIN known' : known'[d] = known[d]
  /\ DOMAIN devices' \subseteq DOMAIN devices /\ DOMAIN devices \ S \subseteq DOMAIN devices'
  /\ \A d \in DOMAIN devices' : devices'[d] = devices[d]
  /\ UNCHANGED <<connPhase, closing>>

\* Deleting unconnected devices takes nothing away that is registered.
LEMMA DeleteDoes ==
  ASSUME MgrInv, NEW S, S \subseteq Unconnected, Delete(S)
  PROVE  Deleted(S) /\ WorkersKept /\ DevicesInv(devices')
<1>1. DevicesInv(devices)
  BY Facts
<1>2. /\ devices' = AfterRemoveDeadDevices(devices, S)
      /\ known' = [d \in DOMAIN known \ S |-> known[d]]
      /\ UNCHANGED <<connPhase, closing, workersByDeviceID, workerPhase, session, modeInfo,
                     staleReleases>>
  BY DEF Delete
<1>3. /\ DevicesInv(devices')
      /\ DOMAIN devices' \subseteq DOMAIN devices /\ DOMAIN devices \ S \subseteq DOMAIN devices'
      /\ \A d \in DOMAIN devices' : devices'[d] = devices[d]
  BY <1>1, <1>2, Removes
<1>4. \A d \in DeviceIDs, id \in WorkerIDs :
        IF d \in DOMAIN devices' THEN LeaseIn(devices', d, id) = LeaseIn(devices, d, id)
        ELSE LeaseIn(devices', d, id) = Lease!Unknown
  <2>1. \A d \in DeviceIDs, id \in WorkerIDs :
          LET after == AfterRemoveDeadDevices(devices, S)
          IN  IF d \in DOMAIN after THEN LeaseIn(after, d, id) = LeaseIn(devices, d, id)
              ELSE LeaseIn(after, d, id) = Lease!Unknown
    BY <1>1, Removes
  <2> QED
    BY <1>2, <2>1
<1>5. \A d \in S, id \in WorkerIDs : workersByDeviceID[d][id] = NoWorker
  BY DEF Unconnected, HasWorkers, WorkersOf
<1>6. \A d \in DeviceIDs : d \notin DOMAIN devices /\ d \notin DOMAIN devices' =>
        \A id \in WorkerIDs : LeaseIn(devices', d, id) = L(d, id)
  BY DEF LeaseIn, L
<1>7. Deleted(S)
  BY <1>2, <1>3 DEF Deleted
<1>8. WorkersKept
  <2>1. ASSUME NEW d \in DeviceIDs, NEW id \in WorkerIDs
        PROVE  \/ LeaseIn(devices', d, id) = L(d, id)
               \/ /\ LeaseIn(devices', d, id) = Lease!Unknown
                  /\ workersByDeviceID[d][id] = NoWorker
    <3>1. CASE d \in DOMAIN devices'
      BY <1>4, <3>1 DEF L
    <3>2. CASE d \notin DOMAIN devices' /\ d \notin DOMAIN devices
      BY <1>6, <3>2
    <3>3. CASE d \notin DOMAIN devices' /\ d \in DOMAIN devices
      <4>1. d \in S
        BY <1>3, <3>3
      <4> QED
        BY <1>4, <1>5, <3>3, <4>1
    <3> QED
      BY <3>1, <3>2, <3>3
  <2>2. ASSUME NEW d \in DeviceIDs, NEW id \in WorkerIDs,
               workersByDeviceID[d][id] # NoWorker, d \in DOMAIN known
        PROVE  d \in DOMAIN known'
    BY <1>2, <1>5, <2>2
  <2> QED
    BY <1>2, <2>1, <2>2 DEF WorkersKept
<1> QED
  BY <1>3, <1>7, <1>8

\* Control connections come and go without the workers.
LEMMA ConnWorkersKept ==
  ASSUME MgrInv, NEW c \in Conns, ConnRegistered(c) \/ ConnClosed(c)
  PROVE  WorkersKept
<1>1. c \notin Workers
  BY ControllersAssumption
<1>2. LeasesKept(devices, devices')
      /\ UNCHANGED <<workersByDeviceID, workerPhase, session, modeInfo, staleReleases>>
  BY DEF ConnRegistered, ConnClosed
<1>3. /\ \A x \in Workers : x \in closing => x \in closing'
      /\ DOMAIN known \subseteq DOMAIN known'
  BY <1>1 DEF ConnRegistered, ConnClosed
<1> QED
  BY <1>2, <1>3 DEF WorkersKept, LeasesKept, L

-----------------------------------------------------------------------------
(* The control side is kept by whatever happens to connections and devices. *)

\* A device that has no control connection has become selectable.
MadeSelectable(d) ==
  Selectable(d)' /\ ~ Reachable(d)' /\ ~ (Selectable(d) /\ ~ Reachable(d))

\* A step that leaves the control side alone keeps it in order.
LEMMA ControlKeptKeeps ==
  ASSUME MgrInv, ControlKept
  PROVE  ControlSide' /\ \A d \in DeviceIDs : MadeSelectable(d) => ~ CleanDevice(d)'
<1>1. ControlSide
  BY DEF MgrInv
<1>2. ControlSide'
  BY <1>1 DEF ControlKept, ControlSide, IsCurrentConn, IsConnected, DisabledByOperator,
              OfflineIsTracked
<1>3. ASSUME NEW d \in DeviceIDs, MadeSelectable(d) PROVE ~ CleanDevice(d)'
  <2>1. Reachable(d)' <=> Reachable(d)
    BY DEF ControlKept, Reachable, IsConnected
  <2>2. d \in DOMAIN devices' \ DOMAIN devices
    BY <1>3, <2>1 DEF MadeSelectable, Selectable, ControlKept
  <2>3. d \notin DOMAIN known
    BY <1>1, <1>3, <2>1, <2>2 DEF MadeSelectable, Reachable, ControlSide, OfflineIsTracked
  <2> QED
    BY <2>2, <2>3 DEF ControlKept
<1> QED
  BY <1>2, <1>3

\* A control connection that registers keeps it in order.
LEMMA ConnRegisteredKeeps ==
  ASSUME MgrInv, NEW c \in Conns, ConnRegistered(c)
  PROVE  ControlSide' /\ \A d \in DeviceIDs : ~ MadeSelectable(d)
<1> DEFINE D == ConnDevice[c]
<1>1. /\ ControlSide /\ c # NoConn
      /\ connPhase \in [Conns -> {"new", "open", "closed"}]
      /\ \A d \in DOMAIN known : known[d] \in Device
      /\ \A d \in DOMAIN devices : devices[d].selectionEnabled \in BOOLEAN
  BY Facts, Typed DEF MgrInv, MgrTypeOK, SelectableDevice
<1>2. IsFiniteSet(DOMAIN known')
  BY <1>1, FS_AddElement DEF ControlSide, ConnRegistered
<1>3. ASSUME NEW x \in Conns, connPhase'[x] = "open"
      PROVE  x \in closing' \/ IsCurrentConn(x)'
  <2>1. CASE x = c
    BY <2>1 DEF ConnRegistered, IsCurrentConn
  <2>2. CASE x # c
    <3>1. x \in closing \/ IsCurrentConn(x)
      BY <1>1, <1>3, <2>2 DEF ControlSide, ConnRegistered
    <3>2. CASE x \in closing
      BY <3>2 DEF ConnRegistered
    <3>3. CASE IsCurrentConn(x) /\ ConnDevice[x] = D
      BY <3>3, ConnsAssumption DEF ConnRegistered, IsCurrentConn
    <3>4. CASE IsCurrentConn(x) /\ ConnDevice[x] # D
      BY <3>4 DEF ConnRegistered, IsCurrentConn
    <3> QED
      BY <3>1, <3>2, <3>3, <3>4
  <2> QED
    BY <2>1, <2>2
<1>4. ASSUME NEW d \in DOMAIN known', known'[d].conn # NoConn
      PROVE  ConnDevice[known'[d].conn] = d /\ connPhase'[known'[d].conn] = "open"
  <2>1. CASE d = D
    BY <1>1, <2>1 DEF ConnRegistered
  <2>2. CASE d # D
    <3>1. d \in DOMAIN known /\ known'[d] = known[d]
      BY <2>2 DEF ConnRegistered
    <3>2. known[d].conn \in Conns
      BY <1>1, <1>4, <3>1 DEF Device
    <3>3. ConnDevice[known[d].conn] = d /\ connPhase[known[d].conn] = "open"
      BY <1>1, <1>4, <3>1 DEF ControlSide, IsConnected
    <3> QED
      BY <1>1, <3>1, <3>2, <3>3 DEF ConnRegistered
  <2> QED
    BY <2>1, <2>2
<1>5. DisabledByOperator'
  <2>1. SUFFICES ASSUME NEW d \in DOMAIN known', ~ known'[d].selectionEnabled
                 PROVE  d \in DOMAIN devices' /\ ~ devices'[d].selectionEnabled
    BY DEF DisabledByOperator
  <2>2. d \in DOMAIN known /\ ~ known[d].selectionEnabled
    BY <2>1 DEF ConnRegistered
  <2>3. d \in DOMAIN devices /\ ~ devices[d].selectionEnabled
    BY <1>1, <2>2 DEF ControlSide, DisabledByOperator
  <2> QED
    BY <2>1, <2>3 DEF ConnRegistered
<1>6. OfflineIsTracked'
  BY <1>1 DEF ControlSide, OfflineIsTracked, IsConnected, ConnRegistered
<1>7. ASSUME NEW d \in DeviceIDs PROVE ~ MadeSelectable(d)
  <2>1. CASE d = D
    <3>1. Reachable(d)'
      BY <1>1, <2>1 DEF Reachable, IsConnected, ConnRegistered
    <3> QED
      BY <3>1 DEF MadeSelectable
  <2>2. CASE d # D
    <3>1. (Reachable(d)' <=> Reachable(d)) /\ (Selectable(d)' <=> Selectable(d))
      BY <2>2 DEF Reachable, Selectable, IsConnected, ConnRegistered
    <3> QED
      BY <3>1 DEF MadeSelectable
  <2> QED
    BY <2>1, <2>2
<1> QED
  BY <1>2, <1>3, <1>4, <1>5, <1>6, <1>7 DEF ControlSide, IsConnected

\* A control connection that closes keeps it in order.
LEMMA ConnClosedKeeps ==
  ASSUME MgrInv, NEW c \in Conns, ConnClosed(c), DevicesInv(devices')
  PROVE  ControlSide' /\ \A d \in DeviceIDs : ~ MadeSelectable(d)
<1>1. /\ ControlSide /\ c # NoConn
      /\ connPhase \in [Conns -> {"new", "open", "closed"}]
      /\ \A d \in DOMAIN known : known[d] \in Device
  BY Facts DEF MgrInv, MgrTypeOK
<1>2. IsFiniteSet(DOMAIN known')
  BY <1>1 DEF ControlSide, ConnClosed
<1>3. ASSUME NEW x \in Conns, connPhase'[x] = "open"
      PROVE  x \in closing' \/ IsCurrentConn(x)'
  <2>1. x # c /\ connPhase[x] = "open"
    BY <1>1, <1>3 DEF ConnClosed
  <2>2. x \in closing \/ IsCurrentConn(x)
    BY <1>1, <2>1 DEF ControlSide
  <2> QED
    BY <2>1, <2>2 DEF ConnClosed, IsCurrentConn
<1>4. ASSUME NEW d \in DOMAIN known', known'[d].conn # NoConn
      PROVE  ConnDevice[known'[d].conn] = d /\ connPhase'[known'[d].conn] = "open"
  <2>1. d \in DOMAIN known /\ known[d].conn # c /\ known'[d].conn = known[d].conn
    BY <1>4 DEF ConnClosed
  <2>2. known[d].conn \in Conns
    BY <1>1, <1>4, <2>1 DEF Device
  <2>3. ConnDevice[known[d].conn] = d /\ connPhase[known[d].conn] = "open"
    BY <1>1, <1>4, <2>1 DEF ControlSide, IsConnected
  <2> QED
    BY <1>1, <2>1, <2>2, <2>3 DEF ConnClosed
<1>5. DisabledByOperator'
  <2>1. SUFFICES ASSUME NEW d \in DOMAIN known', ~ known'[d].selectionEnabled
                 PROVE  d \in DOMAIN devices' /\ ~ devices'[d].selectionEnabled
    BY DEF DisabledByOperator
  <2>2. d \in DOMAIN known /\ ~ known[d].selectionEnabled
    BY <2>1 DEF ConnClosed
  <2>3. d \in DOMAIN devices /\ ~ devices[d].selectionEnabled
    BY <1>1, <2>2 DEF ControlSide, DisabledByOperator
  <2> QED
    BY <2>3 DEF ConnClosed
<1>6. OfflineIsTracked'
  <2>1. SUFFICES ASSUME NEW d \in DOMAIN known', ~ IsConnected(d)' PROVE d \in DOMAIN devices'
    BY DEF OfflineIsTracked
  <2>2. CASE known[d].conn = c /\ known[d].selectionEnabled
    BY <2>2 DEF ConnClosed
  <2>3. CASE known[d].conn = c /\ ~ known[d].selectionEnabled
    BY <1>1, <2>3 DEF ConnClosed, ControlSide, DisabledByOperator
  <2>4. CASE known[d].conn # c
    BY <1>1, <2>1, <2>4 DEF ConnClosed, ControlSide, OfflineIsTracked, IsConnected
  <2> QED
    BY <2>2, <2>3, <2>4
<1>7. ASSUME NEW d \in DeviceIDs PROVE ~ MadeSelectable(d)
  <2>1. CASE d \in DOMAIN known /\ known[d].conn = c
    <3>1. d \in DOMAIN devices' /\ ~ devices'[d].selectionEnabled
      <4>1. CASE known[d].selectionEnabled
        BY <2>1, <4>1 DEF ConnClosed
      <4>2. CASE ~ known[d].selectionEnabled
        BY <1>5, <2>1, <4>2 DEF ConnClosed, DisabledByOperator
      <4> QED
        BY <4>1, <4>2
    <3> QED
      BY <3>1 DEF MadeSelectable, Selectable
  <2>2. CASE ~ (d \in DOMAIN known /\ known[d].conn = c)
    <3>1. (Reachable(d)' <=> Reachable(d)) /\ (Selectable(d)' => Selectable(d))
      BY <2>2 DEF Reachable, Selectable, IsConnected, ConnClosed
    <3> QED
      BY <3>1 DEF MadeSelectable
  <2> QED
    BY <2>1, <2>2
<1> QED
  BY <1>2, <1>3, <1>4, <1>5, <1>6, <1>7 DEF ControlSide, IsConnected

\* A worker that registers keeps it in order: a device that is new is disabled first.
LEMMA WorkerRegisteredKeepsControl ==
  ASSUME MgrInv, NEW c \in Workers, WorkerRegistered(c)
  PROVE  ControlSide' /\ \A d \in DeviceIDs : ~ MadeSelectable(d)
<1> DEFINE D == DeviceOf[c]
<1>1. ControlSide
  BY DEF MgrInv
<1>2. IsFiniteSet(DOMAIN known')
  BY <1>1, FS_AddElement DEF ControlSide, WorkerRegistered
<1>3. ASSUME NEW x \in Conns, connPhase'[x] = "open"
      PROVE  x \in closing' \/ IsCurrentConn(x)'
  BY <1>1, <1>3 DEF ControlSide, WorkerRegistered, IsCurrentConn
<1>4. ASSUME NEW d \in DOMAIN known', known'[d].conn # NoConn
      PROVE  ConnDevice[known'[d].conn] = d /\ connPhase'[known'[d].conn] = "open"
  BY <1>1, <1>4 DEF ControlSide, WorkerRegistered, IsConnected
<1>5. DisabledByOperator'
  <2>1. SUFFICES ASSUME NEW d \in DOMAIN known', ~ known'[d].selectionEnabled
                 PROVE  d \in DOMAIN devices' /\ ~ devices'[d].selectionEnabled
    BY DEF DisabledByOperator
  <2>2. d \in DOMAIN known /\ ~ known[d].selectionEnabled
    BY <2>1 DEF WorkerRegistered
  <2>3. d \in DOMAIN devices /\ ~ devices[d].selectionEnabled
    BY <1>1, <2>2 DEF ControlSide, DisabledByOperator
  <2> QED
    BY <2>2, <2>3 DEF WorkerRegistered
<1>6. OfflineIsTracked'
  BY <1>1 DEF ControlSide, OfflineIsTracked, IsConnected, WorkerRegistered
<1>7. ASSUME NEW d \in DeviceIDs PROVE ~ MadeSelectable(d)
  <2>1. CASE d = D /\ D \notin DOMAIN known
    BY <2>1 DEF MadeSelectable, Selectable, WorkerRegistered
  <2>2. CASE d # D \/ D \in DOMAIN known
    <3>1. Reachable(d)' <=> Reachable(d)
      BY <2>2 DEF Reachable, IsConnected, WorkerRegistered
    <3>2. ~ Reachable(d) /\ Selectable(d)' => Selectable(d)
      <4>1. CASE d \in DOMAIN devices
        BY <2>2, <4>1 DEF Selectable, WorkerRegistered
      <4>2. CASE d \notin DOMAIN devices
        BY <1>1, <2>2, <4>2 DEF Selectable, Reachable, ControlSide, OfflineIsTracked,
                                WorkerRegistered
      <4> QED
        BY <4>1, <4>2
    <3> QED
      BY <3>1, <3>2 DEF MadeSelectable
  <2> QED
    BY <2>1, <2>2
<1> QED
  BY <1>2, <1>3, <1>4, <1>5, <1>6, <1>7 DEF ControlSide, IsConnected

\* The operator keeps it in order, and makes one device selectable at most.
LEMMA SwitchedKeeps ==
  ASSUME MgrInv, NEW d \in DeviceIDs, NEW on \in BOOLEAN, SwitchedTo(d, on)
  PROVE  ControlSide' /\ \A e \in DeviceIDs : MadeSelectable(e) => e = d /\ on
<1>1. ControlSide
  BY DEF MgrInv
<1>2. IsFiniteSet(DOMAIN known')
  BY <1>1 DEF ControlSide, SwitchedTo
<1>3. ASSUME NEW x \in Conns, connPhase'[x] = "open"
      PROVE  x \in closing' \/ IsCurrentConn(x)'
  BY <1>1, <1>3 DEF ControlSide, SwitchedTo, IsCurrentConn
<1>4. ASSUME NEW e \in DOMAIN known', known'[e].conn # NoConn
      PROVE  ConnDevice[known'[e].conn] = e /\ connPhase'[known'[e].conn] = "open"
  BY <1>1, <1>4 DEF ControlSide, SwitchedTo, IsConnected
<1>5. DisabledByOperator'
  BY <1>1 DEF ControlSide, SwitchedTo, DisabledByOperator
<1>6. OfflineIsTracked'
  BY <1>1 DEF ControlSide, SwitchedTo, OfflineIsTracked, IsConnected
<1>7. ASSUME NEW e \in DeviceIDs, MadeSelectable(e) PROVE e = d /\ on
  <2>1. Reachable(e)' <=> Reachable(e)
    BY DEF Reachable, IsConnected, SwitchedTo
  <2>2. e # d => (Selectable(e)' <=> Selectable(e))
    BY DEF Selectable, SwitchedTo
  <2>3. Selectable(d)' => on
    BY DEF Selectable, SwitchedTo
  <2> QED
    BY <1>7, <2>1, <2>2, <2>3 DEF MadeSelectable
<1> QED
  BY <1>2, <1>3, <1>4, <1>5, <1>6, <1>7 DEF ControlSide, IsConnected

\* Deleting devices keeps it in order.
LEMMA DeletedKeeps ==
  ASSUME MgrInv, NEW S, Deleted(S)
  PROVE  ControlSide' /\ \A d \in DeviceIDs : ~ MadeSelectable(d)
<1>1. /\ ControlSide /\ \A c \in Conns : c # NoConn
      /\ \A d \in S : d \in DOMAIN known /\ known[d].conn = NoConn
  BY ConnsAssumption DEF MgrInv, Deleted, Unconnected, IsConnected
<1>2. IsFiniteSet(DOMAIN known')
  BY <1>1, FS_Subset DEF ControlSide, Deleted
<1>3. ASSUME NEW x \in Conns, connPhase'[x] = "open"
      PROVE  x \in closing' \/ IsCurrentConn(x)'
  BY <1>1, <1>3 DEF ControlSide, Deleted, IsCurrentConn
<1>4. ASSUME NEW d \in DOMAIN known', known'[d].conn # NoConn
      PROVE  ConnDevice[known'[d].conn] = d /\ connPhase'[known'[d].conn] = "open"
  BY <1>1, <1>4 DEF ControlSide, Deleted, IsConnected
<1>5. DisabledByOperator'
  BY <1>1 DEF ControlSide, Deleted, DisabledByOperator
<1>6. OfflineIsTracked'
  BY <1>1 DEF ControlSide, Deleted, OfflineIsTracked, IsConnected
<1>7. ASSUME NEW d \in DeviceIDs PROVE ~ MadeSelectable(d)
  <2>1. Reachable(d)' <=> Reachable(d)
    BY <1>1 DEF Reachable, IsConnected, Deleted
  <2>2. Selectable(d)' => Selectable(d)
    BY DEF Selectable, Deleted
  <2> QED
    BY <2>1, <2>2 DEF MadeSelectable
<1> QED
  BY <1>2, <1>3, <1>4, <1>5, <1>6, <1>7 DEF ControlSide, IsConnected

-----------------------------------------------------------------------------
(* The worker side is kept by whatever happens to workers and sessions. *)

\* The facts about leases and sessions that the lemmas below use.
LEMMA WorkerFacts ==
  ASSUME MgrInv
  PROVE  /\ WorkerSide
         /\ \A c \in Workers : DeviceOf[c] \in DeviceIDs /\ IDOf[c] \in WorkerIDs /\ c # NoWorker
         /\ \A d \in DeviceIDs, id \in WorkerIDs :
              /\ workersByDeviceID[d][id] \in Workers \cup {NoWorker}
              /\ L(d, id).state \in {"unknown", "free", "leased", "away"}
              /\ L(d, id).state = "unknown" => L(d, id).worker = NoWorker
              /\ L(d, id).state # "unknown" => /\ L(d, id).worker \in Workers
                                               /\ DeviceOf[L(d, id).worker] = d
                                               /\ IDOf[L(d, id).worker] = id
         /\ workerPhase \in [Workers -> {"new", "open", "closed"}]
         /\ session \in [Controllers ->
                           [phase : {"new", "claimed", "registered", "proxying", "done"},
                            worker : Workers \cup {NoWorker}]]
<1>1. \A d \in DeviceIDs, id \in WorkerIDs :
        /\ L(d, id).state \in {"unknown", "free", "leased", "away"}
        /\ L(d, id).state = "unknown" => L(d, id).worker = NoWorker
        /\ L(d, id).state # "unknown" => /\ L(d, id).worker \in Workers
                                         /\ DeviceOf[L(d, id).worker] = d
                                         /\ IDOf[L(d, id).worker] = id
  BY Facts, LeaseFacts DEF L
<1> QED
  BY <1>1, Facts DEF MgrInv, MgrTypeOK

\* A step that leaves the workers alone keeps the worker side in order.
LEMMA WorkersKeptKeeps ==
  ASSUME MgrInv, WorkersKept
  PROVE  WorkerSide'
<1>1. WorkerSide /\ Lease!Unknown = [state |-> "unknown", worker |-> NoWorker]
  BY WorkerFacts DEF Lease!Unknown
<1>2. InItsPlace'
  BY <1>1 DEF WorkerSide, InItsPlace, WorkersKept
<1>3. UpIsRegistered'
  BY <1>1 DEF WorkerSide, UpIsRegistered, RegisteredWorker, WorkersKept
<1>4. HeldIsNotNew'
  BY <1>1 DEF WorkerSide, HeldIsNotNew, WorkersKept, L
<1>5. FreeIsFree'
  BY <1>1 DEF WorkerSide, FreeIsFree, WorkersKept, L, Holds
<1>6. OneControllerPerWorker'
  BY <1>1 DEF WorkerSide, OneControllerPerWorker, WorkersKept, Holds
<1>7. ASSUME NEW c \in Workers, CleanSlot(c)'
      PROVE  LET lease == LeaseIn(devices', DeviceOf[c], IDOf[c])
             IN  /\ RegisteredWorker(c)' = c <=> Offered(lease, c)
                 /\ lease.worker = c /\ lease.state = "leased" =>
                       \E k \in Controllers : Holds(k, c)'
  <2> DEFINE before == L(DeviceOf[c], IDOf[c])
             lease == LeaseIn(devices', DeviceOf[c], IDOf[c])
  <2>1. /\ DeviceOf[c] \in DeviceIDs /\ IDOf[c] \in WorkerIDs /\ c # NoWorker
        /\ CleanSlot(c)
        /\ RegisteredWorker(c)' = RegisteredWorker(c)
        /\ \A k \in Controllers : Holds(k, c)' <=> Holds(k, c)
    BY <1>7, WorkerFacts DEF WorkersKept, CleanSlot, RegisteredWorker, Holds
  <2>2. /\ RegisteredWorker(c) = c <=> Offered(before, c)
        /\ before.worker = c /\ before.state = "leased" => \E k \in Controllers : Holds(k, c)
    BY <1>1, <2>1 DEF WorkerSide, LeasesAgree
  <2>3. \/ lease = before
        \/ lease = Lease!Unknown /\ (before.state = "away" \/ RegisteredWorker(c) = NoWorker)
    BY <2>1 DEF WorkersKept, RegisteredWorker
  <2> HIDE DEF before, lease
  <2>4. CASE lease = before
    BY <2>1, <2>2, <2>4 DEF lease
  <2>5. CASE lease = Lease!Unknown /\ (before.state = "away" \/ RegisteredWorker(c) = NoWorker)
    BY <1>1, <2>1, <2>2, <2>5 DEF Offered, lease
  <2> QED
    BY <2>3, <2>4, <2>5
<1> QED
  BY <1>2, <1>3, <1>4, <1>5, <1>6, <1>7 DEF WorkerSide, LeasesAgree, L

\* A worker that registers keeps it in order: what it replaces is about to be closed.
LEMMA WorkerRegisteredKeeps ==
  ASSUME MgrInv, NEW c \in Workers, WorkerRegistered(c)
  PROVE  WorkerSide'
<1> DEFINE D == DeviceOf[c]
           I == IDOf[c]
<1>1. /\ WorkerSide /\ D \in DeviceIDs /\ I \in WorkerIDs /\ c # NoWorker
      /\ workerPhase[c] = "new" /\ workerPhase'[c] = "open"
      /\ \A x \in Workers \ {c} : workerPhase'[x] = workerPhase[x]
      /\ UNCHANGED <<session, modeInfo, staleReleases>>
  BY WorkerFacts DEF WorkerRegistered
<1>2. \A d \in DeviceIDs, id \in WorkerIDs :
        /\ LeaseIn(devices', d, id) = IF d = D /\ id = I THEN [state |-> "free", worker |-> c]
                                      ELSE L(d, id)
        /\ workersByDeviceID'[d][id] = IF d = D /\ id = I THEN c ELSE workersByDeviceID[d][id]
  BY DEF WorkerRegistered
<1>3. \A k \in Controllers : \A x \in Workers : Holds(k, x)' <=> Holds(k, x)
  BY <1>1 DEF Holds
<1>4. \A k \in Controllers : ~ Holds(k, c)
  BY <1>1 DEF WorkerSide, HeldIsNotNew, Holds, Holding
<1>5. InItsPlace'
  <2>1. SUFFICES ASSUME NEW d \in DeviceIDs, NEW id \in WorkerIDs,
                        NEW x, x = workersByDeviceID'[d][id], x # NoWorker
                 PROVE  /\ DeviceOf[x] = d /\ IDOf[x] = id
                        /\ workerPhase'[x] = "open" /\ d \in DOMAIN known'
    BY DEF InItsPlace
  <2>2. CASE d = D /\ id = I
    BY <1>1, <1>2, <2>1, <2>2 DEF WorkerRegistered
  <2>3. CASE ~ (d = D /\ id = I)
    <3>1. x = workersByDeviceID[d][id] /\ x \in Workers
      BY <1>2, <2>1, <2>3, WorkerFacts
    <3>2. DeviceOf[x] = d /\ IDOf[x] = id /\ workerPhase[x] = "open" /\ d \in DOMAIN known
      BY <1>1, <2>1, <3>1 DEF WorkerSide, InItsPlace
    <3> QED
      BY <1>1, <3>1, <3>2 DEF WorkerRegistered
  <2> QED
    BY <2>2, <2>3
<1>6. UpIsRegistered'
  <2>1. SUFFICES ASSUME NEW x \in Workers, workerPhase'[x] = "open"
                 PROVE  RegisteredWorker(x)' = x \/ x \in closing'
    BY DEF UpIsRegistered
  <2>2. RegisteredWorker(x)' = IF DeviceOf[x] = D /\ IDOf[x] = I THEN c ELSE RegisteredWorker(x)
    BY <1>2, WorkerFacts DEF RegisteredWorker
  <2>3. CASE x = c
    BY <2>2, <2>3
  <2>4. CASE x # c
    <3>1. RegisteredWorker(x) = x \/ x \in closing
      BY <1>1, <2>1, <2>4 DEF WorkerSide, UpIsRegistered
    <3>2. DeviceOf[x] = D /\ IDOf[x] = I => RegisteredWorker(x) = RegisteredWorker(c)
      BY DEF RegisteredWorker
    <3> QED
      BY <2>2, <3>1, <3>2, WorkerFacts DEF WorkerRegistered
  <2> QED
    BY <2>3, <2>4
<1>7. HeldIsNotNew'
  <2>1. ASSUME NEW d \in DeviceIDs, NEW id \in WorkerIDs,
               LeaseIn(devices', d, id).state # "unknown"
        PROVE  workerPhase'[LeaseIn(devices', d, id).worker] # "new"
    <3>1. CASE d = D /\ id = I
      BY <1>1, <1>2, <3>1
    <3>2. CASE ~ (d = D /\ id = I)
      <4>1. LeaseIn(devices', d, id) = L(d, id)
        BY <1>2, <3>2
      <4>2. L(d, id).worker \in Workers /\ workerPhase[L(d, id).worker] # "new"
        BY <1>1, <2>1, <4>1, WorkerFacts DEF WorkerSide, HeldIsNotNew
      <4> QED
        BY <1>1, <4>1, <4>2
    <3> QED
      BY <3>1, <3>2
  <2>2. \A k \in Controllers :
          /\ Holding(session'[k]) =>
               session'[k].worker \in Workers /\ workerPhase'[session'[k].worker] # "new"
          /\ session'[k].phase = "proxying" => modeInfo'[session'[k].worker] # NoController
    BY <1>1 DEF WorkerSide, HeldIsNotNew
  <2> QED
    BY <2>1, <2>2 DEF HeldIsNotNew, L
<1>8. FreeIsFree'
  <2>1. SUFFICES ASSUME NEW d \in DeviceIDs, NEW id \in WorkerIDs,
                        LeaseIn(devices', d, id).state = "free", NEW k \in Controllers
                 PROVE  ~ (session'[k].worker = LeaseIn(devices', d, id).worker
                           /\ Holding(session'[k]))
    BY DEF FreeIsFree, L, Holds, Holding
  <2>2. CASE d = D /\ id = I
    BY <1>1, <1>2, <1>4, <2>2 DEF Holds, Holding
  <2>3. CASE ~ (d = D /\ id = I)
    <3>1. LeaseIn(devices', d, id) = L(d, id)
      BY <1>2, <2>3
    <3>2. ~ Holds(k, L(d, id).worker)
      BY <1>1, <2>1, <3>1 DEF WorkerSide, FreeIsFree
    <3> QED
      BY <1>1, <3>1, <3>2 DEF Holds, Holding
  <2> QED
    BY <2>2, <2>3
<1>9. OneControllerPerWorker'
  BY <1>1, <1>3 DEF WorkerSide, OneControllerPerWorker
<1>10. ASSUME NEW x \in Workers, CleanSlot(x)'
       PROVE  LET lease == LeaseIn(devices', DeviceOf[x], IDOf[x])
              IN  /\ RegisteredWorker(x)' = x <=> Offered(lease, x)
                  /\ lease.worker = x /\ lease.state = "leased" =>
                       \E k \in Controllers : Holds(k, x)'
  <2>1. DeviceOf[x] \in DeviceIDs /\ IDOf[x] \in WorkerIDs /\ CleanSlot(x)
    BY <1>1, <1>10, WorkerFacts DEF CleanSlot
  <2>2. CASE DeviceOf[x] = D /\ IDOf[x] = I
    BY <1>2, <2>1, <2>2 DEF RegisteredWorker, Offered
  <2>3. CASE ~ (DeviceOf[x] = D /\ IDOf[x] = I)
    <3>1. LeaseIn(devices', DeviceOf[x], IDOf[x]) = L(DeviceOf[x], IDOf[x])
          /\ RegisteredWorker(x)' = RegisteredWorker(x)
      BY <1>2, <2>1, <2>3 DEF RegisteredWorker
    <3> QED
      BY <1>1, <1>3, <2>1, <3>1 DEF WorkerSide, LeasesAgree
  <2> QED
    BY <2>2, <2>3
<1> QED
  BY <1>5, <1>6, <1>7, <1>8, <1>9, <1>10 DEF WorkerSide, LeasesAgree, L

\* A worker that leaves keeps it in order.
LEMMA WorkerLeftKeeps ==
  ASSUME MgrInv, NEW c \in Workers, WorkerLeft(c)
  PROVE  WorkerSide'
<1> DEFINE D == DeviceOf[c]
           I == IDOf[c]
<1>1. /\ WorkerSide /\ D \in DeviceIDs /\ I \in WorkerIDs /\ c # NoWorker
      /\ workerPhase'[c] = "closed"
      /\ \A x \in Workers \ {c} : workerPhase'[x] = workerPhase[x]
      /\ UNCHANGED <<modeInfo, staleReleases>>
  BY WorkerFacts DEF WorkerLeft
<1>2. \A d \in DeviceIDs, id \in WorkerIDs :
        /\ workersByDeviceID'[d][id] = IF workersByDeviceID[d][id] = c THEN NoWorker
                                       ELSE workersByDeviceID[d][id]
        /\ \/ LeaseIn(devices', d, id) = L(d, id)
           \/ L(d, id).worker = c /\ LeaseIn(devices', d, id) = [state |-> "away", worker |-> c]
  BY DEF WorkerLeft
<1>3. \A k \in Controllers :
        \/ session'[k] = session[k]
        \/ ~ Holding(session'[k]) /\ (Holding(session[k]) => session[k].worker = c)
  BY DEF WorkerLeft
<1>4. \A k \in Controllers : \A x :
        /\ Holds(k, x)' => Holds(k, x)
        /\ x # c /\ Holds(k, x) => Holds(k, x)'
  BY <1>3 DEF Holds, Holding
<1>5. InItsPlace'
  <2>1. SUFFICES ASSUME NEW d \in DeviceIDs, NEW id \in WorkerIDs,
                        NEW x, x = workersByDeviceID'[d][id], x # NoWorker
                 PROVE  /\ DeviceOf[x] = d /\ IDOf[x] = id
                        /\ workerPhase'[x] = "open" /\ d \in DOMAIN known'
    BY DEF InItsPlace
  <2>2. x = workersByDeviceID[d][id] /\ x \in Workers \ {c}
    BY <1>2, <2>1, WorkerFacts
  <2>3. DeviceOf[x] = d /\ IDOf[x] = id /\ workerPhase[x] = "open" /\ d \in DOMAIN known
    BY <1>1, <2>1, <2>2 DEF WorkerSide, InItsPlace
  <2> QED
    BY <1>1, <2>2, <2>3 DEF WorkerLeft
<1>6. UpIsRegistered'
  <2>1. SUFFICES ASSUME NEW x \in Workers, workerPhase'[x] = "open"
                 PROVE  RegisteredWorker(x)' = x \/ x \in closing'
    BY DEF UpIsRegistered
  <2>2. x # c /\ workerPhase[x] = "open"
    BY <1>1, <2>1
  <2>3. RegisteredWorker(x) = x \/ x \in closing
    BY <1>1, <2>2 DEF WorkerSide, UpIsRegistered
  <2>4. RegisteredWorker(x) = x => RegisteredWorker(x)' = x
    BY <1>2, <2>2, WorkerFacts DEF RegisteredWorker
  <2> QED
    BY <2>2, <2>3, <2>4 DEF WorkerLeft
<1>7. HeldIsNotNew'
  <2>1. ASSUME NEW x \in Workers, workerPhase[x] # "new" PROVE workerPhase'[x] # "new"
    BY <1>1, <2>1
  <2>2. ASSUME NEW d \in DeviceIDs, NEW id \in WorkerIDs,
               LeaseIn(devices', d, id).state # "unknown"
        PROVE  workerPhase'[LeaseIn(devices', d, id).worker] # "new"
    <3>1. CASE LeaseIn(devices', d, id) = L(d, id)
      BY <1>1, <2>1, <2>2, <3>1, WorkerFacts DEF WorkerSide, HeldIsNotNew
    <3>2. CASE LeaseIn(devices', d, id) = [state |-> "away", worker |-> c]
      BY <1>1, <3>2
    <3> QED
      BY <1>2, <3>1, <3>2
  <2>3. ASSUME NEW k \in Controllers, Holding(session'[k])
        PROVE  /\ session'[k].worker \in Workers /\ workerPhase'[session'[k].worker] # "new"
               /\ session'[k].phase = "proxying" => modeInfo'[session'[k].worker] # NoController
    BY <1>1, <1>3, <2>1, <2>3 DEF WorkerSide, HeldIsNotNew
  <2> QED
    BY <2>2, <2>3 DEF HeldIsNotNew, L, Holding
<1>8. FreeIsFree'
  <2>1. SUFFICES ASSUME NEW d \in DeviceIDs, NEW id \in WorkerIDs,
                        LeaseIn(devices', d, id).state = "free", NEW k \in Controllers
                 PROVE  ~ (session'[k].worker = LeaseIn(devices', d, id).worker
                           /\ Holding(session'[k]))
    BY DEF FreeIsFree, L, Holds, Holding
  <2>2. LeaseIn(devices', d, id) = L(d, id)
    BY <1>2, <2>1
  <2>3. ~ Holds(k, L(d, id).worker)
    BY <1>1, <2>1, <2>2 DEF WorkerSide, FreeIsFree
  <2> QED
    BY <1>3, <2>2, <2>3 DEF Holds, Holding
<1>9. OneControllerPerWorker'
  BY <1>1, <1>4 DEF WorkerSide, OneControllerPerWorker
<1>10. ASSUME NEW x \in Workers, CleanSlot(x)'
       PROVE  LET lease == LeaseIn(devices', DeviceOf[x], IDOf[x])
              IN  /\ RegisteredWorker(x)' = x <=> Offered(lease, x)
                  /\ lease.worker = x /\ lease.state = "leased" =>
                       \E k \in Controllers : Holds(k, x)'
  <2>1. DeviceOf[x] \in DeviceIDs /\ IDOf[x] \in WorkerIDs /\ CleanSlot(x)
    BY <1>1, <1>10, WorkerFacts DEF CleanSlot
  <2>2. CASE x = c
    <3>1. RegisteredWorker(x)' # c
      BY <1>1, <1>2, <2>2 DEF RegisteredWorker
    <3>2. ~ Offered(LeaseIn(devices', DeviceOf[x], IDOf[x]), x)
      BY <2>1, <2>2 DEF WorkerLeft
    <3> QED
      BY <2>2, <3>1, <3>2 DEF Offered
  <2>3. CASE x # c
    <3>1. RegisteredWorker(x)' = x <=> RegisteredWorker(x) = x
      BY <1>2, <2>1, <2>3, WorkerFacts DEF RegisteredWorker
    <3>2. LeaseIn(devices', DeviceOf[x], IDOf[x]).worker = x <=> L(DeviceOf[x], IDOf[x]).worker = x
      BY <1>2, <2>1, <2>3
    <3>3. L(DeviceOf[x], IDOf[x]).worker = x =>
            LeaseIn(devices', DeviceOf[x], IDOf[x]) = L(DeviceOf[x], IDOf[x])
      BY <1>2, <2>1, <2>3
    <3> QED
      BY <1>1, <1>4, <2>1, <2>3, <3>1, <3>2, <3>3 DEF WorkerSide, LeasesAgree, Offered
  <2> QED
    BY <2>2, <2>3
<1> QED
  BY <1>5, <1>6, <1>7, <1>8, <1>9, <1>10 DEF WorkerSide, LeasesAgree, L

\* A session that goes on keeps it in order.
LEMMA SessionMovedKeeps ==
  ASSUME MgrInv, NEW k \in Controllers, SessionMoved(k)
  PROVE  WorkerSide'
<1>1. /\ WorkerSide
      /\ UNCHANGED <<workersByDeviceID, workerPhase, staleReleases, known, closing>>
      /\ \A d \in DeviceIDs, id \in WorkerIDs : LeaseIn(devices', d, id) = L(d, id)
      /\ \A c \in Workers : DeviceOf[c] \in DeviceIDs /\ IDOf[c] \in WorkerIDs
  BY WorkerFacts DEF SessionMoved, LeasesKept, L
<1>2. \A j \in Controllers : /\ session'[j].worker = session[j].worker
                             /\ Holding(session'[j]) <=> Holding(session[j])
  BY DEF SessionMoved
<1>3. \A j \in Controllers : \A x :
        /\ Holds(j, x) <=> session[j].worker = x /\ Holding(session[j])
        /\ Holds(j, x)' <=> session[j].worker = x /\ Holding(session[j])
  BY <1>2 DEF Holds, Holding
<1>4. InItsPlace' /\ UpIsRegistered'
  BY <1>1 DEF WorkerSide, InItsPlace, UpIsRegistered, RegisteredWorker
<1>5. HeldIsNotNew'
  <2>1. \A d \in DeviceIDs, id \in WorkerIDs :
          LeaseIn(devices', d, id).state # "unknown" =>
            workerPhase'[LeaseIn(devices', d, id).worker] # "new"
    BY <1>1 DEF WorkerSide, HeldIsNotNew
  <2>2. ASSUME NEW j \in Controllers, Holding(session'[j])
        PROVE  session'[j].worker \in Workers /\ workerPhase'[session'[j].worker] # "new"
    BY <1>1, <1>2, <2>2 DEF WorkerSide, HeldIsNotNew
  <2>3. ASSUME NEW j \in Controllers, session'[j].phase = "proxying"
        PROVE  modeInfo'[session'[j].worker] # NoController
    <3>1. CASE j = k
      BY <2>3, <3>1 DEF SessionMoved
    <3>2. CASE j # k
      <4>1. session'[j] = session[j]
        BY <3>2 DEF SessionMoved
      <4>2. session[j].worker \in Workers /\ modeInfo[session[j].worker] # NoController
        BY <1>1, <2>3, <4>1 DEF WorkerSide, HeldIsNotNew, Holding
      <4> QED
        BY <4>1, <4>2 DEF SessionMoved
    <3> QED
      BY <3>1, <3>2
  <2> QED
    BY <2>1, <2>2, <2>3 DEF HeldIsNotNew, L
<1>6. FreeIsFree'
  BY <1>1, <1>2 DEF WorkerSide, FreeIsFree, L, Holds, Holding
<1>7. OneControllerPerWorker'
  BY <1>1, <1>3 DEF WorkerSide, OneControllerPerWorker
<1>8. LeasesAgree'
  <2>1. ASSUME NEW x \in Workers, CleanSlot(x)'
        PROVE  LET lease == LeaseIn(devices', DeviceOf[x], IDOf[x])
               IN  /\ RegisteredWorker(x)' = x <=> Offered(lease, x)
                   /\ lease.worker = x /\ lease.state = "leased" =>
                        \E j \in Controllers : Holds(j, x)'
    <3>1. /\ CleanSlot(x) /\ RegisteredWorker(x)' = RegisteredWorker(x)
          /\ LeaseIn(devices', DeviceOf[x], IDOf[x]) = L(DeviceOf[x], IDOf[x])
      BY <1>1, <2>1 DEF CleanSlot, RegisteredWorker
    <3> QED
      BY <1>1, <1>3, <3>1 DEF WorkerSide, LeasesAgree
  <2> QED
    BY <2>1 DEF LeasesAgree, L
<1> QED
  BY <1>4, <1>5, <1>6, <1>7, <1>8 DEF WorkerSide

\* A session that claims keeps it in order: nobody holds what is offered.
LEMMA SessionClaimedKeeps ==
  ASSUME MgrInv, NEW k \in Controllers, NEW c \in Workers, SessionClaimed(k, c)
  PROVE  WorkerSide'
<1> DEFINE D == DeviceOf[c]
           I == IDOf[c]
<1>1. /\ WorkerSide
      /\ UNCHANGED <<workersByDeviceID, workerPhase, staleReleases, known, closing, modeInfo>>
      /\ D \in DeviceIDs /\ I \in WorkerIDs /\ c # NoWorker
      /\ L(D, I) = [state |-> "free", worker |-> c]
      /\ \A d \in DeviceIDs, id \in WorkerIDs :
           LeaseIn(devices', d, id) = IF d = D /\ id = I
                                      THEN [state |-> "leased", worker |-> c] ELSE L(d, id)
  BY WorkerFacts DEF SessionClaimed
<1>2. /\ session'[k].phase = "claimed" /\ session'[k].worker = c /\ Holding(session'[k])
      /\ ~ Holding(session[k])
      /\ \A j \in Controllers \ {k} : session'[j] = session[j]
  BY WorkerFacts DEF SessionClaimed, Holding
<1>3. \A j \in Controllers : \A x :
        /\ Holds(j, x) <=> session[j].worker = x /\ Holding(session[j])
        /\ Holds(j, x)' <=> session'[j].worker = x /\ Holding(session'[j])
  BY DEF Holds, Holding
<1>4. \A j \in Controllers : ~ Holds(j, c)
  BY <1>1 DEF WorkerSide, FreeIsFree
<1>5. InItsPlace' /\ UpIsRegistered'
  BY <1>1 DEF WorkerSide, InItsPlace, UpIsRegistered, RegisteredWorker
<1>6. workerPhase[c] # "new"
  BY <1>1 DEF WorkerSide, HeldIsNotNew
<1>7. HeldIsNotNew'
  <2>1. \A d \in DeviceIDs, id \in WorkerIDs :
          LeaseIn(devices', d, id).state # "unknown" =>
            workerPhase'[LeaseIn(devices', d, id).worker] # "new"
    BY <1>1, <1>6 DEF WorkerSide, HeldIsNotNew
  <2>2. ASSUME NEW j \in Controllers
        PROVE  /\ Holding(session'[j]) =>
                    session'[j].worker \in Workers /\ workerPhase'[session'[j].worker] # "new"
               /\ session'[j].phase = "proxying" => modeInfo'[session'[j].worker] # NoController
    <3>1. CASE j = k
      BY <1>1, <1>2, <1>6, <3>1
    <3>2. CASE j # k
      BY <1>1, <1>2, <3>2 DEF WorkerSide, HeldIsNotNew
    <3> QED
      BY <3>1, <3>2
  <2> QED
    BY <2>1, <2>2 DEF HeldIsNotNew, L
<1>8. FreeIsFree'
  <2>1. SUFFICES ASSUME NEW d \in DeviceIDs, NEW id \in WorkerIDs,
                        LeaseIn(devices', d, id).state = "free", NEW j \in Controllers
                 PROVE  ~ (session'[j].worker = LeaseIn(devices', d, id).worker
                           /\ Holding(session'[j]))
    BY DEF FreeIsFree, L, Holds, Holding
  <2>2. ~ (d = D /\ id = I) /\ LeaseIn(devices', d, id) = L(d, id)
    BY <1>1, <2>1
  <2>3. L(d, id).worker # c /\ ~ Holds(j, L(d, id).worker)
    BY <1>1, <2>1, <2>2, WorkerFacts DEF WorkerSide, FreeIsFree
  <2> QED
    BY <1>2, <1>3, <2>2, <2>3
<1>9. OneControllerPerWorker'
  <2>1. SUFFICES ASSUME NEW i \in Controllers, NEW j \in Controllers, NEW x \in Workers,
                        Holds(i, x)', Holds(j, x)'
                 PROVE  i = j
    BY DEF OneControllerPerWorker
  <2>2. CASE i = k \/ j = k
    BY <1>2, <1>3, <1>4, <2>1, <2>2
  <2>3. CASE i # k /\ j # k
    BY <1>1, <1>2, <1>3, <2>1, <2>3 DEF WorkerSide, OneControllerPerWorker
  <2> QED
    BY <2>2, <2>3
<1>10. LeasesAgree'
  <2>1. ASSUME NEW x \in Workers, CleanSlot(x)'
        PROVE  LET lease == LeaseIn(devices', DeviceOf[x], IDOf[x])
               IN  /\ RegisteredWorker(x)' = x <=> Offered(lease, x)
                   /\ lease.worker = x /\ lease.state = "leased" =>
                        \E j \in Controllers : Holds(j, x)'
    <3>1. /\ DeviceOf[x] \in DeviceIDs /\ IDOf[x] \in WorkerIDs
          /\ CleanSlot(x) /\ RegisteredWorker(x)' = RegisteredWorker(x)
      BY <1>1, <2>1, WorkerFacts DEF CleanSlot, RegisteredWorker
    <3>2. RegisteredWorker(x) = x <=> Offered(L(DeviceOf[x], IDOf[x]), x)
      BY <1>1, <3>1 DEF WorkerSide, LeasesAgree
    <3>3. CASE DeviceOf[x] = D /\ IDOf[x] = I
      <4>1. /\ LeaseIn(devices', DeviceOf[x], IDOf[x]) = [state |-> "leased", worker |-> c]
            /\ L(DeviceOf[x], IDOf[x]) = [state |-> "free", worker |-> c]
        BY <1>1, <3>1, <3>3
      <4>2. Holds(k, c)'
        BY <1>2, <1>3
      <4> QED
        BY <3>1, <3>2, <4>1, <4>2 DEF Offered
    <3>4. CASE ~ (DeviceOf[x] = D /\ IDOf[x] = I)
      <4>1. LeaseIn(devices', DeviceOf[x], IDOf[x]) = L(DeviceOf[x], IDOf[x])
        BY <1>1, <3>1, <3>4
      <4>2. \A j \in Controllers : Holds(j, x) => Holds(j, x)'
        BY <1>2, <1>3
      <4> QED
        BY <1>1, <3>1, <3>2, <4>1, <4>2 DEF WorkerSide, LeasesAgree
    <3> QED
      BY <3>3, <3>4
  <2> QED
    BY <2>1 DEF LeasesAgree, L
<1> QED
  BY <1>5, <1>7, <1>8, <1>9, <1>10 DEF WorkerSide

\* A session that gives back keeps it in order: nobody else held the connection.
LEMMA SessionReleasedKeeps ==
  ASSUME MgrInv, NEW k \in Controllers, NEW c \in Workers, SessionReleased(k, c)
  PROVE  WorkerSide'
<1> DEFINE D == DeviceOf[c]
           I == IDOf[c]
<1>1. /\ WorkerSide
      /\ UNCHANGED <<workersByDeviceID, workerPhase, known, closing, modeInfo>>
      /\ D \in DeviceIDs /\ I \in WorkerIDs /\ c # NoWorker
      /\ \A d \in DeviceIDs, id \in WorkerIDs :
           LeaseIn(devices', d, id) = IF d = D /\ id = I
                                      THEN [state |-> "free", worker |-> c] ELSE L(d, id)
  BY WorkerFacts DEF SessionReleased
<1>2. /\ Holding(session[k]) /\ session[k].worker = c
      /\ ~ Holding(session'[k]) /\ session'[k].phase # "proxying"
      /\ \A j \in Controllers \ {k} : session'[j] = session[j]
  BY WorkerFacts DEF SessionReleased, Holding
<1>3. \A j \in Controllers : \A x :
        /\ Holds(j, x) <=> session[j].worker = x /\ Holding(session[j])
        /\ Holds(j, x)' <=> session'[j].worker = x /\ Holding(session'[j])
  BY DEF Holds, Holding
<1>4. \A j \in Controllers : ~ Holds(j, c)'
  BY <1>1, <1>2, <1>3 DEF WorkerSide, OneControllerPerWorker
<1>5. InItsPlace' /\ UpIsRegistered'
  BY <1>1 DEF WorkerSide, InItsPlace, UpIsRegistered, RegisteredWorker
<1>6. workerPhase[c] # "new"
  BY <1>1, <1>2 DEF WorkerSide, HeldIsNotNew
<1>7. HeldIsNotNew'
  <2>1. \A d \in DeviceIDs, id \in WorkerIDs :
          LeaseIn(devices', d, id).state # "unknown" =>
            workerPhase'[LeaseIn(devices', d, id).worker] # "new"
    BY <1>1, <1>6 DEF WorkerSide, HeldIsNotNew
  <2>2. \A j \in Controllers :
          /\ Holding(session'[j]) =>
               session'[j].worker \in Workers /\ workerPhase'[session'[j].worker] # "new"
          /\ session'[j].phase = "proxying" => modeInfo'[session'[j].worker] # NoController
    BY <1>1, <1>2 DEF WorkerSide, HeldIsNotNew
  <2> QED
    BY <2>1, <2>2 DEF HeldIsNotNew, L
<1>8. FreeIsFree'
  <2>1. SUFFICES ASSUME NEW d \in DeviceIDs, NEW id \in WorkerIDs,
                        LeaseIn(devices', d, id).state = "free", NEW j \in Controllers
                 PROVE  ~ (session'[j].worker = LeaseIn(devices', d, id).worker
                           /\ Holding(session'[j]))
    BY DEF FreeIsFree, L, Holds, Holding
  <2>2. CASE d = D /\ id = I
    BY <1>1, <1>3, <1>4, <2>2
  <2>3. CASE ~ (d = D /\ id = I)
    <3>1. LeaseIn(devices', d, id) = L(d, id)
      BY <1>1, <2>3
    <3>2. ~ Holds(j, L(d, id).worker)
      BY <1>1, <2>1, <3>1 DEF WorkerSide, FreeIsFree
    <3> QED
      BY <1>2, <1>3, <3>1, <3>2
  <2> QED
    BY <2>2, <2>3
<1>9. OneControllerPerWorker'
  BY <1>1, <1>2, <1>3 DEF WorkerSide, OneControllerPerWorker
<1>10. LeasesAgree'
  <2>1. ASSUME NEW x \in Workers, CleanSlot(x)'
        PROVE  LET lease == LeaseIn(devices', DeviceOf[x], IDOf[x])
               IN  /\ RegisteredWorker(x)' = x <=> Offered(lease, x)
                   /\ lease.worker = x /\ lease.state = "leased" =>
                        \E j \in Controllers : Holds(j, x)'
    <3>1. /\ DeviceOf[x] \in DeviceIDs /\ IDOf[x] \in WorkerIDs
          /\ CleanSlot(x) /\ RegisteredWorker(x)' = RegisteredWorker(x)
      BY <1>1, <2>1, WorkerFacts DEF SessionReleased, CleanSlot, RegisteredWorker
    <3>2. CASE DeviceOf[x] = D /\ IDOf[x] = I
      <4>1. LeaseIn(devices', DeviceOf[x], IDOf[x]) = [state |-> "free", worker |-> c]
        BY <1>1, <3>1, <3>2
      <4>2. c \notin staleReleases'
        BY <2>1, <3>2 DEF CleanSlot
      <4>3. RegisteredWorker(c) = c
        BY <4>2 DEF SessionReleased
      <4>4. RegisteredWorker(x) = c
        BY <3>2, <4>3 DEF RegisteredWorker
      <4> QED
        BY <3>1, <4>1, <4>4 DEF Offered
    <3>3. CASE ~ (DeviceOf[x] = D /\ IDOf[x] = I)
      <4>1. LeaseIn(devices', DeviceOf[x], IDOf[x]) = L(DeviceOf[x], IDOf[x])
        BY <1>1, <3>1, <3>3
      <4>2. \A j \in Controllers : Holds(j, x) => Holds(j, x)'
        BY <1>2, <1>3, <3>3
      <4> QED
        BY <1>1, <3>1, <4>1, <4>2 DEF WorkerSide, LeasesAgree
    <3> QED
      BY <3>2, <3>3
  <2> QED
    BY <2>1 DEF LeasesAgree, L
<1> QED
  BY <1>5, <1>7, <1>8, <1>9, <1>10 DEF WorkerSide

-----------------------------------------------------------------------------
(* Types. *)

\* What the manager knows of devices is typed.
KnownTyped == DOMAIN known \subseteq DeviceIDs /\ \A d \in DOMAIN known : known[d] \in Device

\* So is the rest of its state.
RestTyped ==
  /\ workersByDeviceID \in [DeviceIDs -> [WorkerIDs -> Workers \cup {NoWorker}]]
  /\ controllers \subseteq Controllers
  /\ connPhase \in [Conns -> {"new", "open", "closed"}]
  /\ workerPhase \in [Workers -> {"new", "open", "closed"}]
  /\ session \in [Controllers -> [phase : {"new", "claimed", "registered", "proxying", "done"},
                                  worker : Workers \cup {NoWorker}]]
  /\ modeInfo \in [Workers -> Controllers \cup {NoController}]
  /\ closing \subseteq Conns \cup Workers \cup Controllers
  /\ devicesTotal \in [Origins -> Int]
  /\ staleReleases \subseteq Workers

\* The type invariant in its three parts.
LEMMA TypesApart ==
  /\ MgrTypeOK <=> TypeOK /\ KnownTyped /\ RestTyped
  /\ SelectorInv => TypeOK
BY DEF MgrTypeOK, KnownTyped, RestTyped, SelectorInv

\* A selector in order stays in order if its map of devices does.
LEMMA SelectorStep ==
  ASSUME MgrInv, [MgrNext]_allVars, DevicesInv(devices')
  PROVE  SelectorInv'
<1>1. rateLimit \in RateLimits /\ now \in Nat \ {ZeroTime}
  BY Facts
<1>2. rateLimit' = rateLimit /\ now' \in {now, now + 1}
  <2>1. CASE Connections
    BY <2>1 DEF Connections, RegisterDeviceConnection, CloseDeviceConn, RegisterWorker, CloseWorker
  <2>2. CASE Sessions
    BY <2>2 DEF Sessions, ClaimWorker, getAvailableWorker, SelectWorker, RefuseController,
                RefuseWorker, ReleaseClaim, RegisterController, ProxyController, EndRun,
                CloseController
  <2>3. CASE Operator
    BY <2>3 DEF Operator, ApiEnableDevice, ApiDisableDevice, DisconnectDevice,
                DeleteUnconnectedDeviceID, Delete, DisconnectController,
                DeleteUnconnectedDevices
  <2>4. CASE Maintenance
    BY <2>4 DEF Maintenance, pruneSelectorWorkerIDs, PruneWorkerIDsSeen, Tick
  <2>5. CASE UNCHANGED allVars
    BY <2>5 DEF allVars
  <2> QED
    BY <2>1, <2>2, <2>3, <2>4, <2>5 DEF MgrNext
<1>3. rateLimit' \in RateLimits /\ now' \in Nat \ {ZeroTime}
  BY <1>1, <1>2 DEF ZeroTime
<1> QED
  BY <1>3 DEF SelectorInv, TypeOK, DevicesInv, DeviceInv

\* The gauge stays a number: only finitely many devices are ever deleted at once.
LEMMA DeleteTypes ==
  ASSUME MgrInv, NEW S, S \subseteq DOMAIN known, Delete(S)
  PROVE  RestTyped'
<1>1. RestTyped
  BY TypesApart DEF MgrInv
<1>2. IsFiniteSet(S)
  BY FS_Subset DEF MgrInv, ControlSide
<1>3. ASSUME NEW o \in Origins
      PROVE  devicesTotal[o] - Cardinality({d \in S : known[d].origin = o}) \in Int
  <2>1. Cardinality({d \in S : known[d].origin = o}) \in Nat
    BY <1>2, FS_Subset, FS_CardinalityType
  <2> QED
    BY <1>1, <2>1 DEF RestTyped
<1>4. devicesTotal' \in [Origins -> Int]
  BY <1>3 DEF Delete
<1> QED
  BY <1>1, <1>4 DEF Delete, RestTyped

\* Every step keeps the types that are the manager's own.
LEMMA RestStep ==
  ASSUME MgrInv, [MgrNext]_allVars
  PROVE  RestTyped'
<1> USE DEF RestTyped
<1>1. /\ RestTyped /\ KnownTyped
      /\ \A c \in Workers : DeviceOf[c] \in DeviceIDs /\ IDOf[c] \in WorkerIDs
      /\ ConnOrigin \in [Conns -> Origins] /\ WorkerOrigin \in [Workers -> Origins]
  BY TypesApart, Facts, ConnsAssumption DEF MgrInv
<1>2. ASSUME NEW d, NEW o \in Origins PROVE TotalsWithDevice(d, o) \in [Origins -> Int]
  BY <1>1 DEF TotalsWithDevice
<1>3. ASSUME NEW c \in Workers, DeregisterWorker(c)
      PROVE  /\ workerPhase' \in [Workers -> {"new", "open", "closed"}]
             /\ workersByDeviceID' \in [DeviceIDs -> [WorkerIDs -> Workers \cup {NoWorker}]]
  BY <1>1, <1>3 DEF DeregisterWorker
<1>4. ASSUME NEW c \in Conns, RegisterDeviceConnection(c) PROVE RestTyped'
  <2>1. WithDevice(ConnDevice[c], ConnOrigin[c])[ConnDevice[c]].conn \in Conns \cup {NoConn}
    BY <1>1 DEF WithDevice, MapPut, NewMITMDevice, KnownTyped, Device
  <2>2. closing' \subseteq Conns \cup Workers \cup Controllers
    BY <1>1, <1>4, <2>1 DEF RegisterDeviceConnection
  <2>3. devicesTotal' \in [Origins -> Int]
    BY <1>1, <1>2, <1>4 DEF RegisterDeviceConnection
  <2> QED
    BY <1>1, <1>4, <2>2, <2>3 DEF RegisterDeviceConnection
<1>5. ASSUME NEW c \in Conns, CloseDeviceConn(c) PROVE RestTyped'
  BY <1>1, <1>5 DEF CloseDeviceConn
<1>6. ASSUME NEW c \in Workers, RegisterWorker(c) PROVE RestTyped'
  <2>1. RegisteredWorker(c) \in Workers \cup {NoWorker}
    BY <1>1 DEF RegisteredWorker
  <2>2. closing' \subseteq Conns \cup Workers \cup Controllers
    BY <1>1, <1>6, <2>1 DEF RegisterWorker
  <2>3. devicesTotal' \in [Origins -> Int]
    BY <1>1, <1>2, <1>6 DEF RegisterWorker
  <2> QED
    BY <1>1, <1>6, <2>2, <2>3 DEF RegisterWorker
<1>7. ASSUME NEW c \in Workers, CloseWorker(c) PROVE RestTyped'
  BY <1>1, <1>3, <1>7 DEF CloseWorker
<1>8. ASSUME NEW k \in Controllers, NEW requested \in RequestedWeights, NEW d \in DeviceIDs,
             ClaimWorker(k, requested, d)
      PROVE  RestTyped'
  <2>1. ClaimedWorker(devices, d) \in Workers
    BY <1>8, ClaimWorkerDoes
  <2> QED
    BY <1>1, <1>8, <2>1 DEF ClaimWorker, getAvailableWorker
<1>9. ASSUME NEW k \in Controllers, RefuseController(k) PROVE RestTyped'
  BY <1>1, <1>9 DEF RefuseController
<1>10. ASSUME NEW k \in Controllers, ReleaseClaim(k) PROVE RestTyped'
  <2>1. session[k].worker \in Workers
    BY <1>10, ReleaseClaimDoes
  <2> QED
    BY <1>1, <1>10, <2>1 DEF ReleaseClaim
<1>11. ASSUME NEW k \in Controllers, RegisterController(k) PROVE RestTyped'
  BY <1>1, <1>11 DEF RegisterController
<1>12. ASSUME NEW k \in Controllers, ProxyController(k) PROVE RestTyped'
  BY <1>1, <1>12 DEF ProxyController
<1>13. ASSUME NEW k \in Controllers, EndRun(k) PROVE RestTyped'
  <2>1. session[k].worker \in Workers
    BY <1>13, EndRunDoes
  <2>2. modeInfo[session[k].worker] \in Controllers
    BY <1>1, <1>13, <2>1 DEF EndRun, MgrInv, WorkerSide, HeldIsNotNew
  <2>3. /\ workerPhase' \in [Workers -> {"new", "open", "closed"}]
        /\ workersByDeviceID' \in [DeviceIDs -> [WorkerIDs -> Workers \cup {NoWorker}]]
    <3>1. CASE workerPhase[session[k].worker] = "open"
      <4>1. DeregisterWorker(session[k].worker)
        BY <1>13, <3>1 DEF EndRun
      <4> QED
        BY <1>3, <2>1, <4>1
    <3>2. CASE workerPhase[session[k].worker] # "open"
      <4>1. UNCHANGED <<workersByDeviceID, workerPhase>>
        BY <1>13, <3>2 DEF EndRun
      <4> QED
        BY <1>1, <4>1
    <3> QED
      BY <3>1, <3>2
  <2>4. closing' \subseteq Conns \cup Workers \cup Controllers
    BY <1>1, <1>13, <2>2 DEF EndRun
  <2>5. /\ session' = [session EXCEPT ![k].phase = "done"]
        /\ UNCHANGED <<controllers, connPhase, modeInfo, devicesTotal, staleReleases>>
    BY <1>13 DEF EndRun
  <2> QED
    BY <1>1, <2>3, <2>4, <2>5
<1>14. ASSUME NEW k \in Controllers, CloseController(k) PROVE RestTyped'
  BY <1>1, <1>14 DEF CloseController
<1>15. ASSUME NEW d \in DeviceIDs, ApiEnableDevice(d) \/ ApiDisableDevice(d) PROVE RestTyped'
  BY <1>1, <1>15 DEF ApiEnableDevice, ApiDisableDevice
<1>16. ASSUME NEW d \in DeviceIDs, DisconnectDevice(d) PROVE RestTyped'
  <2>1. WorkersOf(d) \subseteq Workers /\ known[d].conn \in Conns
    BY <1>1, <1>16 DEF DisconnectDevice, WorkersOf, IsConnected, KnownTyped, Device
  <2>2. closing' \subseteq Conns \cup Workers \cup Controllers
    BY <1>1, <1>16, <2>1 DEF DisconnectDevice
  <2> QED
    BY <1>1, <1>16, <2>2 DEF DisconnectDevice
<1>17. ASSUME NEW d \in DeviceIDs, DeleteUnconnectedDeviceID(d) PROVE RestTyped'
  BY <1>17, DeleteTypes DEF DeleteUnconnectedDeviceID, Unconnected
<1>18. ASSUME DeleteUnconnectedDevices PROVE RestTyped'
  BY <1>18, DeleteTypes DEF DeleteUnconnectedDevices, Unconnected
<1>19. ASSUME NEW k \in Controllers, DisconnectController(k) PROVE RestTyped'
  BY <1>1, <1>19 DEF DisconnectController
<1>20. CASE Maintenance \/ UNCHANGED allVars
  BY <1>1, <1>20 DEF Maintenance, pruneSelectorWorkerIDs, mgrVars, allVars
<1> HIDE DEF RestTyped
<1> QED
  BY <1>4, <1>5, <1>6, <1>7, <1>8, <1>9, <1>10, <1>11, <1>12, <1>13, <1>14, <1>15, <1>16, <1>17,
     <1>18, <1>19, <1>20
  DEF MgrNext, Connections, Sessions, Operator

-----------------------------------------------------------------------------
(* The theorems. *)

\* What every step keeps, and that only the operator makes an unreachable device selectable.
StepKeeps ==
  /\ DevicesInv(devices') /\ KnownTyped'
  /\ ControlSide' /\ WorkerSide'
  /\ \A d \in DeviceIDs : MadeSelectable(d) => ApiEnableDevice(d) \/ ~ CleanDevice(d)'

\* Every step keeps the invariant, one case per operation.
LEMMA MgrStep ==
  ASSUME MgrInv, [MgrNext]_allVars
  PROVE  StepKeeps
<1>1. /\ KnownTyped
      /\ \A c \in Conns : ConnDevice[c] \in DeviceIDs
      /\ \A c \in Workers : DeviceOf[c] \in DeviceIDs
  BY TypesApart, Facts DEF MgrInv
<1>2. ASSUME ControlKept, DevicesInv(devices'), WorkerSide' PROVE StepKeeps
  <2>1. KnownTyped'
    BY <1>1, <1>2 DEF ControlKept, KnownTyped
  <2> QED
    BY <1>2, <2>1, ControlKeptKeeps DEF StepKeeps
<1>3. ASSUME NEW c \in Conns, RegisterDeviceConnection(c) PROVE StepKeeps
  <2>1. ConnRegistered(c) /\ DevicesInv(devices')
    BY <1>3, RegisterDeviceConnectionDoes
  <2>2. KnownTyped'
    BY <1>1, <2>1 DEF ConnRegistered, KnownTyped
  <2> QED
    BY <2>1, <2>2, ConnRegisteredKeeps, ConnWorkersKept, WorkersKeptKeeps DEF StepKeeps
<1>4. ASSUME NEW c \in Conns, CloseDeviceConn(c) PROVE StepKeeps
  <2>1. ConnClosed(c) /\ DevicesInv(devices')
    BY <1>4, CloseDeviceConnDoes
  <2>2. KnownTyped'
    BY <1>1, <2>1 DEF ConnClosed, KnownTyped
  <2> QED
    BY <2>1, <2>2, ConnClosedKeeps, ConnWorkersKept, WorkersKeptKeeps DEF StepKeeps
<1>5. ASSUME NEW c \in Workers, RegisterWorker(c) PROVE StepKeeps
  <2>1. WorkerRegistered(c) /\ DevicesInv(devices')
    BY <1>5, RegisterWorkerDoes
  <2>2. KnownTyped'
    <3>1. \A d \in DOMAIN known' : d # DeviceOf[c] => d \in DOMAIN known /\ known'[d] = known[d]
      BY <2>1 DEF WorkerRegistered
    <3>2. /\ DOMAIN known' = DOMAIN known \cup {DeviceOf[c]}
          /\ known'[DeviceOf[c]] \in Device
      BY <2>1 DEF WorkerRegistered
    <3>3. DOMAIN known \subseteq DeviceIDs /\ \A d \in DOMAIN known : known[d] \in Device
      BY <1>1 DEF KnownTyped
    <3>4. \A d \in DOMAIN known' : known'[d] \in Device
      BY <3>1, <3>2, <3>3
    <3>5. DOMAIN known' \subseteq DeviceIDs
      BY <1>1, <3>2, <3>3
    <3> QED
      BY <3>4, <3>5 DEF KnownTyped
  <2> QED
    BY <2>1, <2>2, WorkerRegisteredKeepsControl, WorkerRegisteredKeeps DEF StepKeeps
<1>6. ASSUME NEW c \in Workers, CloseWorker(c) PROVE StepKeeps
  BY <1>2, <1>6, CloseWorkerDoes, WorkerLeftKeeps
<1>7. ASSUME NEW k \in Controllers, NEW requested \in RequestedWeights, NEW d \in DeviceIDs,
             ClaimWorker(k, requested, d)
      PROVE  StepKeeps
  BY <1>2, <1>7, ClaimWorkerDoes, SessionClaimedKeeps
<1>8. ASSUME NEW k \in Controllers, ReleaseClaim(k) PROVE StepKeeps
  BY <1>2, <1>8, ReleaseClaimDoes, SessionReleasedKeeps
<1>9. ASSUME NEW k \in Controllers,
             RefuseController(k) \/ RegisterController(k) \/ ProxyController(k)
      PROVE  StepKeeps
  <2>1. ControlKept /\ SessionMoved(k) /\ DevicesInv(devices')
    BY <1>9, RefuseControllerDoes, RegisterControllerDoes, ProxyControllerDoes
  <2> QED
    BY <1>2, <2>1, SessionMovedKeeps
<1>10. ASSUME NEW k \in Controllers, EndRun(k) PROVE StepKeeps
  BY <1>2, <1>10, EndRunDoes, WorkerLeftKeeps
<1>11. ASSUME \/ \E k \in Controllers : CloseController(k) \/ DisconnectController(k)
              \/ \E d \in DeviceIDs : DisconnectDevice(d)
              \/ Tick /\ UNCHANGED mgrVars
              \/ UNCHANGED allVars
       PROVE  StepKeeps
  BY <1>2, <1>11, QuietDoes, WorkersKeptKeeps
<1>12. ASSUME NEW d \in DeviceIDs, ApiEnableDevice(d) PROVE StepKeeps
  <2>1. SwitchedTo(d, TRUE) /\ WorkersKept /\ DevicesInv(devices')
    BY <1>12, ApiEnableDeviceDoes
  <2>2. KnownTyped'
    BY <1>1, <2>1 DEF SwitchedTo, KnownTyped
  <2> QED
    BY <1>12, <2>1, <2>2, SwitchedKeeps, WorkersKeptKeeps DEF StepKeeps
<1>13. ASSUME NEW d \in DeviceIDs, ApiDisableDevice(d) PROVE StepKeeps
  <2>1. SwitchedTo(d, FALSE) /\ WorkersKept /\ DevicesInv(devices')
    BY <1>13, ApiDisableDeviceDoes
  <2>2. KnownTyped'
    BY <1>1, <2>1 DEF SwitchedTo, KnownTyped
  <2> QED
    BY <2>1, <2>2, SwitchedKeeps, WorkersKeptKeeps DEF StepKeeps
<1>14. ASSUME NEW S, S \subseteq Unconnected, Delete(S) PROVE StepKeeps
  <2>1. Deleted(S) /\ WorkersKept /\ DevicesInv(devices')
    BY <1>14, DeleteDoes
  <2>2. KnownTyped'
    BY <1>1, <2>1 DEF Deleted, KnownTyped
  <2> QED
    BY <2>1, <2>2, DeletedKeeps, WorkersKeptKeeps DEF StepKeeps
<1>15. ASSUME NEW d \in DeviceIDs, DeleteUnconnectedDeviceID(d) PROVE StepKeeps
  BY <1>14, <1>15 DEF DeleteUnconnectedDeviceID
<1>16. ASSUME DeleteUnconnectedDevices PROVE StepKeeps
  BY <1>14, <1>16 DEF DeleteUnconnectedDevices
<1>17. ASSUME pruneSelectorWorkerIDs PROVE StepKeeps
  BY <1>2, <1>17, PruneDoes, WorkersKeptKeeps
<1> QED
  BY <1>3, <1>4, <1>5, <1>6, <1>7, <1>8, <1>9, <1>10, <1>11, <1>12, <1>13, <1>15, <1>16, <1>17
  DEF MgrNext, Connections, Sessions, Operator, Maintenance

\* The manager starts without devices, connections and sessions.
LEMMA MgrStart == MgrInit => MgrInv
<1> SUFFICES ASSUME MgrInit PROVE MgrInv
  OBVIOUS
<1>1. DOMAIN known = {} /\ DOMAIN devices = {}
  BY DEF MgrInit, Init
<1>2. SelectorInv
  BY InitInv DEF MgrInit
<1>3. \A d \in DeviceIDs, id \in WorkerIDs :
        L(d, id) = [state |-> "unknown", worker |-> NoWorker]
        /\ workersByDeviceID[d][id] = NoWorker
  BY <1>1 DEF L, LeaseIn, Lease!Unknown, MgrInit
<1>4. KnownTyped /\ RestTyped
  BY <1>1 DEF MgrInit, KnownTyped, RestTyped
<1>5. ControlSide
  BY <1>1, FS_EmptySet DEF MgrInit, ControlSide, DisabledByOperator, OfflineIsTracked
<1>6. WorkerSide
  <2>1. InItsPlace
    BY <1>3 DEF InItsPlace
  <2>2. \A k \in Controllers : session[k].phase = "new"
    BY DEF MgrInit
  <2>3. UpIsRegistered
    BY DEF MgrInit, UpIsRegistered
  <2>4. HeldIsNotNew /\ FreeIsFree
    BY <1>3, <2>2 DEF HeldIsNotNew, FreeIsFree, Holding
  <2>5. OneControllerPerWorker
    BY <2>2 DEF OneControllerPerWorker, Holds
  <2>6. LeasesAgree
    <3>1. \A c \in Workers : DeviceOf[c] \in DeviceIDs /\ IDOf[c] \in WorkerIDs /\ c # NoWorker
      BY WorkersAssumption
    <3> QED
      BY <1>3, <3>1 DEF LeasesAgree, RegisteredWorker, Offered
  <2> QED
    BY <2>1, <2>3, <2>4, <2>5, <2>6 DEF WorkerSide
<1> QED
  BY <1>2, <1>4, <1>5, <1>6, TypesApart DEF MgrInv

\* The invariant is inductive.
LEMMA MgrInductive == MgrInv /\ [MgrNext]_allVars => MgrInv'
<1> SUFFICES ASSUME MgrInv, [MgrNext]_allVars PROVE MgrInv'
  OBVIOUS
<1>1. StepKeeps
  BY MgrStep
<1>2. SelectorInv'
  BY <1>1, SelectorStep DEF StepKeeps
<1>3. TypeOK'
  BY <1>2 DEF SelectorInv
<1>4. MgrTypeOK'
  BY <1>1, <1>3, RestStep DEF StepKeeps, MgrTypeOK, KnownTyped, RestTyped
<1> QED
  BY <1>1, <1>2, <1>4 DEF StepKeeps, MgrInv

\* Whatever comes, leaves, fails or is asked for, in whatever order: the connection manager,
\* the selector and the controllers agree on every device and every worker connection.
THEOREM ManagerCorrect == MgrSpec => []MgrInv
BY MgrStart, MgrInductive, PTL DEF MgrSpec

\* No websocket is left behind: a worker or control connection that is up is registered, or
\* a goroutine is about to close it, and nothing that has closed is registered.
THEOREM NothingLeftBehind == MgrSpec => []NoOrphans
<1>1. MgrInv => NoOrphans
  <2> SUFFICES ASSUME MgrInv PROVE NoOrphans
    OBVIOUS
  <2>1. ASSUME NEW d \in DeviceIDs, NEW c \in WorkersOf(d)
        PROVE  d \in DOMAIN known /\ workerPhase[c] = "open"
    BY <2>1 DEF WorkersOf, MgrInv, WorkerSide, InItsPlace
  <2>2. \A d \in DeviceIDs :
          HasWorkers(d) => d \in DOMAIN known /\ \A c \in WorkersOf(d) : workerPhase[c] = "open"
    BY <2>1 DEF HasWorkers
  <2> QED
    BY <2>2 DEF MgrInv, NoOrphans, ControlSide, WorkerSide, UpIsRegistered, IsCurrentConn
<1> QED
  BY <1>1, ManagerCorrect, PTL

\* GetAvailableWorker hands a worker connection to one controller at a time, also across
\* replaced connections and failed handshakes.
THEOREM NeverShared == MgrSpec => []OneControllerPerWorker
<1>1. MgrInv => OneControllerPerWorker
  BY DEF MgrInv, WorkerSide
<1> QED
  BY <1>1, ManagerCorrect, PTL

\* The selector leases what the manager has registered, somebody holds what it has leased,
\* and what the operator disabled it does not select.
THEOREM ManagerMatchesSelector == MgrSpec => []SelectorAgrees
<1>1. MgrInv => SelectorAgrees
  BY DEF MgrInv, ControlSide, WorkerSide, LeasesAgree, SelectorAgrees, Offered, L
<1> QED
  BY <1>1, ManagerCorrect, PTL

\* No order of connections coming and going makes a device without a control connection
\* selectable; only the operator's EnableDevice does.
THEOREM OperatorDecides == MgrSpec => OnlyOperatorEnablesUnreachable
<1>1. MgrInv /\ [MgrNext]_allVars =>
        [\A d \in DeviceIDs :
           /\ Selectable(d)' /\ ~ Reachable(d)'
           /\ ~ (Selectable(d) /\ ~ Reachable(d))
           => ApiEnableDevice(d) \/ ~ CleanDevice(d)']_allVars
  BY MgrStep DEF StepKeeps, MadeSelectable
<1> QED
  BY <1>1, ManagerCorrect, PTL DEF MgrSpec, OnlyOperatorEnablesUnreachable

-----------------------------------------------------------------------------
(* What is counted. *)

\* The traffic in a device's total is of connections that have registered, of each
\* once, and not of the current one.
PastIsOver ==
  \A d \in DOMAIN known :
    /\ IsInjective(known[d].past)
    /\ known[d].conn \notin Range(known[d].past)
    /\ \A c \in Range(known[d].past) : connPhase[c] # "new"

\* The gauges add up.  (Each of them on its own need not be right: a device that comes
\* back with another origin is not counted anew.)
GaugesAddUp == Sum(devicesTotal, Origins) = Cardinality(DOMAIN known)

CountInv == PastIsOver /\ GaugesAddUp

\* Steps that touch nothing that is counted.
LEMMA CountsKept ==
  ASSUME CountInv, UNCHANGED <<known, connPhase, devicesTotal>>
  PROVE  CountInv'
<1>1. PastIsOver'
  BY DEF CountInv, PastIsOver
<1>2. GaugesAddUp'
  BY DEF CountInv, GaugesAddUp
<1> QED
  BY <1>1, <1>2 DEF CountInv

\* A device that is added counts under its origin.
LEMMA DeviceAdded ==
  ASSUME MgrInv, GaugesAddUp, NEW d \in DeviceIDs, NEW origin \in Origins,
         devicesTotal' = TotalsWithDevice(d, origin), DOMAIN known' = DOMAIN known \cup {d}
  PROVE  GaugesAddUp'
<1>1. IsFiniteSet(DOMAIN known) /\ devicesTotal \in [Origins -> Int]
  BY DEF MgrInv, ControlSide, MgrTypeOK
<1>2. CASE d \in DOMAIN known
  <2>1. devicesTotal' = devicesTotal /\ DOMAIN known' = DOMAIN known
    BY <1>2 DEF TotalsWithDevice
  <2> QED
    BY <2>1 DEF GaugesAddUp
<1>3. CASE d \notin DOMAIN known
  <2>1. devicesTotal' = [devicesTotal EXCEPT ![origin] = @ + 1]
    BY <1>3 DEF TotalsWithDevice
  <2> DEFINE one == [o \in Origins |-> IF o = origin THEN 1 ELSE 0]
             place == [e \in {d} |-> origin]
  <2>2. \A o \in Origins : one[o] = Cardinality({e \in {d} : place[e] = o})
    <3>1. ASSUME NEW o \in Origins, o = origin PROVE {e \in {d} : place[e] = o} = {d}
      BY <3>1
    <3>2. ASSUME NEW o \in Origins, o # origin PROVE {e \in {d} : place[e] = o} = {}
      BY <3>2
    <3> QED
      BY <3>1, <3>2, FS_EmptySet, FS_Singleton
  <2>3. place \in [{d} -> Origins] /\ IsFiniteSet({d}) /\ Cardinality({d}) = 1
    BY FS_Singleton
  <2>4. \A o \in Origins : /\ devicesTotal'[o] \in Int /\ one[o] \in Int
                           /\ devicesTotal[o] = devicesTotal'[o] - one[o]
    BY <1>1, <2>1
  <2> HIDE DEF one, place
  <2>5. Sum(one, Origins) = 1
    BY <2>2, <2>3, OriginsAssumption, SumOfCounts
  <2>6. Sum(devicesTotal, Origins) = Sum(devicesTotal', Origins) - Sum(one, Origins)
    BY <2>4, OriginsAssumption, SumOfDifferences
  <2>7. Sum(devicesTotal', Origins) \in Int
    BY <2>4, OriginsAssumption, SumIsInt
  <2>8. Cardinality(DOMAIN known') = Cardinality(DOMAIN known) + 1
    BY <1>1, <1>3, FS_AddElement
  <2>9. Cardinality(DOMAIN known) \in Nat
    BY <1>1, FS_CardinalityType
  <2>10. Sum(devicesTotal', Origins) = Cardinality(DOMAIN known')
    BY <2>5, <2>6, <2>7, <2>8, <2>9 DEF GaugesAddUp
  <2> QED
    BY <2>10 DEF GaugesAddUp
<1> QED
  BY <1>2, <1>3

\* Devices that are deleted, each counted under the origin it has then.
LEMMA DevicesDeleted ==
  ASSUME MgrInv, GaugesAddUp, NEW S, S \subseteq DOMAIN known, Delete(S)
  PROVE  GaugesAddUp'
<1>1. /\ IsFiniteSet(DOMAIN known) /\ devicesTotal \in [Origins -> Int]
      /\ \A d \in DOMAIN known : known[d] \in Device
  BY DEF MgrInv, ControlSide, MgrTypeOK
<1>2. IsFiniteSet(S) /\ Cardinality(S) \in Nat
  BY <1>1, FS_Subset, FS_CardinalityType
<1> DEFINE place == [d \in S |-> known[d].origin]
           count == [o \in Origins |-> Cardinality({d \in S : place[d] = o})]
<1>3. place \in [S -> Origins]
  BY <1>1 DEF Device
<1>4. \A o \in Origins : {d \in S : place[d] = o} = {d \in S : known[d].origin = o}
  OBVIOUS
<1>5. devicesTotal' = [o \in Origins |-> devicesTotal[o] - count[o]] /\ DOMAIN known' = DOMAIN known \ S
  BY <1>4 DEF Delete
<1>6. \A o \in Origins : count[o] \in Int
  <2>1. ASSUME NEW o \in Origins PROVE Cardinality({d \in S : place[d] = o}) \in Nat
    BY <1>2, FS_Subset, FS_CardinalityType
  <2> QED
    BY <2>1
<1>7. \A o \in Origins : count[o] = Cardinality({d \in S : place[d] = o})
  OBVIOUS
<1> HIDE DEF place, count
<1>8. Sum(count, Origins) = Cardinality(S)
  BY <1>2, <1>3, <1>7, OriginsAssumption, SumOfCounts
<1>9. \A o \in Origins : /\ devicesTotal[o] \in Int /\ count[o] \in Int
                         /\ devicesTotal'[o] = devicesTotal[o] - count[o]
  BY <1>1, <1>5, <1>6
<1>10. Sum(devicesTotal', Origins) = Sum(devicesTotal, Origins) - Sum(count, Origins)
  BY <1>9, OriginsAssumption, SumOfDifferences
<1>11. Cardinality(DOMAIN known \ S) = Cardinality(DOMAIN known) - Cardinality(S)
  <2> DEFINE rest == DOMAIN known \ S
  <2>1. IsFiniteSet(rest) /\ rest \cup S = DOMAIN known /\ rest \cap S = {}
    BY <1>1, FS_Subset
  <2> HIDE DEF rest
  <2>2. Cardinality(rest \cup S) = Cardinality(rest) + Cardinality(S) - Cardinality(rest \cap S)
    BY <1>2, <2>1, FS_Union
  <2>3. Cardinality(rest) \in Nat /\ Cardinality(rest \cap S) = 0
    BY <2>1, FS_CardinalityType, FS_EmptySet
  <2>4. Cardinality(DOMAIN known) = Cardinality(rest) + Cardinality(S)
    BY <1>2, <2>1, <2>2, <2>3
  <2>5. Cardinality(rest) = Cardinality(DOMAIN known) - Cardinality(S)
    BY <1>2, <2>3, <2>4
  <2> QED
    BY <2>5 DEF rest
<1>12. Sum(devicesTotal', Origins) = Cardinality(DOMAIN known')
  BY <1>5, <1>8, <1>10, <1>11 DEF GaugesAddUp
<1> QED
  BY <1>12 DEF GaugesAddUp

\* AccumulateStats takes in a connection that is over, once.
LEMMA Accumulates ==
  ASSUME NEW past \in Seq(Conns), IsInjective(past), NEW conn \in Conns \cup {NoConn},
         conn \notin Range(past)
  PROVE  /\ IsInjective(AccumulateStats(past, conn))
         /\ Range(AccumulateStats(past, conn)) = Range(past) \cup ({conn} \ {NoConn})
<1>1. CASE conn = NoConn
  BY <1>1 DEF AccumulateStats
<1>2. CASE conn # NoConn
  BY <1>2, AppendNewProperties DEF AccumulateStats
<1> QED
  BY <1>1, <1>2

\* A connection that registers is in no total, and the one it replaces enters its
\* device's.
LEMMA RegisterConnCounts ==
  ASSUME MgrInv, CountInv, NEW c \in Conns, RegisterDeviceConnection(c)
  PROVE  CountInv'
<1> DEFINE D == ConnDevice[c]
           devs == WithDevice(D, ConnOrigin[c])
<1>1. /\ D \in DeviceIDs /\ c # NoConn
      /\ \A d \in DOMAIN known : known[d] \in Device
  BY Facts
<1>2. NewMITMDevice(ConnOrigin[c]) \in Device
  BY ConnsAssumption DEF NewMITMDevice, Device
<1>3. /\ DOMAIN devs = DOMAIN known \cup {D}
      /\ \A d \in DOMAIN known : devs[d] = known[d]
      /\ D \notin DOMAIN known => devs[D] = NewMITMDevice(ConnOrigin[c])
      /\ devs[D] \in Device
  BY <1>1, <1>2 DEF WithDevice, MapPut
<1> HIDE DEF devs
<1>4. known' = [devs EXCEPT ![D].conn = c, ![D].origin = ConnOrigin[c],
                            ![D].past = AccumulateStats(@, devs[D].conn)]
  BY DEF RegisterDeviceConnection, devs
<1> DEFINE past == AccumulateStats(devs[D].past, devs[D].conn)
<1>5. /\ DOMAIN known' = DOMAIN known \cup {D}
      /\ \A d \in DOMAIN known \ {D} : known'[d] = known[d]
      /\ known'[D].conn = c /\ known'[D].past = past
  BY <1>3, <1>4 DEF Device
<1>6. /\ connPhase[c] = "new" /\ connPhase' = [connPhase EXCEPT ![c] = "open"]
      /\ devicesTotal' = TotalsWithDevice(D, ConnOrigin[c])
  BY DEF RegisterDeviceConnection
<1>7. \A x \in Conns : connPhase'[x] = "new" => connPhase[x] = "new"
  BY <1>6 DEF MgrInv, MgrTypeOK
<1>8. /\ devs[D].past \in Seq(Conns) /\ devs[D].conn \in Conns \cup {NoConn}
      /\ IsInjective(devs[D].past) /\ devs[D].conn \notin Range(devs[D].past)
      /\ \A x \in Range(devs[D].past) : connPhase[x] # "new"
      /\ devs[D].conn # NoConn => connPhase[devs[D].conn] = "open"
  <2>1. CASE D \in DOMAIN known
    <3>1. devs[D] = known[D]
      BY <1>3, <2>1
    <3> QED
      BY <1>1, <2>1, <3>1 DEF Device, CountInv, PastIsOver, MgrInv, ControlSide, IsConnected
  <2>2. CASE D \notin DOMAIN known
    <3>1. devs[D].past = <<>> /\ devs[D].conn = NoConn
      BY <1>3, <2>2 DEF NewMITMDevice
    <3>2. IsInjective(<<>>) /\ Range(<<>>) = {} /\ <<>> \in Seq(Conns)
      BY DEF IsInjective, Range
    <3> QED
      BY <3>1, <3>2
  <2> QED
    BY <2>1, <2>2
<1>9. /\ IsInjective(past)
      /\ Range(past) = Range(devs[D].past) \cup ({devs[D].conn} \ {NoConn})
  BY <1>8, Accumulates
<1>10. \A x \in Range(past) : x \in Conns /\ connPhase[x] # "new"
  <2>1. \A x \in Range(devs[D].past) : x \in Conns
    BY <1>8 DEF Range
  <2> QED
    BY <1>8, <1>9, <2>1
<1> HIDE DEF past
<1>11. ASSUME NEW d \in DOMAIN known'
       PROVE  /\ IsInjective(known'[d].past)
              /\ known'[d].conn \notin Range(known'[d].past)
              /\ \A x \in Range(known'[d].past) : connPhase'[x] # "new"
  <2>1. CASE d = D
    BY <1>5, <1>6, <1>7, <1>9, <1>10, <2>1
  <2>2. CASE d # D
    <3>1. d \in DOMAIN known /\ known'[d] = known[d]
      BY <1>5, <2>2
    <3>2. \A x \in Range(known[d].past) : x \in Conns
      BY <1>1, <3>1 DEF Device, Range
    <3> QED
      BY <1>7, <3>1, <3>2 DEF CountInv, PastIsOver
  <2> QED
    BY <2>1, <2>2
<1>12. PastIsOver'
  BY <1>11 DEF PastIsOver
<1>13. GaugesAddUp'
  BY <1>1, <1>5, <1>6, ConnsAssumption, DeviceAdded DEF CountInv
<1> QED
  BY <1>12, <1>13 DEF CountInv

\* A connection that closes enters its device's total if it is the current one; one
\* that was replaced is in it already.
LEMMA CloseConnCounts ==
  ASSUME MgrInv, CountInv, NEW c \in Conns, CloseDeviceConn(c)
  PROVE  CountInv'
<1> DEFINE D == ConnDevice[c]
<1>1. /\ c # NoConn /\ \A d \in DOMAIN known : known[d] \in Device
  BY Facts
<1>2. /\ connPhase[c] = "open" /\ connPhase' = [connPhase EXCEPT ![c] = "closed"]
      /\ devicesTotal' = devicesTotal
  BY DEF CloseDeviceConn
<1>3. \A x \in Conns : connPhase'[x] = "new" => connPhase[x] = "new"
  BY <1>2 DEF MgrInv, MgrTypeOK
<1>4. /\ DOMAIN known' = DOMAIN known
      /\ \A d \in DOMAIN known : ~ (d = D /\ IsCurrentConn(c)) => known'[d] = known[d]
      /\ IsCurrentConn(c) =>
           D \in DOMAIN known /\ known[D].conn = c /\ known'[D].conn = NoConn
           /\ known'[D].past = AccumulateStats(known[D].past, c)
  <2>1. CASE IsCurrentConn(c)
    <3>1. D \in DOMAIN known /\ known[D].conn = c /\ known[D] \in Device
      BY <1>1, <2>1 DEF IsCurrentConn
    <3>2. known' = [known EXCEPT ![D].conn = NoConn, ![D].past = AccumulateStats(@, c)]
      BY <2>1 DEF CloseDeviceConn
    <3> QED
      BY <2>1, <3>1, <3>2 DEF Device
  <2>2. CASE ~ IsCurrentConn(c)
    BY <2>2 DEF CloseDeviceConn
  <2> QED
    BY <2>1, <2>2
<1>5. ASSUME NEW d \in DOMAIN known
      PROVE  /\ IsInjective(known'[d].past)
             /\ known'[d].conn \notin Range(known'[d].past)
             /\ \A x \in Range(known'[d].past) : connPhase'[x] # "new"
  <2>1. /\ known[d].past \in Seq(Conns) /\ IsInjective(known[d].past)
        /\ known[d].conn \notin Range(known[d].past)
        /\ \A x \in Range(known[d].past) : x \in Conns /\ connPhase[x] # "new"
    BY <1>1 DEF Device, Range, CountInv, PastIsOver
  <2>2. CASE d = D /\ IsCurrentConn(c)
    <3>1. known[d].conn = c /\ known'[d].conn = NoConn
          /\ known'[d].past = AccumulateStats(known[d].past, c)
      BY <1>4, <2>2
    <3>2. /\ IsInjective(known'[d].past)
          /\ Range(known'[d].past) = Range(known[d].past) \cup ({c} \ {NoConn})
      BY <2>1, <3>1, Accumulates
    <3>3. \A x \in Range(known'[d].past) : x \in Conns /\ connPhase[x] # "new"
      BY <1>2, <2>1, <3>2
    <3> QED
      BY <1>3, <3>1, <3>2, <3>3, ConnsAssumption
  <2>3. CASE ~ (d = D /\ IsCurrentConn(c))
    BY <1>3, <1>4, <2>1, <2>3
  <2> QED
    BY <2>2, <2>3
<1>6. PastIsOver'
  BY <1>4, <1>5 DEF PastIsOver
<1>7. GaugesAddUp'
  BY <1>2, <1>4 DEF CountInv, GaugesAddUp
<1> QED
  BY <1>6, <1>7 DEF CountInv

\* A worker may bring its device, which has no traffic of its own yet.
LEMMA RegisterWorkerCounts ==
  ASSUME MgrInv, CountInv, NEW c \in Workers, RegisterWorker(c)
  PROVE  CountInv'
<1> DEFINE D == DeviceOf[c]
<1>1. /\ known' = WithDevice(D, WorkerOrigin[c])
      /\ devicesTotal' = TotalsWithDevice(D, WorkerOrigin[c])
      /\ connPhase' = connPhase
  BY DEF RegisterWorker
<1>2. D \in DeviceIDs /\ WorkerOrigin[c] \in Origins
  BY Facts, ConnsAssumption
<1>3. /\ DOMAIN known' = DOMAIN known \cup {D}
      /\ \A d \in DOMAIN known : known'[d] = known[d]
      /\ D \notin DOMAIN known => known'[D] = NewMITMDevice(WorkerOrigin[c])
  BY <1>1 DEF WithDevice, MapPut
<1>4. IsInjective(<<>>) /\ Range(<<>>) = {}
  BY DEF IsInjective, Range
<1>5. PastIsOver'
  BY <1>1, <1>3, <1>4 DEF CountInv, PastIsOver, NewMITMDevice
<1>6. GaugesAddUp'
  BY <1>1, <1>2, <1>3, DeviceAdded DEF CountInv
<1> QED
  BY <1>5, <1>6 DEF CountInv

LEMMA DeleteCounts ==
  ASSUME MgrInv, CountInv, NEW S, S \subseteq DOMAIN known, Delete(S)
  PROVE  CountInv'
<1>1. /\ DOMAIN known' = DOMAIN known \ S /\ connPhase' = connPhase
      /\ \A d \in DOMAIN known' : known'[d] = known[d]
  BY DEF Delete
<1>2. PastIsOver'
  BY <1>1 DEF CountInv, PastIsOver
<1>3. GaugesAddUp'
  BY DevicesDeleted DEF CountInv
<1> QED
  BY <1>2, <1>3 DEF CountInv

\* The operator's switch counts for nothing.
LEMMA SwitchCounts ==
  ASSUME MgrInv, CountInv, NEW d \in DeviceIDs, ApiEnableDevice(d) \/ ApiDisableDevice(d)
  PROVE  CountInv'
<1>1. \A x \in DOMAIN known : known[x] \in Device
  BY Facts
<1>2. PICK on \in BOOLEAN : known' = [known EXCEPT ![d].selectionEnabled = on]
  BY DEF ApiEnableDevice, ApiDisableDevice
<1>3. /\ DOMAIN known' = DOMAIN known
      /\ \A x \in DOMAIN known : /\ known'[x].past = known[x].past
                                 /\ known'[x].conn = known[x].conn
  BY <1>1, <1>2 DEF Device
<1>4. connPhase' = connPhase /\ devicesTotal' = devicesTotal
  BY DEF ApiEnableDevice, ApiDisableDevice
<1>5. PastIsOver'
  BY <1>3, <1>4 DEF CountInv, PastIsOver
<1>6. GaugesAddUp'
  BY <1>3, <1>4 DEF CountInv, GaugesAddUp
<1> QED
  BY <1>5, <1>6 DEF CountInv

LEMMA CountStep ==
  ASSUME MgrInv, CountInv, [MgrNext]_allVars
  PROVE  CountInv'
<1>1. CASE Connections
  <2>1. ASSUME NEW c \in Workers, CloseWorker(c) PROVE CountInv'
    <3>1. UNCHANGED <<known, connPhase, devicesTotal>>
      BY <2>1 DEF CloseWorker
    <3> QED
      BY <3>1, CountsKept
  <2> QED
    BY <1>1, <2>1, RegisterConnCounts, CloseConnCounts, RegisterWorkerCounts DEF Connections
<1>2. CASE Sessions
  <2>1. UNCHANGED <<known, connPhase, devicesTotal>>
    BY <1>2 DEF Sessions, ClaimWorker, getAvailableWorker, RefuseController, ReleaseClaim,
                RegisterController, ProxyController, EndRun, CloseController
  <2> QED
    BY <2>1, CountsKept
<1>3. CASE Operator
  <2>1. ASSUME NEW d \in DeviceIDs, DisconnectDevice(d) PROVE CountInv'
    <3>1. UNCHANGED <<known, connPhase, devicesTotal>>
      BY <2>1 DEF DisconnectDevice
    <3> QED
      BY <3>1, CountsKept
  <2>2. ASSUME NEW d \in DeviceIDs, DeleteUnconnectedDeviceID(d) PROVE CountInv'
    <3>1. {d} \subseteq DOMAIN known /\ Delete({d})
      BY <2>2 DEF DeleteUnconnectedDeviceID, Unconnected
    <3> QED
      BY <3>1, DeleteCounts
  <2>3. ASSUME NEW k \in Controllers, DisconnectController(k) PROVE CountInv'
    <3>1. UNCHANGED <<known, connPhase, devicesTotal>>
      BY <2>3 DEF DisconnectController
    <3> QED
      BY <3>1, CountsKept
  <2>4. ASSUME DeleteUnconnectedDevices PROVE CountInv'
    <3>1. Unconnected \subseteq DOMAIN known /\ Delete(Unconnected)
      BY <2>4 DEF DeleteUnconnectedDevices, Unconnected
    <3> QED
      BY <3>1, DeleteCounts
  <2> QED
    BY <1>3, <2>1, <2>2, <2>3, <2>4, SwitchCounts DEF Operator
<1>4. CASE Maintenance \/ UNCHANGED allVars
  <2>1. UNCHANGED <<known, connPhase, devicesTotal>>
    BY <1>4 DEF Maintenance, pruneSelectorWorkerIDs, mgrVars, allVars
  <2> QED
    BY <2>1, CountsKept
<1> QED
  BY <1>1, <1>2, <1>3, <1>4 DEF MgrNext

LEMMA CountStart == MgrInit => CountInv
<1> SUFFICES ASSUME MgrInit PROVE CountInv
  OBVIOUS
<1>1. DOMAIN known = {}
  BY DEF MgrInit
<1> DEFINE place == [e \in {} |-> e]
<1>2. \A o \in Origins : devicesTotal[o] = Cardinality({e \in {} : place[e] = o})
  BY FS_EmptySet DEF MgrInit
<1>3. place \in [{} -> Origins] /\ IsFiniteSet({}) /\ Cardinality({}) = 0
  BY FS_EmptySet
<1> HIDE DEF place
<1>4. Sum(devicesTotal, Origins) = 0
  BY <1>2, <1>3, OriginsAssumption, SumOfCounts
<1> QED
  BY <1>1, <1>3, <1>4 DEF CountInv, PastIsOver, GaugesAddUp

\* AccumulateStats, addNewDevice and the two ways of deleting: the traffic of a control
\* connection is counted once, and the gauge devices_total counts each device once.
THEOREM EverythingOnce == MgrSpec => []CountedOnce
<1>1. MgrInit => CountInv
  BY CountStart
<1>2. MgrInv /\ CountInv /\ [MgrNext]_allVars => CountInv'
  BY CountStep
<1>3. CountInv => CountedOnce
  BY DEF CountInv, PastIsOver, GaugesAddUp, CountedOnce, Sum
<1> QED
  BY <1>1, <1>2, <1>3, ManagerCorrect, PTL DEF MgrSpec

-----------------------------------------------------------------------------
(***************************************************************************)
(* Theorems about Handler, for every set of connections and every number   *)
(* of reloads.                                                             *)
(*                                                                         *)
(* The inductive invariant relates what Container.mu protects to where     *)
(* each handler is: a PutSettings calls only registered watchers, a        *)
(* watcher is registered from Notify to the deferred deregistration, and   *)
(* what a handler has loaded or has been told is never older than the      *)
(* settings at the time it began to watch.                                 *)
(***************************************************************************)

\* Where a handler whose watcher may be registered can be: from the return of Notify
\* to the deferred calls.
MayWatch(h) ==
  pc[h] \in {"loading", "applying", "applyingData", "loop", "reading", "closing"}

\* The handler's watcher is registered for as long as it uses its connection, and at no
\* other time but before the deferred calls.
WatchersFollowPc ==
  \A h \in Handlers :
    /\ h \in watchers => MayWatch(h)
    /\ MayWatch(h) /\ pc[h] # "closing" => h \in watchers

\* PutSettings has calls to make only while it holds the lock, and only to watchers that
\* are registered, on the fields they set.
CallsAreToWatchers ==
  /\ notifying # {} => holdsMu
  /\ \A c \in notifying : c[1] \in watchers /\ c[2] \in Fields(c[1])

\* What a handler remembers is a past value of the settings, and what it loaded is no older
\* than its watcher.
LoadedIsFresh ==
  \A h \in Handlers :
    /\ watchedAt[h] <= settings
    /\ appliedAt[h] <= settings
    /\ loaded[h] <= settings
    /\ pc[h] \in {"applying", "applyingData"} => loaded[h] >= watchedAt[h]
    /\ pc[h] = "applyingData" => kind[h] = "controller" /\ timeouts[h].ping >= watchedAt[h]

\* A running connection has settings at least as new as its watcher; and a reload that
\* began after applyReadTimeouts returned has reached each field or is about to.
TimeoutsFollow ==
  \A h \in Handlers : Running(h) =>
    \A f \in Fields(h) :
      /\ timeouts[h][f] >= watchedAt[h]
      /\ settings # appliedAt[h] => timeouts[h][f] = settings \/ <<h, f>> \in notifying

\* From SetReadDeadline(time.Time{}) on, only the shutdown puts a deadline on a connection.
DeadlineCleared ==
  \A h \in Handlers :
    pc[h] \in {"watching", "loading", "applying", "applyingData", "loop", "reading"} /\ ~ ctxDone
      => deadline[h] = "none"

\* The inductive invariant.
HandlerInv ==
  /\ HTypeOK
  /\ WatchersFollowPc
  /\ CallsAreToWatchers
  /\ LoadedIsFresh
  /\ TimeoutsFollow
  /\ DeadlineCleared

-----------------------------------------------------------------------------
(* One step. *)

\* Every step keeps the types.
LEMMA TypePreserved ==
  ASSUME HTypeOK, [HNext]_hVars
  PROVE  HTypeOK'
<1> USE HandlersAssumption DEF HTypeOK, containerVars, historyVars
<1>1. ASSUME NEW h \in Handlers, ArmWakeUp(h) PROVE HTypeOK'
  BY <1>1 DEF ArmWakeUp
<1>2. ASSUME NEW h \in Handlers, Register(h) PROVE HTypeOK'
  BY <1>2 DEF Register
<1>3. ASSUME NEW h \in Handlers, ClearDeadline(h) PROVE HTypeOK'
  BY <1>3 DEF ClearDeadline
<1>4. ASSUME NEW h \in Handlers, Watch(h) PROVE HTypeOK'
  BY <1>4 DEF Watch
<1>5. ASSUME NEW h \in Handlers, LoadSettings(h) PROVE HTypeOK'
  BY <1>5 DEF LoadSettings
<1>6. ASSUME NEW h \in Handlers, ApplyPing(h) PROVE HTypeOK'
  BY <1>6 DEF ApplyPing
<1>7. ASSUME NEW h \in Handlers, ApplyData(h) PROVE HTypeOK'
  BY <1>7 DEF ApplyData
<1>8. ASSUME NEW h \in Handlers, Loop(h) PROVE HTypeOK'
  BY <1>8 DEF Loop
<1>9. ASSUME NEW h \in Handlers, Finish(h) PROVE HTypeOK'
  BY <1>9 DEF Finish
<1>10. ASSUME NEW h \in Handlers, Accept(h) PROVE HTypeOK'
  BY <1>10 DEF Accept
<1>11. ASSUME NEW h \in Handlers, ReadHandshake(h) PROVE HTypeOK'
  BY <1>11 DEF ReadHandshake
<1>12. ASSUME NEW h \in Handlers, FailHandshake(h) PROVE HTypeOK'
  BY <1>12 DEF FailHandshake
<1>13. ASSUME NEW h \in Handlers, Message(h) PROVE HTypeOK'
  BY <1>13 DEF Message
<1>14. ASSUME NEW h \in Handlers, ReadFails(h) PROVE HTypeOK'
  BY <1>14 DEF ReadFails
<1>15. ASSUME NEW h \in Handlers, DeadlinePasses(h) PROVE HTypeOK'
  BY <1>15 DEF DeadlinePasses
<1>16. ASSUME NEW h \in Handlers, WakeReader(h) PROVE HTypeOK'
  BY <1>16 DEF WakeReader
<1>17. CASE BeginPut
  BY <1>17 DEF BeginPut
<1>18. CASE EndPut
  BY <1>18 DEF EndPut
<1>19. CASE Shutdown
  BY <1>19 DEF Shutdown
<1>20. ASSUME NEW h \in Handlers, NEW f \in {"ping", "data"}, CallWatcher(h, f)
      PROVE  HTypeOK'
  BY <1>20 DEF CallWatcher
<1>21. CASE UNCHANGED hVars
  BY <1>21 DEF hVars
<1> HIDE DEF HandlerInv, HTypeOK
<1> QED
  BY <1>1, <1>2, <1>3, <1>4, <1>5, <1>6, <1>7, <1>8, <1>9, <1>10, <1>11,
     <1>12, <1>13, <1>14, <1>15, <1>16, <1>17, <1>18, <1>19, <1>20, <1>21
  DEF HNext, Proceed, Peer, Put

\* The initial states satisfy the invariant: nobody watches, nothing is running.
LEMMA InvHoldsInitially == HInit => HandlerInv
<1> SUFFICES ASSUME HInit PROVE HandlerInv
  OBVIOUS
<1>1. HTypeOK
  <2>1. 0 \in 0..MaxReloads
    BY HandlersAssumption
  <2>2. /\ loaded \in [Handlers -> 0..MaxReloads]
        /\ watchedAt \in [Handlers -> 0..MaxReloads]
        /\ appliedAt \in [Handlers -> 0..MaxReloads]
    BY <2>1, Zenon DEF HInit
  <2>3. timeouts \in [Handlers -> [ping : 0..MaxReloads, data : 0..MaxReloads]]
    BY <2>1 DEF HInit, NeverSet
  <2> QED
    BY <2>1, <2>2, <2>3 DEF HInit, HTypeOK
<1>2. WatchersFollowPc /\ CallsAreToWatchers /\ TimeoutsFollow /\ DeadlineCleared
  BY DEF HInit, WatchersFollowPc, MayWatch, CallsAreToWatchers, TimeoutsFollow, Running,
         DeadlineCleared
<1>3. LoadedIsFresh
  <2> SUFFICES ASSUME NEW h \in Handlers
               PROVE  /\ watchedAt[h] <= settings
                      /\ appliedAt[h] <= settings
                      /\ loaded[h] <= settings
                      /\ pc[h] = "idle"
    BY Zenon DEF LoadedIsFresh
  <2> QED
    BY DEF HInit
<1> QED
  BY <1>1, <1>2, <1>3 DEF HandlerInv

\* Every step keeps it.  The steps that could break it: a PutSettings that begins has to
\* have every watcher still to call (BeginPut), a watcher may leave only while none is under
\* way (Finish), and a connection starts to run with what it loaded after it began to watch,
\* or with what it was told since (ApplyPing, ApplyData).
LEMMA InvPreserved ==
  ASSUME HandlerInv, [HNext]_hVars
  PROVE  HandlerInv'
<1> USE HandlersAssumption
    DEF HandlerInv, HTypeOK, WatchersFollowPc, MayWatch, CallsAreToWatchers, LoadedIsFresh,
        TimeoutsFollow, Running, Fields, DeadlineCleared, containerVars, historyVars
<1>0. HTypeOK'
  <2> HIDE DEF HTypeOK
  <2> QED BY TypePreserved
<1>1. ASSUME NEW h \in Handlers, ArmWakeUp(h) PROVE HandlerInv'
  BY <1>1 DEF ArmWakeUp
<1>2. ASSUME NEW h \in Handlers, Register(h) PROVE HandlerInv'
  BY <1>2 DEF Register
<1>3. ASSUME NEW h \in Handlers, ClearDeadline(h) PROVE HandlerInv'
  BY <1>3 DEF ClearDeadline
<1>4. ASSUME NEW h \in Handlers, Watch(h) PROVE HandlerInv'
  BY <1>4 DEF Watch
<1>5. ASSUME NEW h \in Handlers, LoadSettings(h) PROVE HandlerInv'
  BY <1>5 DEF LoadSettings
<1>6. ASSUME NEW h \in Handlers, ApplyPing(h) PROVE HandlerInv'
  <2>1. WatchersFollowPc'
    BY <1>6 DEF ApplyPing
  <2>2. CallsAreToWatchers'
    BY <1>6 DEF ApplyPing
  <2>3. LoadedIsFresh'
    BY <1>6 DEF ApplyPing
  <2>4. TimeoutsFollow'
    BY <1>6 DEF ApplyPing
  <2>5. DeadlineCleared'
    BY <1>6 DEF ApplyPing
  <2> QED
    BY <1>0, <2>1, <2>2, <2>3, <2>4, <2>5
<1>7. ASSUME NEW h \in Handlers, ApplyData(h) PROVE HandlerInv'
  <2>1. WatchersFollowPc'
    BY <1>7 DEF ApplyData
  <2>2. CallsAreToWatchers'
    BY <1>7 DEF ApplyData
  <2>3. LoadedIsFresh'
    BY <1>7 DEF ApplyData
  <2>4. TimeoutsFollow'
    <3> SUFFICES ASSUME NEW g \in Handlers, Running(g)', NEW f \in Fields(g)'
                 PROVE  /\ timeouts'[g][f] >= watchedAt'[g]
                        /\ settings' # appliedAt'[g] =>
                             timeouts'[g][f] = settings' \/ <<g, f>> \in notifying'
      OBVIOUS
    <3>1. CASE g = h
      <4>1. settings' = appliedAt'[g]
        BY <1>7, <3>1 DEF ApplyData
      <4>2. timeouts[h].ping >= watchedAt[h] /\ loaded[h] >= watchedAt[h]
        BY <1>7 DEF ApplyData
      <4>3. timeouts'[h].ping = timeouts[h].ping /\ timeouts'[h].data = loaded[h]
        BY <1>7 DEF ApplyData
      <4> QED
        BY <1>7, <3>1, <4>1, <4>2, <4>3 DEF ApplyData
    <3>2. CASE g # h
      BY <1>7, <3>2 DEF ApplyData
    <3> QED
      BY <3>1, <3>2
  <2>5. DeadlineCleared'
    BY <1>7 DEF ApplyData
  <2> QED
    BY <1>0, <2>1, <2>2, <2>3, <2>4, <2>5
<1>8. ASSUME NEW h \in Handlers, Loop(h) PROVE HandlerInv'
  <2>1. WatchersFollowPc'
    BY <1>8 DEF Loop
  <2>2. CallsAreToWatchers'
    BY <1>8 DEF Loop
  <2>3. LoadedIsFresh'
    BY <1>8 DEF Loop
  <2>4. TimeoutsFollow'
    BY <1>8 DEF Loop
  <2>5. DeadlineCleared'
    BY <1>8 DEF Loop
  <2> QED
    BY <1>0, <2>1, <2>2, <2>3, <2>4, <2>5
<1>9. ASSUME NEW h \in Handlers, Finish(h) PROVE HandlerInv'
  BY <1>9 DEF Finish
<1>10. ASSUME NEW h \in Handlers, Accept(h) PROVE HandlerInv'
  BY <1>10 DEF Accept
<1>11. ASSUME NEW h \in Handlers, ReadHandshake(h) PROVE HandlerInv'
  BY <1>11 DEF ReadHandshake
<1>12. ASSUME NEW h \in Handlers, FailHandshake(h) PROVE HandlerInv'
  BY <1>12 DEF FailHandshake
<1>13. ASSUME NEW h \in Handlers, Message(h) PROVE HandlerInv'
  BY <1>13 DEF Message
<1>14. ASSUME NEW h \in Handlers, ReadFails(h) PROVE HandlerInv'
  BY <1>14 DEF ReadFails
<1>15. ASSUME NEW h \in Handlers, DeadlinePasses(h) PROVE HandlerInv'
  BY <1>15 DEF DeadlinePasses
<1>16. ASSUME NEW h \in Handlers, WakeReader(h) PROVE HandlerInv'
  BY <1>16 DEF WakeReader
<1>17. CASE BeginPut
  <2>1. WatchersFollowPc'
    BY <1>17 DEF BeginPut
  <2>2. CallsAreToWatchers'
    BY <1>17 DEF BeginPut
  <2>3. LoadedIsFresh'
    BY <1>17 DEF BeginPut
  <2>4. TimeoutsFollow'
    BY <1>17 DEF BeginPut
  <2>5. DeadlineCleared'
    BY <1>17 DEF BeginPut
  <2> QED
    BY <1>0, <2>1, <2>2, <2>3, <2>4, <2>5
<1>18. CASE EndPut
  <2>1. WatchersFollowPc'
    BY <1>18 DEF EndPut
  <2>2. CallsAreToWatchers'
    BY <1>18 DEF EndPut
  <2>3. LoadedIsFresh'
    BY <1>18 DEF EndPut
  <2>4. TimeoutsFollow'
    BY <1>18 DEF EndPut
  <2>5. DeadlineCleared'
    BY <1>18 DEF EndPut
  <2> QED
    BY <1>0, <2>1, <2>2, <2>3, <2>4, <2>5
<1>19. CASE Shutdown
  BY <1>19 DEF Shutdown
<1>20. ASSUME NEW h \in Handlers, NEW f \in {"ping", "data"}, CallWatcher(h, f)
      PROVE  HandlerInv'
  <2>1. WatchersFollowPc'
    BY <1>20 DEF CallWatcher
  <2>2. CallsAreToWatchers'
    BY <1>20 DEF CallWatcher
  <2>3. LoadedIsFresh'
    BY <1>20 DEF CallWatcher
  <2>4. TimeoutsFollow'
    BY <1>20 DEF CallWatcher
  <2>5. DeadlineCleared'
    BY <1>20 DEF CallWatcher
  <2> QED
    BY <1>0, <2>1, <2>2, <2>3, <2>4, <2>5
<1>21. CASE UNCHANGED hVars
  BY <1>21 DEF hVars
<1> HIDE DEF HandlerInv, HTypeOK
<1> QED
  BY <1>1, <1>2, <1>3, <1>4, <1>5, <1>6, <1>7, <1>8, <1>9, <1>10, <1>11,
     <1>12, <1>13, <1>14, <1>15, <1>16, <1>17, <1>18, <1>19, <1>20, <1>21
  DEF HNext, Proceed, Peer, Put

-----------------------------------------------------------------------------
(* The theorems. *)

\* The invariant holds in every reachable state.
THEOREM HandlerCorrect == HSpec => []HandlerInv
BY InvHoldsInitially, InvPreserved, PTL DEF HSpec

\* Reloads reach every running connection whole, in whatever order Notify, GetSettings and a
\* PutSettings interleave, and never call the watcher of a handler that has returned
\* (settings.Container, applyReadTimeouts and its deferred deregistration).
THEOREM ReloadsAlwaysReach == HSpec => []ReloadsReach
<1>1. ASSUME HandlerInv PROVE NoLateCall
  BY <1>1 DEF HandlerInv, HTypeOK, CallsAreToWatchers, WatchersFollowPc, MayWatch, NoLateCall, Fields
<1>2. ASSUME HandlerInv PROVE ReloadsReach
  BY <1>1, <1>2 DEF HandlerInv, CallsAreToWatchers, TimeoutsFollow, ReloadsReach
<1> QED
  BY <1>2, HandlerCorrect, PTL

\* The handshake deadline of a connection that was registered never cuts it off, whatever
\* the timer does between the handshake and SetReadDeadline(time.Time{}): while it runs,
\* only the shutdown's wake-up puts a deadline on it.
THEOREM DeadlineOnlyAtShutdown == HSpec => []OnlyShutdownExpires
<1>1. HandlerInv => OnlyShutdownExpires
  BY DEF HandlerInv, DeadlineCleared, OnlyShutdownExpires, Running
<1> QED
  BY <1>1, HandlerCorrect, PTL
=============================================================================
