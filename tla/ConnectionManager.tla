-------------------------- MODULE ConnectionManager --------------------------
(***************************************************************************)
(* The connection manager (libs/connections/manager.go) on top of the      *)
(* worker selector: devices with their control connections, worker         *)
(* connections, and the controllers that are paired with workers.          *)
(*                                                                         *)
(* What runs under mgr.mu is one step, the selector calls it makes         *)
(* included.  What runs between two critical sections, the handshake of a  *)
(* controller and the goroutines that close connections, is interleaved    *)
(* with everything else.  A connection is used once: a peer that comes     *)
(* back is a new element of Conns, Workers or Controllers.                 *)
(***************************************************************************)
EXTENDS Selector

CONSTANTS
  Conns,              \* control connections
  ConnDevice,         \* the device id in a connection's init message
  NoConn,             \* a nil *DeviceConn
  Controllers,        \* controller connections
  V2Controllers,      \* those that speak version 2 of the protocol
  NoController,       \* a nil controller
  Origins,            \* origins
  ConnOrigin,         \* the origin in a connection's init message
  WorkerOrigin        \* the origin in a worker's welcome message

VARIABLES
  known,              \* mgr.allDevicesByID: device id -> mitm.Device
  workersByDeviceID,  \* mgr.workersByDeviceID: device id -> worker id -> worker
  controllers,        \* mgr.controllers
  connPhase,          \* how far each control connection got
  workerPhase,        \* how far each worker connection got
  session,            \* how far each controller got, and with which worker
  modeInfo,           \* Worker.modeInfo: the controller a worker serves
  closing,            \* connections with a goroutine about to Close them
  devicesTotal,       \* the gauge devices_total: origin -> value
  staleReleases       \* history: connections that were offered again after they left

mgrVars == <<known, workersByDeviceID, controllers, connPhase, workerPhase,
             session, modeInfo, closing, devicesTotal, staleReleases>>
allVars == <<devices, rateLimit, now, mgrVars>>

ASSUME ConnsAssumption ==
  /\ ConnDevice \in [Conns -> DeviceIDs]
  /\ NoConn \notin Conns
  /\ ConnOrigin \in [Conns -> Origins]
  /\ WorkerOrigin \in [Workers -> Origins]

\* The labels of a gauge can be summed.
ASSUME OriginsAssumption == IsFiniteSet(Origins)

\* A connection is of one kind.
ASSUME ControllersAssumption ==
  /\ V2Controllers \subseteq Controllers
  /\ NoController \notin Controllers
  /\ Conns \cap Workers = {} /\ Conns \cap Controllers = {} /\ Workers \cap Controllers = {}

\* mitm.Device; past lists the control connections whose traffic was added to
\* previousWSConnStats.
Device == [conn : Conns \cup {NoConn}, origin : Origins,
           selectionEnabled : BOOLEAN, past : Seq(Conns)]

\* The worker map holds its workers by device and id.
RegisteredWorker(c) == workersByDeviceID[DeviceOf[c]][IDOf[c]]
WorkersOf(d) == {workersByDeviceID[d][id] : id \in WorkerIDs} \ {NoWorker}
HasWorkers(d) == WorkersOf(d) # {}
IsConnected(d) == known[d].conn # NoConn

\* Wrong: does not mind that there is no connection.
AccumulateAlways(past, conn) == Append(past, conn)

\* Device.AccumulateStats
AccumulateStats(past, conn) == IF conn = NoConn THEN past ELSE Append(past, conn)

\* Wrong: does not ask which connection the device has.
IsOfKnownDevice(c) == ConnDevice[c] \in DOMAIN known

\* What Device.CompareAndSwapConn(c, nil) tells.  A close handler holds on to the
\* Device it registered with; a Device is deleted only while its conn is nil and
\* gets no conn afterwards, so looking it up by id tells the same.
IsCurrentConn(c) == ConnDevice[c] \in DOMAIN known /\ known[ConnDevice[c]].conn = c

-----------------------------------------------------------------------------
(* Control connections. *)

\* mitm.NewDevice
NewMITMDevice(origin) == [conn |-> NoConn, origin |-> origin, selectionEnabled |-> TRUE, past |-> <<>>]

\* addNewDevice, unless the device is known: what the manager knows with device d, and
\* the gauge devices_total.
WithDevice(d, origin) ==
  IF d \in DOMAIN known THEN known ELSE MapPut(known, d, NewMITMDevice(origin))
TotalsWithDevice(d, origin) ==
  IF d \in DOMAIN known THEN devicesTotal ELSE [devicesTotal EXCEPT ![origin] = @ + 1]

\* A connection registers, and replaces the one its device had.
RegisterDeviceConnection(c) ==
  LET d      == ConnDevice[c]
      devs   == WithDevice(d, ConnOrigin[c])
      device == devs[d]
  IN  /\ connPhase[c] = "new"
      /\ connPhase' = [connPhase EXCEPT ![c] = "open"]
      /\ known' = [devs EXCEPT ![d].conn = c,
                               ![d].origin = ConnOrigin[c],
                               ![d].past = AccumulateStats(@, device.conn)]
      /\ devicesTotal' = TotalsWithDevice(d, ConnOrigin[c])
      /\ devices' = IF device.conn = NoConn /\ device.selectionEnabled
                    THEN AfterEnableDevice(devices, d) ELSE devices
      /\ closing' = closing \cup ({device.conn} \ {NoConn})
      /\ UNCHANGED <<rateLimit, now, workersByDeviceID, controllers, workerPhase,
                     session, modeInfo, staleReleases>>

\* DeviceConn.Close, the first time: the peer left, timed out, was replaced or
\* disconnected.
CloseDeviceConn(c) ==
  LET d == ConnDevice[c]
  IN  /\ connPhase[c] = "open"
      /\ connPhase' = [connPhase EXCEPT ![c] = "closed"]
      /\ known' = IF IsCurrentConn(c)
                  THEN [known EXCEPT ![d].conn = NoConn, ![d].past = AccumulateStats(@, c)]
                  ELSE known
      /\ devices' = IF IsCurrentConn(c) /\ known[d].selectionEnabled
                    THEN AfterDisableDevice(devices, d) ELSE devices
      /\ closing' = closing \ {c}
      /\ UNCHANGED <<rateLimit, now, workersByDeviceID, controllers, workerPhase,
                     session, modeInfo, devicesTotal, staleReleases>>

-----------------------------------------------------------------------------
(* Worker connections. *)

\* A worker registers, and replaces the one that has its id.
RegisterWorker(c) ==
  LET d     == DeviceOf[c]
      isNew == d \notin DOMAIN known
  IN  /\ workerPhase[c] = "new"
      /\ workerPhase' = [workerPhase EXCEPT ![c] = "open"]
      /\ known' = WithDevice(d, WorkerOrigin[c])
      /\ devicesTotal' = TotalsWithDevice(d, WorkerOrigin[c])
      /\ devices' = AfterSetWorkerAvailable(
                      IF isNew THEN AfterDisableDevice(devices, d) ELSE devices, c)
      /\ workersByDeviceID' = [workersByDeviceID EXCEPT ![d][IDOf[c]] = c]
      /\ closing' = closing \cup ({RegisteredWorker(c)} \ {NoWorker})
      /\ UNCHANGED <<rateLimit, now, controllers, connPhase, session, modeInfo, staleReleases>>

\* The close handler of a worker.
DeregisterWorker(c) ==
  /\ workerPhase' = [workerPhase EXCEPT ![c] = "closed"]
  /\ devices' = AfterSetWorkerUnavailable(devices, c, now)
  /\ workersByDeviceID' = IF RegisteredWorker(c) = c
                          THEN [workersByDeviceID EXCEPT ![DeviceOf[c]][IDOf[c]] = NoWorker]
                          ELSE workersByDeviceID

\* Worker.Close: the close handler the first time, and the controller each time.
CloseWorker(c) ==
  /\ workerPhase[c] = "open"
  /\ DeregisterWorker(c)
  /\ closing' = (closing \ {c}) \cup ({modeInfo[c]} \ {NoController})
  /\ UNCHANGED <<rateLimit, now, known, controllers, connPhase, session, modeInfo,
                 devicesTotal, staleReleases>>

-----------------------------------------------------------------------------
(* Controllers. *)

\* The selection holds mgr.mu, and the rest of the handshake does not.
getAvailableWorker(requested, d) ==
  /\ SelectWorker(requested, d)
  /\ UNCHANGED <<known, workersByDeviceID, controllers, connPhase, workerPhase,
                 modeInfo, closing, devicesTotal, staleReleases>>

\* Version 1 after the login request, version 2 after the registration request.
ClaimWorker(k, requested, d) ==
  /\ session[k].phase = "new"
  /\ getAvailableWorker(requested, d)
  /\ session' = [session EXCEPT ![k] = [phase |-> "claimed", worker |-> ClaimedWorker(devices, d)]]

\* No worker is available, and the connection is closed.
RefuseController(k) ==
  /\ session[k].phase = "new"
  /\ RefuseWorker
  /\ session' = [session EXCEPT ![k].phase = "done"]
  /\ UNCHANGED <<known, workersByDeviceID, controllers, connPhase, workerPhase,
                 modeInfo, closing, devicesTotal, staleReleases>>

\* The handshake of version 2 fails after the claim: the response cannot be
\* written or no login request is read.  Without mgr.mu.
ReleaseClaim(k) ==
  LET c == session[k].worker
  IN  /\ k \in V2Controllers
      /\ session[k].phase = "claimed"
      /\ devices' = AfterSetWorkerAvailable(devices, c)
      /\ session' = [session EXCEPT ![k].phase = "done"]
      /\ staleReleases' = IF RegisteredWorker(c) = c THEN staleReleases
                          ELSE staleReleases \cup {c}
      /\ UNCHANGED <<rateLimit, now, known, workersByDeviceID, controllers, connPhase,
                     workerPhase, modeInfo, closing, devicesTotal>>

RegisterController(k) ==
  /\ session[k].phase = "claimed"
  /\ session' = [session EXCEPT ![k].phase = "registered"]
  /\ controllers' = controllers \cup {k}
  /\ UNCHANGED <<devices, rateLimit, now, known, workersByDeviceID, connPhase,
                 workerPhase, modeInfo, closing, devicesTotal, staleReleases>>

\* Controller.Run enters the proxy loop.
ProxyController(k) ==
  /\ session[k].phase = "registered"
  /\ session' = [session EXCEPT ![k].phase = "proxying"]
  /\ modeInfo' = [modeInfo EXCEPT ![session[k].worker] = k]
  /\ UNCHANGED <<devices, rateLimit, now, known, workersByDeviceID, controllers,
                 connPhase, workerPhase, closing, devicesTotal, staleReleases>>

\* The proxy loop ends, and Controller.Run closes its worker on the way out.
EndRun(k) ==
  LET c == session[k].worker
  IN  /\ session[k].phase = "proxying"
      /\ session' = [session EXCEPT ![k].phase = "done"]
      /\ IF workerPhase[c] = "open"
         THEN DeregisterWorker(c)
         ELSE UNCHANGED <<devices, workersByDeviceID, workerPhase>>
      /\ closing' = (closing \ {c}) \cup {modeInfo[c], k}
      /\ UNCHANGED <<rateLimit, now, known, controllers, connPhase, modeInfo, devicesTotal,
                     staleReleases>>

\* Controller.Close, the first time.
CloseController(k) ==
  /\ k \in closing
  /\ k \in controllers
  /\ controllers' = controllers \ {k}
  /\ closing' = closing \ {k}
  /\ UNCHANGED <<devices, rateLimit, now, known, workersByDeviceID, connPhase,
                 workerPhase, session, modeInfo, devicesTotal, staleReleases>>

-----------------------------------------------------------------------------
(* What the operator asks for through the API. *)

ApiEnableDevice(d) ==
  /\ d \in DOMAIN known
  /\ ~ known[d].selectionEnabled
  /\ known' = [known EXCEPT ![d].selectionEnabled = TRUE]
  /\ devices' = AfterEnableDevice(devices, d)
  /\ UNCHANGED <<rateLimit, now, workersByDeviceID, controllers, connPhase, workerPhase,
                 session, modeInfo, closing, devicesTotal, staleReleases>>

ApiDisableDevice(d) ==
  /\ d \in DOMAIN known
  /\ known[d].selectionEnabled
  /\ known' = [known EXCEPT ![d].selectionEnabled = FALSE]
  /\ devices' = AfterDisableDevice(devices, d)
  /\ UNCHANGED <<rateLimit, now, workersByDeviceID, controllers, connPhase, workerPhase,
                 session, modeInfo, closing, devicesTotal, staleReleases>>

\* The goroutine closes the workers one by one and the control connection last;
\* here it may close them in any order.
DisconnectDevice(d) ==
  /\ d \in DOMAIN known
  /\ IsConnected(d)
  /\ closing' = closing \cup WorkersOf(d) \cup {known[d].conn}
  /\ UNCHANGED <<devices, rateLimit, now, known, workersByDeviceID, controllers,
                 connPhase, workerPhase, session, modeInfo, devicesTotal, staleReleases>>

\* DisconnectController and ReconnectController differ in the close code.
DisconnectController(k) ==
  /\ k \in controllers
  /\ closing' = closing \cup {k}
  /\ UNCHANGED <<devices, rateLimit, now, known, workersByDeviceID, controllers,
                 connPhase, workerPhase, session, modeInfo, devicesTotal, staleReleases>>

\* RemoveDeadDevice for each of a set of devices.
AfterRemoveDeadDevices(devs, S) ==
  [d \in DOMAIN devs \ {e \in S \cap DOMAIN devs : ~ HasAssigned(devs[e])} |-> devs[d]]

\* The worker maps that go with the devices are empty.
Delete(S) ==
  /\ known' = [d \in DOMAIN known \ S |-> known[d]]
  /\ devices' = AfterRemoveDeadDevices(devices, S)
  /\ devicesTotal' = [o \in Origins |->
                        devicesTotal[o] - Cardinality({d \in S : known[d].origin = o})]
  /\ UNCHANGED <<rateLimit, now, workersByDeviceID, controllers, connPhase, workerPhase,
                 session, modeInfo, closing, staleReleases>>

Unconnected == {d \in DOMAIN known : ~ HasWorkers(d) /\ ~ IsConnected(d)}

DeleteUnconnectedDevices == Delete(Unconnected)

DeleteUnconnectedDeviceID(d) == d \in Unconnected /\ Delete({d})

-----------------------------------------------------------------------------
(* The specification. *)

MgrInit ==
  /\ Init
  /\ known = [d \in {} |-> NoConn]
  /\ workersByDeviceID = [d \in DeviceIDs |-> [id \in WorkerIDs |-> NoWorker]]
  /\ controllers = {}
  /\ connPhase = [c \in Conns |-> "new"]
  /\ workerPhase = [c \in Workers |-> "new"]
  /\ session = [k \in Controllers |-> [phase |-> "new", worker |-> NoWorker]]
  /\ modeInfo = [c \in Workers |-> NoController]
  /\ closing = {}
  /\ devicesTotal = [o \in Origins |-> 0]
  /\ staleReleases = {}

Connections ==
  \/ \E c \in Conns : RegisterDeviceConnection(c) \/ CloseDeviceConn(c)
  \/ \E c \in Workers : RegisterWorker(c) \/ CloseWorker(c)

Sessions ==
  \E k \in Controllers :
    \/ \E requested \in RequestedWeights, d \in DeviceIDs : ClaimWorker(k, requested, d)
    \/ RefuseController(k)
    \/ ReleaseClaim(k)
    \/ RegisterController(k)
    \/ ProxyController(k)
    \/ EndRun(k)
    \/ CloseController(k)

Operator ==
  \/ \E d \in DeviceIDs :
       \/ ApiEnableDevice(d)
       \/ ApiDisableDevice(d)
       \/ DisconnectDevice(d)
       \/ DeleteUnconnectedDeviceID(d)
  \/ \E k \in Controllers : DisconnectController(k)
  \/ DeleteUnconnectedDevices

pruneSelectorWorkerIDs == PruneWorkerIDsSeen /\ UNCHANGED mgrVars

\* The pruning on its ticker, and the passing of time.
Maintenance == pruneSelectorWorkerIDs \/ (Tick /\ UNCHANGED mgrVars)

MgrNext == Connections \/ Sessions \/ Operator \/ Maintenance

MgrSpec == MgrInit /\ [][MgrNext]_allVars

-----------------------------------------------------------------------------
(* Properties. *)

\* The manager's variables have the types of the Go fields, and so have the
\* selector's.
MgrTypeOK ==
  /\ TypeOK
  /\ DOMAIN known \subseteq DeviceIDs
  /\ \A d \in DOMAIN known : known[d] \in Device
  /\ workersByDeviceID \in [DeviceIDs -> [WorkerIDs -> Workers \cup {NoWorker}]]
  /\ controllers \subseteq Controllers
  /\ connPhase \in [Conns -> {"new", "open", "closed"}]
  /\ workerPhase \in [Workers -> {"new", "open", "closed"}]
  /\ session \in [Controllers -> [phase : {"new", "claimed", "registered", "proxying", "done"},
                                  worker : Workers \cup {NoWorker}]]
  /\ modeInfo \in [Workers -> Controllers \cup {NoController}]
  /\ closing \subseteq Conns \cup Workers \cup Controllers
  /\ devicesTotal \in [Origins -> Int]
  /\ staleReleases \subseteq Workers

\* The controllers that go on to use, or are using, a worker connection.
Holds(k, c) ==
  session[k].worker = c /\ session[k].phase \in {"claimed", "registered", "proxying"}

\* No worker connection ever serves two controllers, whatever handshakes fail
\* and whichever connections replace each other meanwhile: their traffic would
\* be mixed up on one websocket.
OneControllerPerWorker ==
  \A j, k \in Controllers : \A c \in Workers : Holds(j, c) /\ Holds(k, c) => j = k

\* The types hold; and a worker connection that is up is the one the manager has under
\* its id, or is about to be closed; the same holds of a control connection and its
\* device.
NoOrphans ==
  /\ MgrTypeOK
  /\ \A c \in Workers :
       workerPhase[c] = "open" => RegisteredWorker(c) = c \/ c \in closing
  /\ \A c \in Conns :
       connPhase[c] = "open" =>
         c \in closing \/ (ConnDevice[c] \in DOMAIN known /\ known[ConnDevice[c]].conn = c)
  /\ \A d \in DeviceIDs :
       HasWorkers(d) => d \in DOMAIN known /\ \A c \in WorkersOf(d) : workerPhase[c] = "open"
  /\ \A d \in DOMAIN known : IsConnected(d) => connPhase[known[d].conn] = "open"

\* A device the operator has disabled stays out of selection until the operator
\* enables it again: reconnects, replacements and failed handshakes do not
\* bring it back.
DisabledByOperator ==
  \A d \in DOMAIN known :
    ~ known[d].selectionEnabled => d \in DOMAIN devices /\ ~ devices[d].selectionEnabled

\* Statistics count everything once.  The traffic of a control connection is added
\* to its device's total once, and not while the connection is the current one,
\* whose traffic is added on top; and however devices are created, by a control
\* connection or by a worker, and deleted, one by one or together, the gauge
\* devices_total counts each of them once.
CountedOnce ==
  /\ \A d \in DOMAIN known :
       /\ IsInjective(known[d].past)
       /\ known[d].conn \notin Range(known[d].past)
  /\ MapThenSumSet(LAMBDA o : devicesTotal[o], Origins) = Cardinality(DOMAIN known)

\* The slots and devices of which no connection was offered again after it left.
CleanSlot(c) ==
  \A b \in staleReleases : DeviceOf[b] # DeviceOf[c] \/ IDOf[b] # IDOf[c]
CleanDevice(d) == \A c \in staleReleases : DeviceOf[c] # d

\* The selector offers or has assigned exactly the worker connections that the
\* manager has registered, so none is lost and none is offered after it left; and
\* what is assigned some controller holds.  The exception is a slot whose worker
\* had left when a handshake failed (GoneIsNotOffered).  And what the operator disabled
\* the selector does not select.
SelectorAgrees ==
  /\ DisabledByOperator
  /\ \A c \in Workers : CleanSlot(c) =>
       LET lease == LeaseIn(devices, DeviceOf[c], IDOf[c])
       IN  /\ RegisteredWorker(c) = c <=> lease.worker = c /\ lease.state \in {"free", "leased"}
           /\ lease.worker = c /\ lease.state = "leased" => \E k \in Controllers : Holds(k, c)

Selectable(d) == d \in DOMAIN devices /\ devices[d].selectionEnabled
Reachable(d) == d \in DOMAIN known /\ IsConnected(d)

\* Only the operator makes a device selectable that has workers and no control
\* connection: no order of worker and control connections coming and going does.
OnlyOperatorEnablesUnreachable ==
  [][\A d \in DeviceIDs :
       /\ Selectable(d)' /\ ~ Reachable(d)'
       /\ ~ (Selectable(d) /\ ~ Reachable(d))
       => ApiEnableDevice(d) \/ ~ CleanDevice(d)']_allVars

\* SetWorkerUnavailable: "different worker connection means we'll have already
\* removed from device": a connection that has left is neither queued nor assigned.
GoneIsNotOffered ==
  \A c \in Workers :
    LET lease == LeaseIn(devices, DeviceOf[c], IDOf[c])
    IN  workerPhase[c] = "closed" => ~ (lease.worker = c /\ lease.state \in {"free", "leased"})
=============================================================================
