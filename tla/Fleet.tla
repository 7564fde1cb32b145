--------------------------------- MODULE Fleet ---------------------------------
(***************************************************************************)
(* The mock connector (apps/rotom-ng-mock-connector): a fleet of devices,  *)
(* workers and controllers, each connecting again whenever its connection  *)
(* ends, until Run's context is cancelled.  The server it connects to      *)
(* checks the secret (Auth), offers the workers of connected devices to    *)
(* the controllers, and is otherwise free to ask, to answer and to close.  *)
(***************************************************************************)
EXTENDS Auth

CONSTANTS
  Devices,        \* the devices a fleet may have
  MaxPerDevice,   \* bound: workers of a device
  Controllers,    \* the controllers a fleet may have
  Fleets,         \* the configurations: [devices, perDevice, controllers]
  FleetSecret,    \* Config.DeviceSecret and Config.ControllerSecret
  Nobody,         \* no controller
  MaxDrops        \* bound: what goes wrong between the fleet and the server

VARIABLES
  fleet,        \* the configuration
  main,         \* where runFleet and Run are
  interrupted,  \* whether the context is cancelled
  member,       \* where the goroutine of each member is
  conn,         \* its connection: "none", "open", or "closed" by the other side
  expired,      \* the devices whose read deadline the context's end has passed
  reader,       \* each controller's readResponses: "none", "reading" or "failed"
  stray,        \* how many earlier ones have not ended
  holder,       \* server: the controller each worker is assigned to, if any
  asked,        \* server: the members it sent something to answer
  serverUp,     \* whether the server is up
  drops         \* how often something went wrong

memberVars == <<member, conn, expired, reader, stray>>
serverVars == <<holder, asked, serverUp, drops>>
fleetVars == <<fleet, main, interrupted, memberVars, serverVars>>

Workers == Devices \X (1..MaxPerDevice)
Members == Devices \cup Workers \cup Controllers

WorkersOf(f) == f.devices \X (1..f.perDevice)
MembersOf(f) == f.devices \cup WorkersOf(f) \cup f.controllers

ASSUME FleetAssumption ==
  /\ \A f \in Fleets : /\ f.devices \subseteq Devices
                       /\ f.perDevice \in 0..MaxPerDevice
                       /\ f.controllers \subseteq Controllers
  /\ FleetSecret \in Secrets \cup {NoSecret}
  /\ MaxDrops \in Nat

-----------------------------------------------------------------------------
(* The server, as the fleet sees it (external). *)

Admits(m) ==
  LET s == secret[IF m \in Controllers THEN "controller" ELSE "device"]
  IN  serverUp /\ (s = NoSecret \/ s = FleetSecret)

\* The first message of a device or a worker makes it known to the server.
Known(m) == member[m] = "read" /\ conn[m] = "open"

\* A worker is offered while it is connected, its device is, and nobody has it.
Free == {w \in Workers : holder[w] = Nobody /\ Known(w) /\ Known(w[1])}

\* The connections of gone have ended: the server closes the controllers of the workers
\* among them, and the workers of the controllers among them stay taken for a while.
Forget(gone) ==
  /\ asked' = asked \ gone
  /\ holder' = [w \in Workers |-> IF w \in gone THEN Nobody
                                  ELSE IF holder[w] \in gone THEN "ending" ELSE holder[w]]

ClosedWith(gone) == {c \in Controllers : \E w \in gone \cap Workers : holder[w] = c}

\* The end of the session that a controller has left: its worker is closed.
EndSession(w) ==
  /\ holder[w] = "ending"
  /\ holder' = [holder EXCEPT ![w] = Nobody]
  /\ asked' = asked \ {w}
  /\ conn' = [conn EXCEPT ![w] = "closed"]
  /\ UNCHANGED <<fleet, main, interrupted, member, expired, reader, stray, serverUp, drops>>

\* A device command, or a request of the controller a worker is assigned to.
AskDevice(d) ==
  /\ Known(d)
  /\ asked' = asked \cup {d}
  /\ UNCHANGED <<fleet, main, interrupted, memberVars, holder, serverUp, drops>>

CloseOf(gone) ==
  conn' = [m \in Members |-> IF m \in gone \cup ClosedWith(gone) /\ conn[m] = "open"
                             THEN "closed" ELSE conn[m]]

Drop(m) ==
  /\ conn[m] = "open"
  /\ drops < MaxDrops
  /\ drops' = drops + 1
  /\ Forget({m} \cup ClosedWith({m}))
  /\ CloseOf({m})
  /\ UNCHANGED <<fleet, main, interrupted, member, expired, reader, stray, serverUp>>

StopServer ==
  /\ serverUp
  /\ drops < MaxDrops
  /\ drops' = drops + 1
  /\ serverUp' = FALSE
  /\ asked' = {}
  /\ holder' = [w \in Workers |-> Nobody]
  /\ CloseOf(Members)
  /\ UNCHANGED <<fleet, main, interrupted, member, expired, reader, stray>>

StartServer ==
  /\ ~ serverUp
  /\ serverUp' = TRUE
  /\ UNCHANGED <<fleet, main, interrupted, memberVars, holder, asked, drops>>

-----------------------------------------------------------------------------
(* supervise, and what every member does. *)

Goto(m, pc) == member' = [member EXCEPT ![m] = pc]

\* The loop of supervise, at its start and after ReconnectDelay, which the context's end
\* cuts short.
Loop(m) ==
  /\ member[m] = "asleep"
  /\ Goto(m, IF interrupted THEN "done" ELSE "dial")
  /\ UNCHANGED <<conn, expired, reader, stray, serverVars>>

\* supervise, when the member's run has returned.
AfterRun == IF interrupted THEN "done" ELSE "asleep"

\* run returns: its deferred Close closes the connection.  A readResponses still reading
\* it goes on for a while.
End(m) ==
  /\ Goto(m, AfterRun)
  /\ conn' = [x \in Members |->
       IF x = m THEN "none"
       ELSE IF x \in ClosedWith({m}) /\ conn[x] = "open" THEN "closed" ELSE conn[x]]
  /\ expired' = expired \ {m}
  /\ Forget({m} \cup ClosedWith({m}))
  /\ IF m \in Controllers
     THEN /\ reader' = [reader EXCEPT ![m] = "none"]
          /\ stray' = [stray EXCEPT ![m] = @ + (IF reader[m] = "reading" THEN 1 ELSE 0)]
     ELSE UNCHANGED <<reader, stray>>
  /\ UNCHANGED <<serverUp, drops>>

\* dialWS, and the first message: init, welcome or registration.
Connect(m) ==
  /\ member[m] = "dial"
  /\ Admits(m)
  /\ Goto(m, IF m \in Controllers THEN "register" ELSE "read")
  /\ conn' = [conn EXCEPT ![m] = "open"]
  /\ UNCHANGED <<expired, reader, stray, serverVars>>

\* Refused, no server, the context is cancelled, or (a drop) dialTimeout has passed.
ConnectFails(m) ==
  /\ member[m] = "dial"
  /\ \/ /\ ~ Admits(m) \/ interrupted
        /\ UNCHANGED drops
     \/ /\ drops < MaxDrops
        /\ drops' = drops + 1
  /\ Goto(m, AfterRun)
  /\ UNCHANGED <<conn, expired, reader, stray, holder, asked, serverUp>>

\* A message is answered, unless it cannot be decoded.
Answer(m) ==
  /\ member[m] = "read"
  /\ m \in asked \ expired
  /\ asked' = asked \ {m}
  /\ UNCHANGED <<memberVars, holder, serverUp, drops>>

\* A write may fail when the connection is closed or the context cancelled, and may
\* succeed all the same: it only hands the message to the connection's writer.
WriteFails(m) ==
  /\ \/ member[m] = "read" /\ m \in asked
     \/ member[m] = "proxy"
  /\ interrupted \/ conn[m] = "closed"
  /\ End(m)

\* Reader does not observe the context, only the connection and its deadline.
ReadFails(m) ==
  /\ member[m] = "read"
  /\ conn[m] = "closed" \/ m \in expired
  /\ End(m)

\* context.AfterFunc of a device: once the context is cancelled its reads fail.
ExpireDeadline(d) ==
  /\ interrupted
  /\ member[d] = "read"
  /\ d \notin expired
  /\ expired' = expired \cup {d}
  /\ UNCHANGED <<member, conn, reader, stray, serverVars>>

-----------------------------------------------------------------------------
(* A controller. *)

\* The server answers a registration with a free worker; sendLogin, and proxyLoop begins.
Registered(c) ==
  /\ member[c] = "register"
  /\ conn[c] = "open"
  /\ \E w \in Free : /\ holder' = [holder EXCEPT ![w] = c]
                    /\ asked' = asked \cup {w}
  /\ Goto(c, "proxy")
  /\ reader' = [reader EXCEPT ![c] = "reading"]
  /\ UNCHANGED <<conn, expired, stray, serverUp, drops>>

\* There is none, or the connection has ended.
NotRegistered(c) ==
  /\ member[c] = "register"
  /\ Free = {} \/ conn[c] = "closed"
  /\ End(c)

SendRPC(c) ==
  /\ member[c] = "proxy"
  /\ asked' = asked \cup {w \in Workers : holder[w] = c}
  /\ UNCHANGED <<memberVars, holder, serverUp, drops>>

\* Wrong: the channel is not buffered.
ReadErrUnbuffered == 0

\* readErr holds one error, so that a reader nobody waits for can end.
ReadErrCapacity == 1

ReaderFails(c) ==
  /\ reader[c] = "reading"
  /\ conn[c] = "closed"
  /\ reader' = [reader EXCEPT ![c] = "failed"]
  /\ UNCHANGED <<member, conn, expired, stray, serverVars>>

StrayEnds(c) ==
  /\ stray[c] > 0
  /\ ReadErrCapacity > 0
  /\ stray' = [stray EXCEPT ![c] = @ - 1]
  /\ UNCHANGED <<member, conn, expired, reader, serverVars>>

EndLoop(c) ==
  /\ member[c] = "proxy"
  /\ interrupted \/ reader[c] = "failed"
  /\ End(c)

-----------------------------------------------------------------------------
(* runFleet and Run. *)

\* Wrong: nobody counts the workers.
ValidWithoutWorkers(f) == f.devices # {} \/ f.controllers # {}

\* Each controller claims one worker, so a fleet that brings workers must bring enough.
Valid(f) ==
  /\ f.devices # {} \/ f.controllers # {}
  /\ f.devices # {} => Cardinality(f.controllers) <= Cardinality(WorkersOf(f))

Validate ==
  /\ main = "validate"
  /\ main' = IF Valid(fleet) THEN "spawn" ELSE "refused"
  /\ UNCHANGED <<fleet, interrupted, memberVars, serverVars>>

Supervise(ms) == member' = [m \in Members |-> IF m \in ms THEN "asleep" ELSE member[m]]

StartDevices ==
  /\ main = "spawn"
  /\ main' = "delay"
  /\ Supervise(fleet.devices \cup WorkersOf(fleet))
  /\ UNCHANGED <<fleet, interrupted, conn, expired, reader, stray, serverVars>>

\* After StartupDelay, which the context's end cuts short.
StartControllers ==
  /\ main = "delay"
  /\ main' = "wait"
  /\ Supervise(fleet.controllers)
  /\ UNCHANGED <<fleet, interrupted, conn, expired, reader, stray, serverVars>>

Interrupt ==
  /\ main \in {"spawn", "delay", "wait"}
  /\ ~ interrupted
  /\ interrupted' = TRUE
  /\ UNCHANGED <<fleet, main, memberVars, serverVars>>

SeeInterrupt ==
  /\ main = "wait"
  /\ interrupted
  /\ main' = "join"
  /\ UNCHANGED <<fleet, interrupted, memberVars, serverVars>>

Return ==
  /\ main = "join"
  /\ \A m \in MembersOf(fleet) : member[m] = "done"
  /\ main' = "returned"
  /\ UNCHANGED <<fleet, interrupted, memberVars, serverVars>>

FleetInit ==
  /\ fleet \in Fleets
  /\ main = "validate"
  /\ interrupted = FALSE
  /\ member = [m \in Members |-> "off"]
  /\ conn = [m \in Members |-> "none"]
  /\ expired = {}
  /\ reader = [c \in Controllers |-> "none"]
  /\ stray = [c \in Controllers |-> 0]
  /\ holder = [w \in Workers |-> Nobody]
  /\ asked = {}
  /\ serverUp = TRUE
  /\ drops = 0

Step(m) ==
  /\ \/ Loop(m) \/ Connect(m) \/ ConnectFails(m) \/ Answer(m) \/ WriteFails(m) \/ ReadFails(m)
     \/ m \in Controllers /\ (Registered(m) \/ NotRegistered(m) \/ EndLoop(m))
  /\ UNCHANGED <<fleet, main, interrupted>>

Aside(m) ==
  /\ \/ m \in Devices /\ ExpireDeadline(m)
     \/ m \in Controllers /\ (ReaderFails(m) \/ StrayEnds(m))
  /\ UNCHANGED <<fleet, main, interrupted>>

SendsRPC(c) == SendRPC(c) /\ UNCHANGED <<fleet, main, interrupted>>

Main == Validate \/ StartDevices \/ StartControllers \/ SeeInterrupt \/ Return

Server ==
  \/ \E w \in Workers : EndSession(w)
  \/ \E d \in Devices : AskDevice(d)
  \/ \E m \in Members : Drop(m)
  \/ StopServer
  \/ StartServer

FleetNext ==
  \/ /\ \/ Main \/ Interrupt \/ Server
        \/ \E m \in Members : Step(m) \/ Aside(m)
        \/ \E c \in Controllers : SendsRPC(c)
     /\ UNCHANGED authVars
  \/ Reloads /\ UNCHANGED fleetVars

\* The goroutines go on; a dial fails only for a reason; the server answers a registration
\* and ends the sessions that were left.  The server and the operator need do nothing else.
FleetFairness ==
  /\ WF_<<fleetVars, authVars>>(Main /\ UNCHANGED authVars)
  /\ \A m \in Members :
       /\ WF_<<fleetVars, authVars>>(Step(m) /\ UNCHANGED authVars)
       /\ WF_<<fleetVars, authVars>>(Aside(m) /\ UNCHANGED authVars)
  /\ \A w \in Workers : WF_<<fleetVars, authVars>>(EndSession(w) /\ UNCHANGED authVars)

-----------------------------------------------------------------------------
(* Properties. *)

FleetTypeOK ==
  /\ main \in {"validate", "refused", "spawn", "delay", "wait", "join", "returned"}
  /\ \A m \in Members :
       /\ member[m] \in {"off", "asleep", "dial", "read", "register", "proxy", "done"}
       /\ conn[m] \in {"none", "open", "closed"}
  /\ expired \subseteq Devices
  /\ \A w \in Workers : holder[w] \in Controllers \cup {Nobody, "ending"}
  /\ asked \subseteq {m \in Members : Known(m)}
  /\ drops \in 0..MaxDrops

Returned == main = "returned"
Idles(m) == m \in Workers /\ member[m] = "read" /\ holder[m] = Nobody

\* An interrupt ends every device, every controller with its worker, wherever they are,
\* and the readers of earlier connections.  A worker without a controller goes on until
\* the server closes its connection, because Reader does not observe the context; Run
\* returns when the server goes away for good, and leaves no connection open
\* (connector.go:128, device.go:67, worker.go:60, controller.go:128).
FleetEnds ==
  /\ [](FleetTypeOK /\ (Returned => \A m \in Members : conn[m] = "none"))
  /\ interrupted ~> /\ \A m \in MembersOf(fleet) : member[m] = "done" \/ Idles(m)
                    /\ \A c \in Controllers : stray[c] = 0
  /\ <>[] ~ serverUp => (interrupted ~> Returned)

Calm == serverUp /\ ~ interrupted /\ \A m \in Members : Admits(m)

\* A fleet that brings its workers gets every controller served and keeps it so once the
\* server stays up, admits it and nobody interrupts it: controllers that came too early,
\* found their worker still taken or lost it try again (connector.go:49, connector.go:136).
ControllersServed ==
  fleet.devices # {} /\ Valid(fleet) /\ <>[]Calm =>
    <>[](\A c \in fleet.controllers : member[c] = "proxy")
================================================================================
