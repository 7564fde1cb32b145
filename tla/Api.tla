---------------------------------- MODULE Api ----------------------------------
(***************************************************************************)
(* The HTTP API (libs/handlers/api_handler.go): requests that look a       *)
(* device up in the connection manager and run a command on the control    *)
(* connection they find, and requests that run a job there.                *)
(*                                                                         *)
(* There is one device; the other ids a request can name are not known.    *)
(* DeviceConn has executeCommand in detail; here it is what its caller     *)
(* sees, and the wrappers around it (RestartApp, GetLogcat, RunJob ...)    *)
(* with the counters they keep.                                            *)
(***************************************************************************)
EXTENDS Jobs

CONSTANTS
  Requests,       \* API requests
  MaxConns,       \* bound: control connections of the device
  MaxAsks         \* bound: device ids in a request to run a job

VARIABLES
  known,          \* whether the device is in mgr.allDevicesByID
  conn,           \* its control connection, NoConn if it has none
  connected,      \* how many connections it has had
  starting,       \* the connections whose Run does not execute commands yet
  canRunCommands, \* those whose Run does
  closing,        \* those an operator's goroutine is about to close
  request,        \* where each request is, what it asks for and its HTTP status
  call,           \* the commands requests and jobs execute
  executed,       \* the counter device_commands_total
  errors,         \* the counter device_command_errors_total
  successes       \* the counter device_command_success_total

deviceVars == <<known, conn, connected, starting, canRunCommands, closing>>
commandVars == <<call, executed, errors, successes>>
aVars == <<jVars, deviceVars, request, commandVars>>

ASSUME ApiAssumption ==
  /\ IsFiniteSet(Requests)
  /\ MaxConns \in Nat /\ MaxAsks \in Nat
  /\ MaxInstances = Cardinality(Requests) * MaxAsks
  /\ Requests \cap (1..MaxInstances) = {}    \* a request is not an instance (Callers)

NoConn == 0
NoJob == "none"

ASSUME NoJobAssumption == NoJob \notin JobIDs

Conns == 1..MaxConns
Callers == Requests \cup IDs    \* a job's goroutine has the id of its instance

-----------------------------------------------------------------------------
(* Which answer a request gets. *)

\* getDeviceConnForCommand
DeviceError ==
  IF ~ known THEN "notKnown"
  ELSE IF conn = NoConn THEN "notConnected"
  ELSE IF conn \notin canRunCommands THEN "commandsUnavailable"
  ELSE "none"

\* DeleteUnconnectedDeviceID, of a device that has no workers.
DeleteError ==
  IF ~ known THEN "notKnown" ELSE IF conn # NoConn THEN "isConnected" ELSE "none"

DisconnectError == IF ~ known THEN "notKnown" ELSE IF conn = NoConn THEN "notConnected" ELSE "none"

\* handleDeviceError
StatusOf(error) ==
  IF error = "none" THEN 200
  ELSE IF error = "notKnown" THEN 404
  ELSE IF error \in {"notConnected", "isConnected"} THEN 400
  ELSE 500

Answer(r, status) ==
  request' = [request EXCEPT ![r] = [@ EXCEPT !.pc = "answered", !.status = status]]

Arrives(r) == request[r].pc = "new"

AnswerFound(r, found) ==
  /\ Arrives(r)
  /\ Answer(r, IF found THEN 200 ELSE 404)
  /\ UNCHANGED <<jVars, deviceVars, commandVars>>

-----------------------------------------------------------------------------
(* Commands. *)

\* DeviceConn.RestartApp, Reboot, GetLogcat or RunJob is called.
CallOn(x, c) ==
  call' = [call EXCEPT ![x] = [pc |-> "called", conn |-> c, reply |-> "none"]]

Return(x, pc, reply) ==
  call' = [call EXCEPT ![x] = [pc |-> pc, conn |-> NoConn, reply |-> reply]]

\* A wrapper looks at canRunCommands again, without mgr.mu.
CheckCommands(x) ==
  /\ call[x].pc = "called"
  /\ IF call[x].conn \in canRunCommands
     THEN call' = [call EXCEPT ![x].pc = "executing"] /\ executed' = executed + 1
     ELSE Return(x, "failed", "none") /\ UNCHANGED executed
  /\ UNCHANGED <<jVars, deviceVars, request, errors, successes>>

\* Replies: "ok", one with another status or no use, and an "undecodable" logcat,
\* in a reply that is fine otherwise.
Replies(x) ==
  {"ok", "refused"} \cup
  (IF x \in Requests /\ request[x].pc = "logcat" THEN {"undecodable"} ELSE {})

\* Wrong: does not look at the status of the reply.
CommandRepliesAlways(x) ==
  /\ call[x].pc = "executing"
  /\ call[x].conn \in canRunCommands
  /\ \E reply \in Replies(x) : Return(x, "succeeded", reply)
  /\ successes' = successes + 1
  /\ UNCHANGED <<jVars, deviceVars, request, executed, errors>>

\* Run reads the reply.  GetLogcat counts its success before it decodes.
CommandReplies(x) ==
  /\ call[x].pc = "executing"
  /\ call[x].conn \in canRunCommands
  /\ \E reply \in Replies(x) :
       /\ Return(x, IF reply = "ok" THEN "succeeded" ELSE "failed", reply)
       /\ IF reply = "refused"
          THEN errors' = errors + 1 /\ UNCHANGED successes
          ELSE successes' = successes + 1 /\ UNCHANGED errors
  /\ UNCHANGED <<jVars, deviceVars, request, executed>>

\* Wrong: waits for a reply as long as the connection is up.
CommandFailsWithConn(x) ==
  /\ call[x].pc = "executing"
  /\ call[x].conn \notin canRunCommands
  /\ Return(x, "failed", "none")
  /\ errors' = errors + 1
  /\ UNCHANGED <<jVars, deviceVars, request, executed, successes>>

\* executeCommand fails: the write does, its time is over, or its context ends.
CommandFails(x) ==
  /\ call[x].pc = "executing"
  /\ Return(x, "failed", "none")
  /\ errors' = errors + 1
  /\ UNCHANGED <<jVars, deviceVars, request, executed, successes>>

-----------------------------------------------------------------------------
(* Requests about the device. *)

\* restartDevice and rebootDevice, or getLogcat.
DeviceCommand(r, kind) ==
  /\ Arrives(r)
  /\ IF DeviceError = "none"
     THEN request' = [request EXCEPT ![r].pc = kind] /\ CallOn(r, conn)
     ELSE Answer(r, StatusOf(DeviceError)) /\ UNCHANGED call
  /\ UNCHANGED <<jVars, deviceVars, executed, errors, successes>>

AnswerCommand(r) ==
  /\ request[r].pc \in {"command", "logcat"}
  /\ call[r].pc \in {"succeeded", "failed"}
  /\ Answer(r, IF call[r].pc = "succeeded" THEN 200 ELSE 500)
  /\ UNCHANGED <<jVars, deviceVars, commandVars>>

DeleteDevice(r) ==
  /\ Arrives(r)
  /\ Answer(r, StatusOf(DeleteError))
  /\ known' = (known /\ DeleteError # "none")
  /\ UNCHANGED <<jVars, conn, connected, starting, canRunCommands, closing, commandVars>>

\* enableDevice and disableDevice; the switch itself is in ConnectionManager.
SwitchDevice(r) == AnswerFound(r, known)

\* The connection there is is closed in the background, after the workers.
DisconnectDevice(r) ==
  /\ Arrives(r)
  /\ Answer(r, StatusOf(DisconnectError))
  /\ closing' = closing \cup (IF DisconnectError = "none" THEN {conn} ELSE {})
  /\ UNCHANGED <<jVars, known, conn, connected, starting, canRunCommands, commandVars>>

\* "_" is all devices, which only a delete takes: DeleteUnconnectedDevices.
AllDevices(r, action) ==
  /\ Arrives(r)
  /\ Answer(r, IF action = "delete" THEN 200 ELSE 400)
  /\ known' = (known /\ ~ (action = "delete" /\ conn = NoConn))
  /\ UNCHANGED <<jVars, conn, connected, starting, canRunCommands, closing, commandVars>>

\* Of a controller, which is closed in the background if it is there (ConnectionManager,
\* Session); an action that does not exist is not found either.
ControllerAction(r) == \E found \in BOOLEAN : AnswerFound(r, found)

-----------------------------------------------------------------------------
(* Requests about jobs.  A reload of the configuration can enable and disable *)
(* jobs at any time; the answer is 404 while they are disabled.               *)

\* APIHandler.RunJob looks the job up once for all devices.
RunJobRequest(r, job, asks) ==
  /\ Arrives(r)
  /\ \E jobsEnabled \in BOOLEAN :
       IF jobsEnabled /\ job \in jobsByID
       THEN request' = [request EXCEPT ![r] = [@ EXCEPT !.pc = "asking", !.job = job,
                                                        !.asks = asks]]
       ELSE Answer(r, 404)
  /\ UNCHANGED <<jVars, deviceVars, commandVars>>

\* ConnectionManager.RunJob for the next id in the request: of this device, or of
\* one that is not known.
AskDevice(r, id) ==
  /\ request[r].pc = "asking"
  /\ request[r].asks > 0
  /\ IF id = "device" /\ DeviceError = "none"
     THEN /\ request' = [request EXCEPT ![r] = [@ EXCEPT !.pc = "starting", !.conn = conn]]
          /\ UNCHANGED jVars
     ELSE /\ request' = [request EXCEPT ![r].asks = @ - 1]
          /\ AddFailedJobInstance
  /\ UNCHANGED <<deviceVars, commandVars>>

StartJob(r) ==
  /\ request[r].pc = "starting"
  /\ RunJob(request[r].job)
  /\ request' = [request EXCEPT ![r] = [@ EXCEPT !.pc = "asking",
                                                 !.asks = request[r].asks - 1,
                                                 !.conn = NoConn]]
  /\ IF NextID \in goroutines' THEN CallOn(NextID, request[r].conn) ELSE UNCHANGED call
  /\ UNCHANGED <<deviceVars, executed, errors, successes>>

AnswerRunJob(r) ==
  /\ request[r].pc = "asking"
  /\ request[r].asks = 0
  /\ Answer(r, 200)
  /\ UNCHANGED <<jVars, deviceVars, commandVars>>

CompleteJob(id) ==
  /\ call[id].pc \in {"succeeded", "failed"}
  /\ Complete(id, call[id].pc)
  /\ UNCHANGED <<deviceVars, request, commandVars>>

GetJob(r, job) ==
  \E jobsEnabled \in BOOLEAN : AnswerFound(r, jobsEnabled /\ job \in jobsByID)

GetJobInstance(r, id) ==
  \E jobsEnabled \in BOOLEAN : AnswerFound(r, jobsEnabled /\ id \in Listed)

\* ReloadJobs and ClearJobInstance, by others.
ManageJobs ==
  /\ Reload \/ ClearJobInstances \/ \E id \in IDs : ClearJobInstance(id)
  /\ UNCHANGED <<deviceVars, request, commandVars>>

-----------------------------------------------------------------------------
(* Requests that look. *)

\* GetStatus and the lists are always answered, GetDevice if there is one.
GetDevice(r) == AnswerFound(r, known)

\* The profiles of net/http/pprof: a reload can enable and disable them.
Profile(r) == \E profilingEnabled \in BOOLEAN : AnswerFound(r, profilingEnabled)

-----------------------------------------------------------------------------
(* The device. *)

\* It connects, which makes it known; Run does not execute commands yet.
Connect ==
  /\ connected < MaxConns
  /\ known' = TRUE
  /\ connected' = connected + 1
  /\ conn' = connected'
  /\ starting' = starting \cup {conn'}
  /\ UNCHANGED <<jVars, canRunCommands, closing, request, commandVars>>

AllowCommands(c) ==
  /\ c \in starting
  /\ starting' = starting \ {c}
  /\ canRunCommands' = canRunCommands \cup {c}
  /\ UNCHANGED <<jVars, known, conn, connected, closing, request, commandVars>>

\* Run returns.
RefuseCommands(c) ==
  /\ c \in canRunCommands
  /\ canRunCommands' = canRunCommands \ {c}
  /\ UNCHANGED <<jVars, known, conn, connected, starting, closing, request, commandVars>>

\* DeviceConn.Close after Run.
CloseConn ==
  /\ conn # NoConn
  /\ conn' = NoConn
  /\ UNCHANGED <<jVars, known, connected, starting, canRunCommands, closing, request, commandVars>>

\* The goroutine of DisconnectDevice: the device may have a newer connection by now, which
\* stays.
CloseInBackground(c) ==
  /\ c \in closing
  /\ closing' = closing \ {c}
  /\ conn' = IF conn = c THEN NoConn ELSE conn
  /\ UNCHANGED <<jVars, known, connected, starting, canRunCommands, request, commandVars>>

-----------------------------------------------------------------------------
(* The specification. *)

AInit ==
  /\ JInit
  /\ known = FALSE
  /\ conn = NoConn
  /\ connected = 0
  /\ starting = {}
  /\ canRunCommands = {}
  /\ closing = {}
  /\ request = [r \in Requests |-> [pc |-> "new", job |-> NoJob, asks |-> 0,
                                    conn |-> NoConn, status |-> 0]]
  /\ call = [x \in Callers |-> [pc |-> "idle", conn |-> NoConn, reply |-> "none"]]
  /\ executed = 0
  /\ errors = 0
  /\ successes = 0

Proceed(r) ==
  \/ AnswerCommand(r)
  \/ \E id \in {"device", "unknown"} : AskDevice(r, id)
  \/ StartJob(r)
  \/ AnswerRunJob(r)

ANext ==
  \/ \E r \in Requests :
       \/ \E kind \in {"command", "logcat"} : DeviceCommand(r, kind)
       \/ DeleteDevice(r) \/ DisconnectDevice(r) \/ SwitchDevice(r)
       \/ \E action \in {"delete", "other"} : AllDevices(r, action)
       \/ ControllerAction(r) \/ GetDevice(r) \/ Profile(r)
       \/ \E job \in JobIDs : GetJob(r, job)
       \/ \E id \in IDs : GetJobInstance(r, id)
       \/ \E job \in JobIDs, asks \in 1..MaxAsks : RunJobRequest(r, job, asks)
       \/ Proceed(r)
  \/ \E x \in Callers : CheckCommands(x) \/ CommandReplies(x) \/ CommandFails(x)
  \/ \E id \in IDs : CompleteJob(id)
  \/ ManageJobs
  \/ Connect
  \/ \E c \in Conns : AllowCommands(c) \/ RefuseCommands(c) \/ CloseInBackground(c)
  \/ CloseConn

ASpec == AInit /\ [][ANext]_aVars

\* Goroutines run, and a command's time is over some day.  Nothing is assumed of
\* the device.
FairASpec ==
  /\ ASpec
  /\ \A r \in Requests : WF_aVars(Proceed(r))
  /\ \A x \in Callers : WF_aVars(CheckCommands(x)) /\ WF_aVars(CommandFails(x))
  /\ \A id \in IDs : WF_aVars(CompleteJob(id))
  /\ \A c \in Conns : WF_aVars(CloseInBackground(c))

-----------------------------------------------------------------------------
(* Properties. *)

\* The types of the fields; an instance with a goroutine has a command under way.
ATypeOK ==
  /\ known \in BOOLEAN
  /\ connected \in 0..MaxConns /\ conn \in 0..connected
  /\ {starting, canRunCommands, closing} \subseteq SUBSET (1..connected)
  /\ request \in [Requests -> [pc : {"new", "command", "logcat", "asking", "starting", "answered"},
                               job : JobIDs \cup {NoJob}, asks : 0..MaxAsks,
                               conn : 0..connected, status : {0, 200, 400, 404, 500}]]
  /\ call \in [Callers -> [pc : {"idle", "called", "executing", "succeeded", "failed"},
                           conn : 0..connected,
                           reply : {"none", "ok", "refused", "undecodable"}]]
  /\ \A id \in goroutines : call[id].pc # "idle"

CallsWith(pcs) == Cardinality({x \in Callers : call[x].pc \in pcs})

\* Nobody is told what did not happen.  A job is listed as succeeded, and a device
\* command answered with 200, only if the device said so, on the connection it was
\* sent on, whatever connections were replaced meanwhile; and the three counters
\* add up, but for a logcat that cannot be decoded.  What is listed as started runs.
OutcomesTrue ==
  /\ ATypeOK
  /\ StartedWhileRunning
  /\ \A id \in Listed :
       /\ jobInstancesByID[id] = "succeeded" => call[id].reply = "ok"
       /\ jobInstancesByID[id] = "failed" => call[id].reply # "ok"
  /\ \A r \in Requests :
       request[r].pc = "answered" /\ call[r].pc # "idle" =>
         (request[r].status = 200 <=> call[r].reply = "ok")
  /\ executed = errors + successes + CallsWith({"executing"})
  /\ successes = Cardinality({x \in Callers : call[x].reply \in {"ok", "undecodable"}})

\* Every request is answered and every job ends, also when the device never
\* replies and its connection stays; and the connection an operator asked to end ends.
RequestsEnd ==
  /\ \A r \in Requests : request[r].pc # "new" ~> request[r].pc = "answered"
  /\ \A id \in IDs : id \in goroutines ~> id \notin goroutines
  /\ \A c \in Conns : c \in closing ~> conn # c
=============================================================================
