-------------------------------- MODULE Session --------------------------------
(***************************************************************************)
(* One worker connection and the controller that claimed it: the goroutine *)
(* that passes the controller's requests to the worker (ProxyController in *)
(* libs/mitm/worker.go, under Controller.Run), the one that passes the     *)
(* worker's answers back (Worker.Run), and everything that can close       *)
(* either of the two connections while they run.                           *)
(*                                                                         *)
(* ConnectionManager has both goroutines and Worker.Close as single steps; *)
(* here each step is what runs without another goroutine seeing it.  All   *)
(* messages decode.                                                        *)
(***************************************************************************)
EXTENDS StatsRing, FiniteSets

CONSTANTS
  MaxRequests,      \* bound: requests of the controller, the login included
  MaxUnsolicited,   \* bound: messages of the worker that answer no request
  MaxTime           \* bound: the clock

VARIABLES
  open,             \* the websockets that are open
  registered,       \* whether the manager has the worker, whose Close has not begun
  listed,           \* whether the controller is in mgr.controllers
  modeInfo,         \* whether Worker.modeInfo has the controller
  tracker,          \* Worker.requestTracker: "none", "live", or "done" after Done
  requests,         \* the requests it holds
  pc,               \* where each goroutine is
  current,          \* the request ProxyController has in hand
  answer,           \* the answer Worker.Run has in hand
  background,       \* whether a goroutine is about to close the controller
  inUse,            \* the gauge workers_in_use
  dropped,          \* the counter worker_dropped_responses_total
  requestStats,     \* Worker.requestStats
  now,              \* the clock when it was last read
  sent,             \* history: the requests the worker was sent
  answered,         \* history: those it answered
  unsolicited,      \* history: its other messages
  late,             \* history: answers that count as dropped
  ended,            \* history: when each counted answer came
  missed            \* history: whether the close by Worker.Run's handler found none

connVars == <<open, registered, listed, background, missed>>
proxyVars == <<modeInfo, tracker, requests, current, inUse, sent>>
statsVars == <<dropped, requestStats, late, ended>>
workerVars == <<answer, answered, unsolicited>>
sVars == <<connVars, proxyVars, statsVars, workerVars, pc, now>>

ASSUME SessionAssumption ==
  /\ MaxRequests \in Nat \ {0}
  /\ MaxUnsolicited \in Nat
  /\ MaxTime \in Nat

Requests == 1..MaxRequests
Login == 1
Unsolicited == 0     \* an id no request has
Goroutines == {"proxy", "runner", "closer"}

Go(g, to) == pc' = [pc EXCEPT ![g] = to]

\* Controller.Close: the close handler takes it out of the map.
CloseController == listed' = FALSE /\ open' = open \ {"controller"}

-----------------------------------------------------------------------------
(* Controller.Run and ProxyController. *)

RegisterController ==
  /\ pc["proxy"] = "register"
  /\ listed' = TRUE
  /\ Go("proxy", "track")
  /\ UNCHANGED <<open, registered, background, missed, proxyVars, statsVars, workerVars, now>>

\* With disable_worker_stats there is no tracker.
StoreTracker ==
  /\ pc["proxy"] = "track"
  /\ tracker' \in {"none", "live"}
  /\ Go("proxy", "store")
  /\ UNCHANGED <<connVars, modeInfo, requests, current, inUse, sent, statsVars, workerVars, now>>

StoreModeInfo ==
  /\ pc["proxy"] = "store"
  /\ modeInfo' = TRUE
  /\ inUse' = inUse + 1
  /\ current' = Login
  /\ Go("proxy", "add")
  /\ UNCHANGED <<connVars, tracker, requests, sent, statsVars, workerVars, now>>

\* Wrong: leaves out the login, which Controller.Run has in hand already.
AddButLogin(r) == IF tracker = "live" /\ r # Login THEN requests \cup {r} ELSE requests

\* RequestTracker.Add
Add(r) == IF tracker = "live" THEN requests \cup {r} ELSE requests

\* RequestTracker.Get finds a request and removes it.
Found(r) == tracker = "live" /\ r \in requests

AddRequest ==
  /\ pc["proxy"] = "add"
  /\ requests' = Add(current)
  /\ Go("proxy", "write")
  /\ UNCHANGED <<connVars, modeInfo, tracker, current, inUse, sent, statsVars, workerVars, now>>

\* WriteAsync, WriteAsyncFromReader.  Depending on the error that tells of the closed
\* websocket, ProxyController closes the controller at once.
WriteRequest ==
  /\ pc["proxy"] = "write"
  /\ IF "worker" \in open
     THEN sent' = sent \cup {current} /\ Go("proxy", "read") /\ UNCHANGED <<listed, open>>
     ELSE /\ UNCHANGED sent
          /\ CloseController \/ UNCHANGED <<listed, open>>
          /\ Go("proxy", "release")
  /\ UNCHANGED <<registered, background, missed, modeInfo, tracker, requests, current, inUse,
                 statsVars, workerVars, now>>

ReadRequest ==
  /\ pc["proxy"] = "read"
  /\ "controller" \in open
  /\ current < MaxRequests
  /\ current' = current + 1
  /\ Go("proxy", "add")
  /\ UNCHANGED <<connVars, modeInfo, tracker, requests, inUse, sent, statsVars, workerVars, now>>

ReadRequestFails ==
  /\ pc["proxy"] = "read"
  /\ "controller" \notin open
  /\ Go("proxy", "release")
  /\ UNCHANGED <<connVars, proxyVars, statsVars, workerVars, now>>

\* The deferred calls of ProxyController: DecrWorkersInUse and RequestTracker.Done.
Release ==
  /\ pc["proxy"] = "release"
  /\ inUse' = inUse - 1
  /\ tracker' = IF tracker = "none" THEN "none" ELSE "done"
  /\ requests' = {}
  /\ Go("proxy", "once")
  /\ UNCHANGED <<connVars, modeInfo, current, sent, statsVars, workerVars, now>>

-----------------------------------------------------------------------------
(* Closing. *)

\* Worker.Close begins with the manager's close handler, the first time.
CloseOnce(g) ==
  /\ pc[g] = "once"
  /\ registered' = FALSE
  /\ background' = (background \/ (registered /\ modeInfo))
  /\ Go(g, "controller")
  /\ UNCHANGED <<open, listed, missed, proxyVars, statsVars, workerVars, now>>

\* Wrong: leaves the controller to the close handler, which runs once.
LeaveController(g) ==
  /\ pc[g] = "controller"
  /\ UNCHANGED <<listed, open>>
  /\ missed' = (missed \/ (g = "runner" /\ ~ modeInfo))
  /\ Go(g, "socket")
  /\ UNCHANGED <<registered, background, proxyVars, statsVars, workerVars, now>>

\* Each time it closes the controller it finds.
CloseItsController(g) ==
  /\ pc[g] = "controller"
  /\ IF modeInfo THEN CloseController ELSE UNCHANGED <<listed, open>>
  /\ missed' = (missed \/ (g = "runner" /\ ~ modeInfo))
  /\ Go(g, "socket")
  /\ UNCHANGED <<registered, background, proxyVars, statsVars, workerVars, now>>

CloseSocket(g) ==
  /\ pc[g] = "socket"
  /\ open' = open \ {"worker"}
  /\ Go(g, IF g = "proxy" THEN "close" ELSE "returned")
  /\ UNCHANGED <<registered, listed, background, missed, proxyVars, statsVars, workerVars, now>>

CloseWorker(g) == CloseOnce(g) \/ CloseItsController(g) \/ CloseSocket(g)

\* The controller's handler closes it when Controller.Run has returned.
HandlerCloses ==
  /\ pc["proxy"] = "close"
  /\ CloseController
  /\ Go("proxy", "returned")
  /\ UNCHANGED <<registered, background, missed, proxyVars, statsVars, workerVars, now>>

CloseInBackground ==
  /\ background
  /\ background' = FALSE
  /\ CloseController
  /\ UNCHANGED <<registered, missed, proxyVars, statsVars, workerVars, pc, now>>

\* Another worker takes its id, or the operator disconnects the device.
DisconnectWorker ==
  /\ pc["closer"] = "idle"
  /\ registered
  /\ Go("closer", "once")
  /\ UNCHANGED <<connVars, proxyVars, statsVars, workerVars, now>>

\* The operator disconnects the controller.
DisconnectController ==
  /\ listed
  /\ background' = TRUE
  /\ UNCHANGED <<open, registered, listed, missed, proxyVars, statsVars, workerVars, pc, now>>

\* A peer leaves, or its connection times out.
ConnectionFails(side) ==
  /\ side \in open
  /\ open' = open \ {side}
  /\ UNCHANGED <<registered, listed, background, missed, proxyVars, statsVars, workerVars, pc, now>>

-----------------------------------------------------------------------------
(* Worker.Run *)

\* The worker answers any request it has, once, or sends something else.
WorkerSends(r) ==
  IF r = Unsolicited
  THEN unsolicited < MaxUnsolicited /\ unsolicited' = unsolicited + 1 /\ UNCHANGED answered
  ELSE r \in sent \ answered /\ answered' = answered \cup {r} /\ UNCHANGED unsolicited

\* A message that finds no controller ends the worker connection.
ReadAnswer(r) ==
  /\ pc["runner"] = "read"
  /\ "worker" \in open
  /\ WorkerSends(r)
  /\ answer' = r
  /\ Go("runner", IF modeInfo THEN "process" ELSE "once")
  /\ UNCHANGED <<connVars, proxyVars, statsVars, now>>

ReadAnswerFails ==
  /\ pc["runner"] = "read"
  /\ "worker" \notin open
  /\ Go("runner", "once")
  /\ UNCHANGED <<connVars, proxyVars, statsVars, workerVars, now>>

\* processResponseAndUpdateStats
ProcessResponse ==
  /\ pc["runner"] = "process"
  /\ IF tracker = "none"
     THEN UNCHANGED <<requests, statsVars, now>>
     ELSE IF Found(answer)
     THEN /\ requests' = requests \ {answer}
          /\ now' \in now..MaxTime
          /\ requestStats' = AfterAdd(requestStats, now')
          /\ ended' = Append(ended, now')
          /\ UNCHANGED <<dropped, late>>
     ELSE /\ dropped' = dropped + 1
          /\ late' = IF answer = Unsolicited \/ tracker = "done" THEN late + 1 ELSE late
          /\ UNCHANGED <<requests, requestStats, ended, now>>
  /\ Go("runner", "forward")
  /\ UNCHANGED <<connVars, modeInfo, tracker, current, inUse, sent, workerVars>>

ForwardAnswer ==
  /\ pc["runner"] = "forward"
  /\ Go("runner", IF "controller" \in open THEN "read" ELSE "once")
  /\ UNCHANGED <<connVars, proxyVars, statsVars, workerVars, now>>

-----------------------------------------------------------------------------
(* The specification. *)

SInit ==
  /\ open = {"worker", "controller"}
  /\ registered = TRUE
  /\ listed = FALSE
  /\ modeInfo = FALSE
  /\ tracker = "none"
  /\ requests = {}
  /\ pc = [proxy |-> "register", runner |-> "read", closer |-> "idle"]
  /\ current = Login
  /\ answer = Unsolicited
  /\ background = FALSE
  /\ inUse = 0
  /\ dropped = 0
  /\ requestStats = NewRing
  /\ now = 0
  /\ sent = {}
  /\ answered = {}
  /\ unsolicited = 0
  /\ late = 0
  /\ ended = <<>>
  /\ missed = FALSE

Proxy ==
  \/ RegisterController \/ StoreTracker \/ StoreModeInfo
  \/ AddRequest \/ WriteRequest \/ ReadRequestFails
  \/ Release \/ CloseWorker("proxy") \/ HandlerCloses

Runner == ReadAnswerFails \/ ProcessResponse \/ ForwardAnswer \/ CloseWorker("runner")

SNext ==
  \/ Proxy \/ ReadRequest
  \/ Runner \/ \E r \in Requests \cup {Unsolicited} : ReadAnswer(r)
  \/ CloseWorker("closer") \/ CloseInBackground
  \/ DisconnectWorker \/ DisconnectController
  \/ \E side \in {"worker", "controller"} : ConnectionFails(side)

SSpec == SInit /\ [][SNext]_sVars

\* Goroutines run.  No peer ever has to send anything, and no timeout to come: the
\* data timeout can be turned off.
FairSSpec ==
  /\ SSpec
  /\ WF_sVars(Proxy)
  /\ WF_sVars(Runner)
  /\ WF_sVars(CloseWorker("closer"))
  /\ WF_sVars(CloseInBackground)

-----------------------------------------------------------------------------
(* Properties. *)

\* The types of the fields, with what a Close leaves behind: nobody's worker is
\* counted as in use, or held by the manager, after its goroutines returned.
STypeOK ==
  /\ open \subseteq {"worker", "controller"}
  /\ {registered, listed, modeInfo, background, missed} \subseteq BOOLEAN
  /\ tracker \in {"none", "live", "done"} /\ requests \subseteq Requests
  /\ current \in Requests /\ sent \subseteq Requests /\ answered \subseteq sent
  /\ inUse \in {0, 1}
  /\ pc["proxy"] = "returned" =>
       inUse = 0 /\ ~ registered /\ ~ listed /\ tracker # "live"

\* Requests and responses match.  A response is dropped only if the worker was not
\* asked, or the controller's goroutine had already given up; all others are
\* counted, and a worker that only answers is never disconnected for speaking out
\* of turn.
ResponsesAccounted ==
  /\ STypeOK
  /\ dropped = late
  /\ ~ modeInfo => answered = {}
  /\ \A r \in requests \cap answered : answer = r /\ pc["runner"] = "process"

\* What the API tells of a window at a time t is exact, the responses that came
\* since the oldest of its buckets began, however seldom the ring was used and
\* whether or not somebody else asked in between.
WindowExact ==
  \A s \in now..MaxTime : \A t \in s..MaxTime : \A n \in 0..NumBuckets :
    WindowSum(Advance(requestStats, s), t, n) =
      Cardinality({i \in DOMAIN ended :
                     ended[i] \div BucketDuration + n > t \div BucketDuration})

\* The last Close of the worker came between the two: it saw no controller, and
\* ProxyController then wrote its login before the socket was closed.
Orphaned == missed /\ Login \in sent

\* Teardown reaches everyone.  When the worker's connection closes, its controller
\* is closed and both goroutines return, unless they were orphaned; when the
\* controller's closes, the worker's does.
SessionEndsTogether ==
  /\ "worker" \notin open ~>
       Orphaned \/ (open = {} /\ ~ listed /\ inUse = 0
                    /\ pc["proxy"] = "returned" /\ pc["runner"] = "returned")
  /\ listed /\ "controller" \notin open ~> ~ registered /\ open = {}
=============================================================================
