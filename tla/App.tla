---------------------------------- MODULE App ----------------------------------
(***************************************************************************)
(* The life of the program (apps/rotom-ng/app/app.go, libs/services):      *)
(* three HTTP servers, the websocket handlers and API requests they run,   *)
(* the goroutines these start, reloads, and the shutdown that waits for    *)
(* all of them.  What a connection, a job or a request does is the subject *)
(* of other modules; here they begin and end.                              *)
(***************************************************************************)
EXTENDS Reload

CONSTANTS
  Conns,          \* websocket connections
  Kinds,          \* the kinds of handlers they may get
  MaxBackground   \* bound: goroutines of the connection manager, and jobs, at a time

VARIABLES
  main,        \* where main is, in App.Init or App.Run
  signalled,   \* whether SIGTERM or an interrupt is pending
  ctxDone,     \* whether the application's context is cancelled
  goroutines,  \* those App.Run started and has in its WaitGroup
  shutDown,    \* whether the servers' Shutdown was called
  expired,     \* whether the context of the Shutdown calls is over
  cut,         \* history: whether a Shutdown ran out of time
  waited,      \* how many of its waits the shutdown has behind it
  handler,     \* each websocket connection: its kind, and where its handler is
  request,     \* each API request
  closers,     \* goroutines in the connection manager's WaitGroup
  jobs         \* goroutines in the jobs manager's WaitGroup

lifeVars == <<main, signalled, ctxDone, goroutines, shutDown, expired, cut, waited>>
workVars == <<handler, request, closers, jobs>>
appVars == <<rVars, lifeVars, workVars>>

ASSUME AppAssumption ==
  /\ Kinds \subseteq {"device", "worker", "controller"}
  /\ MaxBackground \in Nat

Servers == {"device", "controller", "http"}

Exited == main \in {"failed", "complete", "timedOut"}

-----------------------------------------------------------------------------
(* Websocket connections and API requests. *)

\* Requests come in until Shutdown closes the listener and the idle connections.
Arrive(x, kind) ==
  /\ Event
  /\ handler[x].pc = "idle"
  /\ ~ shutDown
  /\ handler' = [handler EXCEPT ![x] = [kind |-> kind, pc |-> "arrived"]]
  /\ UNCHANGED <<request, closers, jobs>>

\* The handler begins with PreventShutdown, unless the middleware refuses the request.
Track(x) ==
  /\ handler[x].pc = "arrived"
  /\ \E next \in {"tracked", "done"} : handler' = [handler EXCEPT ![x].pc = next]
  /\ UNCHANGED <<request, closers, jobs>>

\* ws.Accept takes the connection from the server, or fails.
Upgrade(x) ==
  /\ handler[x].pc = "tracked"
  /\ \E next \in {"running", "done"} : handler' = [handler EXCEPT ![x].pc = next]
  /\ UNCHANGED <<request, closers, jobs>>

EndHandler(x) ==
  /\ handler[x].pc = "running"
  /\ handler' = [handler EXCEPT ![x].pc = "done"]
  /\ UNCHANGED <<request, closers, jobs>>

\* RunInBackground of the connection manager: a handler whose connection replaces
\* another, or a goroutine that closes a worker with a controller.
StartCloser ==
  /\ closers > 0 \/ \E x \in Conns : handler[x].pc = "running"
  /\ closers < MaxBackground
  /\ closers' = closers + 1
  /\ UNCHANGED <<handler, request, jobs>>

EndCloser ==
  /\ closers > 0
  /\ closers' = closers - 1
  /\ UNCHANGED <<handler, request, jobs>>

EndJob ==
  /\ jobs > 0
  /\ jobs' = jobs - 1
  /\ UNCHANGED <<handler, request, closers>>

ArriveRequest(r) ==
  /\ Event
  /\ request[r] = "idle"
  /\ ~ shutDown
  /\ request' = [request EXCEPT ![r] = "handling"]
  /\ UNCHANGED <<handler, closers, jobs>>

\* Any request that changes nothing here, one that was refused, and one that runs a
\* job or disconnects a peer, whose goroutine is started before the answer.
Answer(r) ==
  /\ request[r] = "handling"
  /\ reloader[r].pc \in {"idle", "answered"}
  /\ request' = [request EXCEPT ![r] = "answered"]
  /\ \/ UNCHANGED <<closers, jobs>>
     \/ closers < MaxBackground /\ closers' = closers + 1 /\ UNCHANGED jobs
     \/ jobs < MaxBackground /\ jobs' = jobs + 1 /\ UNCHANGED closers
  /\ UNCHANGED handler

Work ==
  /\ \/ \E x \in Conns : Track(x) \/ Upgrade(x) \/ EndHandler(x)
     \/ StartCloser
     \/ EndCloser
     \/ EndJob
     \/ \E r \in Requests : Answer(r)
  /\ UNCHANGED <<rVars, lifeVars>>

Arrivals ==
  /\ main # "starting"
  /\ \/ \E x \in Conns, kind \in Kinds : Arrive(x, kind)
     \/ \E r \in Requests : ArriveRequest(r)
  /\ UNCHANGED <<file, applied, reloadChan, reloader, asked, overlapped, lifeVars>>

-----------------------------------------------------------------------------
(* Reloads. *)

\* The goroutine looks at the signal and at the context; with both it takes either.
HangupReload ==
  /\ "reload" \in goroutines
  /\ ReloadOnHangup
  /\ UNCHANGED <<lifeVars, workVars>>

RequestReload(r) ==
  /\ request[r] = "handling"
  /\ ReloadOnRequest(r)
  /\ UNCHANGED <<lifeVars, workVars>>

ProceedReload(r) ==
  /\ Apply(r) \/ Succeed(r)
  /\ UNCHANGED <<lifeVars, workVars>>

\* Nothing is edited and no signal sent any more once the program is shutting down;
\* one that is pending then may still be seen.
Operator ==
  /\ main = "serving"
  /\ EditFile \/ SendHangup
  /\ UNCHANGED <<lifeVars, workVars>>

-----------------------------------------------------------------------------
(* Init *)

\* Every part accepts its settings and the servers have what they need, and Run starts
\* its goroutines.
StartUp ==
  /\ main = "starting"
  /\ MakeParts
  /\ main' = "serving"
  /\ goroutines' = Servers \cup {"reload", "periodic"}
  /\ UNCHANGED <<signalled, ctxDone, shutDown, expired, cut, waited, workVars>>

\* A part refuses its settings, there is no user interface where the flags say, or a
\* server cannot be set up; main exits without Run.
FailToStart ==
  /\ main = "starting"
  /\ main' = "failed"
  /\ UNCHANGED <<signalled, ctxDone, goroutines, shutDown, expired, cut, waited, rVars, workVars>>

-----------------------------------------------------------------------------
(* Run *)

\* A second one, and one during the shutdown, changes nothing.
Terminate ==
  /\ Event
  /\ main = "serving"
  /\ ~ signalled
  /\ signalled' = TRUE
  /\ UNCHANGED <<main, ctxDone, goroutines, shutDown, expired, cut, waited>>

\* Serve fails, or Shutdown was called.
ServeReturns == IF shutDown THEN UNCHANGED events ELSE Event

\* Wrong: a server that fails is logged.
ServerReturnsQuietly(s) ==
  /\ s \in goroutines
  /\ ServeReturns
  /\ goroutines' = goroutines \ {s}
  /\ UNCHANGED <<main, signalled, ctxDone, shutDown, expired, cut, waited>>

\* A server's Run returns when Serve does: when it fails, and at once when Shutdown
\* is called.  The deferred cancel ends the application either way.
ServerReturns(s) ==
  /\ s \in goroutines
  /\ ServeReturns
  /\ goroutines' = goroutines \ {s}
  /\ ctxDone' = TRUE
  /\ UNCHANGED <<main, signalled, shutDown, expired, cut, waited>>

\* The reload goroutine and RunPeriodicTasks see the context.
TaskReturns(task) ==
  /\ task \in goroutines \cap {"reload", "periodic"}
  /\ ctxDone
  /\ task = "reload" => reloader[Hangup].pc = "idle"
  /\ goroutines' = goroutines \ {task}
  /\ UNCHANGED <<main, signalled, ctxDone, shutDown, expired, cut, waited>>

\* Run stops waiting for a signal or the context.
BeginShutdown ==
  /\ main = "serving"
  /\ signalled \/ ctxDone
  /\ main' = "shuttingDown"
  /\ ctxDone' = TRUE
  /\ UNCHANGED <<signalled, goroutines, shutDown, expired, cut, waited>>

-----------------------------------------------------------------------------
(* shutdown *)

\* What the servers' Shutdown waits for; a connection that was taken from its server
\* is not its concern any more.
Active == {x \in Conns : handler[x].pc \in {"arrived", "tracked"}}
          \cup {r \in Requests : request[r] = "handling"}

\* All servers are shut down at once; nothing waits for one of them alone.
CallShutdown ==
  /\ main = "shuttingDown"
  /\ ~ shutDown
  /\ shutDown' = TRUE
  /\ UNCHANGED <<main, signalled, ctxDone, goroutines, expired, cut, waited>>

Tracked(kind) == {x \in Conns : handler[x].pc \in {"tracked", "running"} /\ handler[x].kind = kind}

\* Wrong: waits for the handlers while the servers still take connections.
WaitsHandlersFirst == <<"device", "worker", "controller", "servers", "goroutines", "closers",
                        "jobs">>

\* The waits, in their order.
Waits == <<"servers", "device", "worker", "controller", "goroutines", "closers", "jobs">>

IsOver(wait) ==
  CASE wait = "servers" -> shutDown /\ (Active = {} \/ expired)
    [] wait = "goroutines" -> goroutines = {}
    [] wait = "closers" -> closers = 0
    [] wait = "jobs" -> jobs = 0
    [] OTHER -> Tracked(wait) = {}

PassWait ==
  /\ main = "shuttingDown"
  /\ waited < Len(Waits)
  /\ IsOver(Waits[waited + 1])
  /\ waited' = waited + 1
  /\ cut' = (cut \/ (Waits[waited + 1] = "servers" /\ Active # {}))
  /\ UNCHANGED <<main, signalled, ctxDone, goroutines, shutDown, expired>>

\* timeoutCtx is over, which only the calls of Shutdown see.
Expire ==
  /\ main = "shuttingDown"
  /\ waited = 0
  /\ ~ expired
  /\ expired' = TRUE
  /\ UNCHANGED <<main, signalled, ctxDone, goroutines, shutDown, cut, waited>>

Complete ==
  /\ main = "shuttingDown"
  /\ waited = Len(Waits)
  /\ main' = "complete"
  /\ UNCHANGED <<signalled, ctxDone, goroutines, shutDown, expired, cut, waited>>

\* time.After in the select of shutdown
GiveUp ==
  /\ main = "shuttingDown"
  /\ main' = "timedOut"
  /\ UNCHANGED <<signalled, ctxDone, goroutines, shutDown, expired, cut, waited>>

Endings ==
  /\ Terminate \/ \E s \in Servers : ServerReturns(s)
  /\ UNCHANGED <<file, applied, reloadChan, reloader, asked, overlapped, workVars>>

Life ==
  /\ \/ BeginShutdown
     \/ CallShutdown
     \/ \E task \in {"reload", "periodic"} : TaskReturns(task)
     \/ PassWait
     \/ Expire
     \/ Complete
     \/ GiveUp
  /\ UNCHANGED <<rVars, workVars>>

-----------------------------------------------------------------------------
(* The specification. *)

AppInit ==
  /\ RInit
  /\ main = "starting"
  /\ signalled = FALSE
  /\ ctxDone = FALSE
  /\ goroutines = {}
  /\ shutDown = FALSE
  /\ expired = FALSE
  /\ cut = FALSE
  /\ waited = 0
  /\ handler = [x \in Conns |-> [kind |-> "none", pc |-> "idle"]]
  /\ request = [r \in Requests |-> "idle"]
  /\ closers = 0
  /\ jobs = 0

\* The program is over when Run returns.
AppNext ==
  /\ ~ Exited
  /\ \/ StartUp
     \/ FailToStart
     \/ Work
     \/ Arrivals
     \/ Life
     \/ Endings
     \/ Operator
     \/ HangupReload
     \/ \E r \in Requests : RequestReload(r)
     \/ \E r \in Reloaders : ProceedReload(r)

AppSpec == AppInit /\ [][AppNext]_appVars

\* Goroutines run and timers fire.  Nothing is assumed of peers, requests and jobs.
FairAppSpec ==
  /\ AppSpec
  /\ WF_appVars(BeginShutdown /\ UNCHANGED <<rVars, workVars>>)
  /\ WF_appVars(GiveUp /\ UNCHANGED <<rVars, workVars>>)
  /\ WF_appVars(~ Exited /\ HangupReload)
  /\ \A r \in Reloaders : WF_appVars(~ Exited /\ ProceedReload(r))

-----------------------------------------------------------------------------
(* Properties. *)

\* A shutdown that completes leaves nothing behind: no handler, request, reload, job
\* or goroutine still runs, whatever came in or was started while it was waiting.
\* The exception is a server whose Shutdown ran out of time.
ShutdownComplete ==
  main = "complete" /\ ~ cut =>
    /\ goroutines = {}
    /\ AtRest
    /\ \A x \in Conns : handler[x].pc \in {"idle", "done"}
    /\ \A r \in Requests : request[r] # "handling"
    /\ closers = 0 /\ jobs = 0

\* Run returns after a signal, and when any of the servers fails, also when a
\* handler, a request or a job never ends.
RunReturns ==
  signalled \/ (main # "starting" /\ ~ Servers \subseteq goroutines) ~> Exited

\* A signal takes effect even if it comes during a reload or finds one pending:
\* unless the file is edited again or the program is shut down, every part gets the
\* settings of any file that can be loaded.  Reloads that overlap may undo each other.
HangupTakesEffect ==
  asked /\ file \in Loadable ~> ~ asked \/ overlapped \/ ctxDone \/ AllHave(file)
=============================================================================
