# RotomNG: TLA+ specifications

RotomNG is a connection manager. *Devices* (phones) keep a control connection
and a number of *worker* connections open to it; *controllers* connect, are each
paired with one worker, and from then on the program forwards messages between
the two until either side leaves. This directory holds TLA+ models of the parts
of the program where order and concurrency matter, the configurations under
which TLC checks them, and theorems that the TLA+ proof system checks.

Every definition that models code is listed in `PROJECT.json` under `map` with
the lines it stands for.

## The system

| Component | Source | State | Operations | Hard parts |
|---|---|---|---|---|
| Worker selector | `libs/selector` | per device: queue of available workers, workers seen, load counters, enabled flag, selection history | worker available / unavailable, enable / disable, remove dead device, prune, get an available worker, reload | counters kept by hand; late disconnects; pruning live workers; rate-limit window under reload; score |
| Connection manager | `libs/connections/manager.go`, `libs/mitm/device.go` | devices, workers by device, controllers | register device / worker / controller, their close handlers, API operations, deletion, periodic prune | critical sections separated by network I/O; connections that replace each other; close handlers that come late |
| Proxy session | `libs/mitm/worker.go`, `libs/controller`, `libs/tracking` | `modeInfo`, the request tracker, once-guards of the close handlers | proxy, run, close | mutual teardown of worker and controller; answers against the requests they answer |
| Statistics | `libs/stats`, `libs/tracking` | rings of counters, open requests | add, advance, sum | wrap-around; windows of different lengths |
| Device control connection | `libs/mitm/deviceconn.go` | pending commands, monitor | execute command, process reply, run, monitor | reply against timeout, restart of the monitor on reload |
| WebSocket connection | `libs/ws` | write queue, closed flag, read error, ping settings | write (waiting or not), flush, close, read, timeout loop | write results against cancellation, wake-ups of the timeout loop |
| Handlers | `libs/handlers`, `apps/rotom-ng/app/handlers` | read deadline of a connection, settings watcher | accept, handshake, apply timeouts, run, shut down | reload or shutdown during the handshake |
| Settings containers | `libs/settings` | current value, watchers | put, get, notify | value against notification |
| Jobs | `libs/jobs` | job instances | run, complete, clear, reload | clearing what is still running |
| HTTP API | `libs/handlers/api_handler.go` | commands under way, command counters | device and controller actions, jobs, queries | a connection that is looked up and then replaced; commands that end in several ways |
| Configuration | `apps/rotom-ng/app/config`, `libs/logging/config.go` | the file | load, defaults, validate, settings of each part | settings each part validates by its own rules |
| Application | `apps/rotom-ng/app/app.go`, `libs/services` | parts, servers, goroutines | init, run, reload, shutdown | two reloads at once; what starts while the shutdown waits; bounded shutdown |
| Authentication | `libs/auth` | secret of each listener, session lifetime | check a request, log in, log out, reload | secrets that change between two loads of one request |
| Mock connector | `apps/rotom-ng-mock-connector` | a fleet of devices, workers and controllers | connect, serve, connect again, end | retries in any order; an interrupt anywhere |
| Metrics exporter, log formatting, conversion to JSON, UI, generated code | `app/stats/prom.go`, `libs/logging/handler.go`, `libs/api`, `libs/rotom_ui`, `libs/protos` | | | see *Not modelled* |

How they interact: an HTTP server accepts a websocket and runs a *handler*
goroutine for it. The handler performs the handshake through the connection
manager, which registers the connection and sets a close handler on it; the
handler then runs the connection until it ends, and closes it. The manager
calls the selector under `mgr.mu`; the selector has a lock of its own. Close
handlers take `mgr.mu` again, and whatever has to close *another* connection is
sent to a goroutine (`runInBackground`), so that no close handler runs with the
lock held. The API handlers call the manager directly. Reloads go through
settings containers, whose watchers run in the reloading goroutine.

What makes each modelled part correct:

* *Selector*: the counters agree with the assignments; a worker is queued, assigned
  or away, and never two of these; a worker is handed out only while its
  connection holds its slot; the rate limit holds in every window; the
  choice follows load and freshness.
* *Manager*: a worker serves one controller; a connection that is up is either
  registered or being closed; what the operator disabled stays disabled; the
  selector and the manager agree.
* *Session*: what ends on one side ends on the other; an answer counts as dropped only
  if nobody asked for it; the statistics of a window are exact.
* *Handlers*: a connection runs under the newest settings; a handshake is bounded
  and its bound does not outlive it; a shutdown ends every handler.
* *Control connection*: a command returns the device's reply or an error, no
  channel is used after it was closed, and the connection's end is not held up.
* *WebSocket connection*: what is written is written in order, what `Flush`
  reports is true, buffers have one owner, closing ends everything; a dead peer
  is noticed in time and a healthy one never taken for dead.
* *API and jobs*: nobody is told what did not happen; every request is answered, every
  instance is completed, and its outcome stays.
* *Application*: all parts get the same configuration or none does; a signal takes effect;
  a shutdown that completes leaves nothing running, and one always ends.
* *Authentication*: an answer is right for some secret there was during the request; a
  cookie lives as long as its token.
* *Mock connector*: its controllers get served and stay so; an interrupt ends the fleet.

## Modules

| Module | Models | Runs |
|---|---|---|
| `WorkerLease` | what the selector promises: slots that are free, leased, away or unknown | refined by `Selector` |
| `Selector` | `libs/selector`, every operation one atomic step (they run under `selector.mu`) | `selector` |
| `SelectorAudit` | `Selector` plus the real history of selections and announcements | `selector` |
| `SelectorProofs` | theorems about `Selector` and `SelectorAudit` | |
| `ConnectionManager` | the manager's critical sections on top of the selector's operators, and the goroutines in between | `manager`, `manager_stale_release` |
| `ConnectionManagerProofs` | theorems about `ConnectionManager`, on top of `SelectorProofs`, and about `Handler` | |
| `StatsRing` | the ring of buckets, as functions of a ring and a time | `session` |
| `Session` | one worker and its controller: both forwarding goroutines, the request tracker, everything that closes either | `session` |
| `SessionProofs` | theorems about `Session` and `StatsRing` | |
| `Sums` | lemmas about sums over finite sets, for the two above | |
| `Handler` | a connection's handler goroutine, the settings container it watches, the shutdown | `handler`, `handler_lost_wakeup` |
| `DeviceConn` | commands and replies on a control connection, `Run`, the monitor | `device_conn` |
| `DeviceConnProofs` | theorems about `DeviceConn` | |
| `WsConn` | the write side of a websocket connection: queue, background writer, flush, close | `ws_conn` |
| `WsTimeout` | its `timeoutLoop`: pings and read timeouts | `ws_timeout` |
| `WsProofs` | theorems about `WsConn` and `WsTimeout` | |
| `Jobs` | the job manager's operations | `api` |
| `Api` | the HTTP API on top of `Jobs`: requests, commands, job goroutines | `api` |
| `Config` | the configuration file: defaults, validation, the settings of each part | `app` |
| `Reload` | making the parts, and reloading them, by signal and by request | `app` |
| `App` | the life of the program on top of `Reload`: start, servers, handlers, requests, shutdown | `app` |
| `AppProofs` | theorems about `Config`, `Reload` and `App` | |
| `Auth` | the middleware, logins and logouts, under reloads | `fleet` |
| `Fleet` | the mock connector, connecting to a server that checks secrets as `Auth` does | `fleet` |
| `ApiProofs` | theorems about `Auth` and `Api` | |
| `MC*` | small instances for TLC | |

Every module has one type invariant (`TypeOK`, `MgrTypeOK`, `STypeOK`, ...), which is the first
conjunct of an invariant that the module's run checks.

### Selector

A device is a record with the fields of the Go struct `selectableDevice`;
`devices` is the Go map. Each operation is an operator on the map
(`AfterSetWorkerAvailable`, `AfterClaim`, ...), and an action applies it. The
manager's module uses the same operators, so that what it does under `mgr.mu`,
selector calls included, is one step. `weightUsed`, `workersInUse` and
`currentWeight` are kept exactly as `claimWorkerFromDevice` and
`removeWorkerFromDevice` keep them. Of `GetAvailableWorker`: the clamp, the
candidates, the rate-limit check *with its side effect* (asking prunes the
history, also of devices that are not chosen and when nothing is), the score
and the claim. The score is a quotient of floating point numbers; factors
shared by all candidates are dropped and the comparison is multiplied out,
which is exact in the integers. The first lowest score wins in the random order
of a Go map, so `BestDevices` is a set and the choice nondeterministic. The
queue's worker and the slot's worker are the same Go pointer; here the queue holds
worker ids. Time is a tick counter; `time.Time{}` is 0 and the clock starts
at 1. The selector stamps a disconnect and prunes with `time.Now()`, and selects
with `getCurrentTime`, which the program leaves at `time.Now`.

`RateLimits` are settings `Validate` accepts, since `PutSettings` validates first.

### WorkerLease

The selector's contract without queues, counters and scores. The refinement
mapping (`SlotState`) reads the state of a slot off a record: assigned weight
positive is *leased*, otherwise a zero `lastUnavailable` is *free*, otherwise
*away*.

### ConnectionManager

| Variable | Code |
|---|---|
| `known` | `mgr.allDevicesByID` with `mitm.Device`; `past` lists the connections added to `previousWSConnStats` |
| `workersByDeviceID`, `controllers` | the maps of the same names |
| `connPhase`, `workerPhase` | whether a connection registered and whether its close handler ran (`onCloseOnce`) |
| `session` | how far a controller's goroutine got (handshake, registered, proxying, done) and the worker it claimed |
| `modeInfo` | `Worker.modeInfo` |
| `closing` | connections on which some goroutine is about to call `Close` |
| `devicesTotal` | the gauge `devices_total` |

A version 1 controller logs in, claims and registers; a version 2 controller
claims, is answered, logs in and registers, and when the answer or the login
fails the claim is given back (`ReleaseClaim`) without `mgr.mu`. `CloseWorker`
stands for the close handler plus the close of the controller in `modeInfo`;
`EndRun` for the end of `Controller.Run` with its deferred `worker.Close` and
the handler's deferred `controller.Close`. A connection is used once: a peer
that reconnects is a new element of `Conns`, `Workers` or `Controllers`, as it is
a new Go object.

`NewMITMDevice`, `WithDevice` and `TotalsWithDevice` are `mitm.NewDevice` and `addNewDevice`,
which a control connection or a worker can bring about. Simplifications: the close handler
of a worker and the store of `modeInfo` are each one step; `Session` has the single steps.
`DisconnectDevice` closes the workers in any order.

### Session

One worker and the controller that claimed it. `pc` has three goroutines: `proxy`
(`Controller.Run` and, in it, `ProxyController`), `runner` (`Worker.Run` and its handler's
close), and `closer`, anybody else who closes the worker, as the manager does when it
replaces it. `Worker.Close` is split where another goroutine can see the difference: the
close handler, which takes the worker from the manager and looks at `modeInfo` for a
controller to close in the background, the second look at `modeInfo`, and the close of the
socket. `tracker` and `requests` are the request tracker (`Add`, `Get`, `Done`), which
`disable_worker_stats` leaves out. An answer is read, then looked up
and counted, then passed on, and the other side may end in between. `late` is what *should* count as
dropped, recorded independently of the counter. Messages that do not decode are left out.

### StatsRing

`Advance`, `AfterAdd` and `WindowSum` are the methods of the ring, as functions of the ring and
the time. The ring moves only when somebody looks at it. `Session` adds to one for every
counted answer, and `WindowExact` compares every window at every later time with
the times of the answers, with or without another look in between.

### Handler

The three handlers (`HandleDeviceControl`, `HandleWorker`, `HandleController`) are one
goroutine from the accept of the websocket to its deferred calls; `pc` is where it
is, `kind` which of the three it is, and every choice of kinds is an initial state. They differ in what they set (`Fields`: the controller's handler also sets
a data timeout) and in what the top of their loop does with a cancelled context
(`Loop`). `Register` is the step the manager's module models in full. A settings
value is the number of the reload that stored it. `PutSettings` holds the
container's lock while it calls the watchers, so `BeginPut`, the calls and `EndPut`
are separate steps, and `Notify` and deregistration wait for them; `GetSettings` is an
atomic load without the lock. `deadline` is the one read deadline of a connection,
which serves two purposes: it bounds the handshake and it is how a shutdown
wakes a blocked reader. The data timeouts and pings are `WsTimeout`'s.

### DeviceConn

A command takes an id, checks that the connection can run commands, puts a reply
channel in the map, writes and waits (`call`); its deferred cleanup takes the channel
out of the map. `run` is the reading goroutine, which delivers a reply to the
channel it took out of the map and closes that channel. A receiver that finds a
channel closed and empty takes a `zeroValue`, and a send on a closed channel or a
second close is `panicked`. All commands, the monitor's included, have this shape,
so `Actors` are callers that issue one command each and the monitor, which issues
`MaxChecks`. The monitor registers a watcher that sends on a channel of its own; its
deferred calls deregister the watcher before they close the channel. The program
does not reload the monitor's settings today (`app.go` keeps no handle on their
container); the code for it is there and is modelled.

### WsConn

A message is named by its caller and the number of the call (`Program` gives each
caller its calls). The fields of `Conn` are `writerCh`, `closed`, `ctxDone` (`w.ctx`) and
`connClosed`. The two selects of `writeAsyncFromReader` are two steps with every ready
case, as Go chooses at random. `respChan` has room for one value; closed and empty
it yields nil. A forwarded reader is put back by its forwarder when the
call fails and by the writer when it has taken it; `putBack` counts. `close` is the
compare-and-swap, the cancellation and the close of the network connection, in
three steps; `Close` joins the goroutines, the writer's own `closeNormal` does not. The
queue has room for ten messages in the code and one in the instances: with two
callers a queue of one is full whenever the second caller comes.

### WsTimeout

One iteration of `timeoutLoop` is five steps: two atomic loads, the ping, the snapshot
of the timestamps with both checks, the select. The program sets the ping settings
and then the data timeout, with a signal after each (`StorePing`, `Signal`, `StoreData`,
`Signal`). Time is a tick counter that stands still while the loop or the handler
computes; ticks are finer than intervals, and the timer of an hour that is used when nothing is
scheduled lies beyond the clock. The peer's messages and pongs are stamped by the
reader. A healthy peer answers within `PongWithin` ticks, less than `pongWait`.

### Jobs and Api

`jobInstancesByID` maps an instance to its status, `goroutines` are the instances whose
goroutine has not stored its result. `Api` composes the operations with their callers. There
is one device, which connects, starts and stops to execute commands and closes; other ids are
not known. A request finds the control connection in one step and uses it in later ones, when
it may be closed or replaced: `DeviceCommand` and `AskDevice` look it up, `CheckCommands` is
the second look at `canRunCommands` without `mgr.mu`, `CommandReplies` and `CommandFails` are
what `executeCommand` can come to, with the counters the wrappers (`RestartApp`,
`GetLogcat`, `RunJob`, ...) keep. `DeviceConn` has `executeCommand` in detail. A request to
run a job looks it up once and then asks device by device; the job can be gone by then.
Requests that only look are answered in one step (`AnswerFound`); what enabling, disabling and the
controllers' actions do is in `ConnectionManager`. That jobs or profiles are enabled is a choice
of each request, since a reload can change it at any time.

### Config

A file is a record with the fields of the Go structs whose values some part uses; a field
that is not in the file has its zero value, and the optional data timeout is a set of at most one
element. `SetDefaults`, `ValidConfig` and `Loads` are what happens when a file is loaded, `SettingsOf`
what `app.go` takes from it for a part, `Accepts` the `Validate` of each part's settings, which is
written down a second time in the code, apart from the file's defaults.

### Reload

`applied` says which file the settings of each part come from. `AllParts` are the fourteen
calls of `reload` in their order, the secrets, the session lifetime, the shutdown timeout and
the log level among them; an instance picks some of them (`Parts`). `MakeParts` is `App.Init`.
Neither the goroutine that waits for SIGHUP nor the API request takes a lock, so their
reloads interleave at every part. The containers' own atomicity is modelled in `Handler`.

### App

| Variable | Code |
|---|---|
| `main` | `App.Init`, then `App.Run`: serving, shutting down, how it ended |
| `goroutines` | what `Run` started: three servers, the reload goroutine, the periodic tasks |
| `ctxDone`, `signalled` | the application's context, and the channel of `signal.Notify` |
| `shutDown`, `expired`, `waited` | the goroutine of `shutdown`: calls of `Shutdown`, their context, the waits passed |
| `handler`, `request` | what the servers are busy with |
| `closers`, `jobs` | the `WaitGroup`s of the connection manager and the job manager |

What a connection, a job or a request *does* is in other modules; here they arrive, begin and
end, and start other things. A websocket is its server's until it is taken over (`Upgrade`), which is why
`shutdown` waits for the handlers in addition (`PreventShutdown`, `Wait`). All servers are shut
down at once.

### Auth

A token is the key its signature is made with and its expiry in whole seconds; nobody without the
secret can make one. Hashing, encoding and constant-time comparison are abstract. The clock counts
half seconds, to show what rounding does. `LoadSecret` and `Authenticate` are the middleware,
which loads the secret once; a login loads it three times and the lifetime once
(`Enabled`, `CheckSecret`, `LoadTTL`, `MintSession`), and the cookie is stored when the answer
arrives. `ApplyNext` is one setter of a reload. `known` collects the secrets there were during a
request.

### Fleet

Each member of the fleet is a goroutine of `supervise` (`member`): asleep, dialling, reading,
and for a controller registering and proxying. `End` is the return of its `run` with the deferred
close. `reader` is the goroutine `readResponses` of a controller, `stray` those of earlier connections
that have not ended. `Worker` and a registering `Controller` read without looking at the context; a device moves its read
deadline (`ExpireDeadline`). The server is the environment: it admits those whose secret is in
force, gives a registering controller a free worker, closes a controller when its worker goes, and may drop any
connection, go down and come up.

## What the runs check

| Run | Properties | Instance |
|---|---|---|
| `selector` | `TypeOK`, `CountersMatch`, `NoOvercommit`, `OnePlace`, `NoBusierAndFresher`, `ImplementsLease`, `RateLimitIsExact`, `LongestWaitingFirst` | two instances in one, chosen by the initial state: two phones, one with two worker ids of which one reconnects, two weights, one above the maximum, three ticks; and one of the phones alone with three rate limits and any reload between them, four ticks, three selections |
| `manager` | `OneControllerPerWorker`, `NoOrphans`, `CountedOnce`, `SelectorAgrees`, `OnlyOperatorEnablesUnreachable` | one phone, two control connections of different origins, a worker that reconnects, two version 2 controllers |
| `session` | `ResponsesAccounted`, `WindowExact`, `SessionEndsTogether` | a login and a request, one message nobody asked for, a ring of two buckets of two ticks, six ticks |
| `handler` | `ReloadsReach`, `OnlyShutdownExpires`, `HandlersEnd` | two handlers of any kinds, a reload, a shutdown |
| `device_conn` | `NoPanic`, `RepliesMatch`, `RunGoesOn`, `ReloadReachesMonitor` | a caller, a monitor that checks up to twice, two reloads |
| `ws_conn` | `WrittenInOrder`, `NoUseAfterPutBack`, `NothingAfterClose`, `ClosingEnds` | a caller that forwards and flushes, a caller that waits for its write, two closers, a queue of one |
| `ws_timeout` | `NothingOverdue`, `HealthySurvives` | a healthy or any other peer, three settings, two reloads between them, nine ticks |
| `api` | `OutcomesTrue`, `OutcomeIsFinal`, `RequestsEnd` | two requests of any kind, a device that connects twice, one job |
| `app` | `AllOrNothing`, `ShutdownComplete`, `RunReturns`, `HangupTakesEffect` | a connection, a request, three events (arrivals, edits, signals, failures of a server) in any order, four files, three parts |
| `fleet` | `VerdictsCurrent`, `CookieMirrorsToken`, `FleetEnds`, `ControllersServed` | two instances in one: a fleet of a device, one or two workers and up to two controllers, or controllers only, with a reload of the secrets and one failure; and a browser with a reload and four half seconds |
| `manager_stale_release` | `GoneIsNotOffered`, which the code violates | one worker slot, one version 2 controller |
| `handler_lost_wakeup` | `ShutdownEnds`, which the code violates | one handler, a shutdown |

What each property says, and of which code, is written above its definition. In
short: the selector's bookkeeping is exact and its choice fair; its audit
compares the rate limit and the queue with what really happened, which the code
does not keep; the manager's run relates the three views of a connection (the
manager's maps, the selector's slots, the goroutines); `session` ends sessions on both
sides; `api` compares what requests and job lists tell with what the device said; `app` is about
settings and goroutines of the whole program; the others follow one goroutine structure
each through every order of success, failure, cancellation and reload.

### Bounds

The selector's operations touch one device each,
except the choice, which compares two; one worker id with two connections has
all the orders of replacement and late disconnect, a second id makes the queue
longer than one. Four ticks leave the windows of both rate limits, and three
selections are more than either allows.

In the manager, two control connections and two worker
connections on one slot have every order of replacement and two controllers can
compete for a worker. A clock of two ticks passes the prune age. `manager` uses version 2
controllers, whose handshake holds a claim longest and can give it back. They are
interchangeable, which is what the symmetry says; no liveness property is checked under it.
In a session, the login is the request whose tracking differs and a second request is any
other; six ticks go round a ring of two buckets of two more than once, and the longest window
is one bucket beside the current one.

A handler's steps concern its own connection, except for the settings container:
two handlers make the watchers of one wait for those of the other, and a reload can
meet each of them in every phase. On a control connection the caller
and the monitor issue commands at the same time, which is the smallest instance in
which a reply can reach the wrong one; two reloads let the second come while the
wake-up of the first is pending. On a websocket,
a write, a flush and a second caller have every order of success, failure, cancellation and
close; of the settings of `WsTimeout`, one pings slowly with a data timeout, one fast without, and one
fast with a data timeout and a longer wait for the pong; nine ticks hold the longest timeout and a ping after it.

Two API requests can both use the connection, or one can remove what the other found; a second
connection of the device replaces the first; a request asks one device (`MaxAsks`), known or
not, since it asks them one after the other. Three events in `app` are an
edit, a signal and one more of anything, so a reload can meet a second one, a request, a
shutdown or an edit. The three parts are one that has conditions on its settings, a secret,
and the last to be set; four files are one with nothing in it, one whose values are replaced by
defaults, one with a log level that does not exist and one that cannot be parsed. No file is
edited and no signal sent once the program is shutting down, and at most one background
goroutine and one job run at a time (`MaxBackground`), since the waits only ask whether there is any. In
`fleet`, two controllers and one worker compete, and with two workers both get one; the largest
fleet is not reloaded, and the fleets are not run with the empty secret.

`SelectorAgrees` exempts the slots whose connection was offered again after it had
left (`CleanSlot`); the first finding below is about them. `HangupTakesEffect` and `AllOrNothing` exempt
reloads that overlap, `ShutdownComplete` a server whose `Shutdown` was cut short, `SessionEndsTogether` the
order of steps described under *Observations*, and `HealthySurvives` reloads that shorten an
interval.

`selector` checks for deadlock, as some call of it is always possible. The other runs
do not: connections, calls, reloads, signals and the clock of an
instance are used up, so it comes to rest. That nobody waits for ever where they
should not is what the liveness properties say.

### Fairness

Weak fairness stands for a goroutine that can run, a timer that fires and a lock
that is given back. Nothing is assumed of peers and operators.

* `Session`: the two forwarding goroutines, those who have begun to close, the close in the
  background. No message has to come and no timeout to pass.
* `Handler`: the handler's own steps, the passing of a read deadline, the goroutine of
  `AfterFunc`, the failure of a read whose deadline is over, the rest of a
  `PutSettings` that holds its lock.
* `DeviceConn`: the steps of callers (a command times out), of `Run` and of the monitor.
  The monitor's select is left with *strong* fairness when the context is done: the
  other cases may be ready again and again, and Go chooses among the ready ones at
  random.
* `WsConn`: callers, the writer, closers, and the failure of a blocked write
  once the connection is closed. Nobody is assumed to close.
* `Api`: a request proceeds, a command looks whether it may run and runs out of time, a job
  stores its result, the background close happens. A device never has to answer, start or leave.
* `App`: `Run` sees a signal or the context, the timer of `shutdown` fires, a pending SIGHUP is
  read, a reload proceeds. No server, handler, request or job has to end.
* `Fleet`: the goroutines go on, the server answers a registration and ends the sessions that a
  controller left. A dial fails only for a reason; everything else the server does is its choice.

`Selector`, `SelectorAudit`, `ConnectionManager`, `WsTimeout` and `Auth` have safety properties only and
assume nothing. What must happen in time on a connection is a safety property of
`WsTimeout` (`NothingOverdue`), since its clock waits for the loop.

### Findings

* `manager_stale_release`: when a version 2 handshake fails after the claim, the worker is offered
  again even if its connection has left or was replaced meanwhile. Its close
  handler has run, so nothing withdraws it: a closed connection stays in the
  queue until a controller is paired with it.
* `handler_lost_wakeup`: the shutdown's wake-up is a read deadline in the past, set
  once. If it is set before the handler clears the handshake's deadline, it is lost, and
  a device or controller handler with a healthy peer keeps reading until the
  shutdown times out.

### Observations

The models also show behaviour that is no run of its own. Where a property has an
exception, this is why.

* Enabling a device through the API does not ask for a control connection
  (`manager.go:780`), although a comment in `RegisterWorker` says workers are not to be used before
  it is established; `OnlyOperatorEnablesUnreachable` leaves this case out.
* The gauge of devices by origin counts a device under the origin it was created with
  (`manager.go:147`) and removes it under the origin it has when it is deleted (673, 708), so that
  a device that changes its origin leaves both gauges wrong. `CountedOnce` is about their sum.
* `applyReadTimeouts` loads the settings and applies them without the container's
  lock; a reload between the two is overwritten with the older settings until the next
  reload. `ReloadsReach` says what does hold.
* The monitor of a control connection starts before commands are allowed
  (`deviceconn.go:440` and 444), so its first check can be refused.
* A write that waits can return nil although it failed: the writer may skip the
  result because the caller's context is done and then close the channel, and the caller may look at
  the channel before its context (`wsconn.go:560`, 606). `Flush`, the only waiting write of the program
  today, is not affected (`FlushMeansWritten`, a part of `WrittenInOrder`).
* New ping settings are measured from a pong that was due under the old ones
  (`wsconn.go:451`); a shorter interval finds a healthy, idle peer overdue at once.
  `HealthySurvives` is about reloads that shorten nothing.
* An instance that is cleared by its id while it runs is stored again when it
  completes (`jobs.go:293`), and clearing all keeps what is running (201).
* Overlapping reloads, one by signal and one by request, can leave the parts with
  different configurations until the next reload (`app.go:455`), and only reloads
  by signal count in `config_reloads_total`.
* A worker that closes between the registration of its controller and the store of `modeInfo`
  does not know of it (`worker.go:199`, `manager.go:589`). If `ProxyController` then writes the login before
  the socket is closed, nobody closes the controller until its next request fails or its
  data timeout (two minutes by default, and it can be disabled) is over. `SessionEndsTogether` names
  this order (`Orphaned`) and holds in every other.
* `GetLogcat` counts a success before it decodes what the device sent, so that an undecodable log
  is counted as a success and answered with an error (the exception in `OutcomesTrue`).
* The shutdown can log that it is complete although the `Shutdown` of a server ran out of time and
  a request is still being handled: the servers' context ends 100 ms before the shutdown's own timer
  (`app.go:551`, 576).
* A reload sets the log level of the file (`app.go:537`), also when the program was started
  with `-debug`, which had set it to debug (`app.go:259`).
  `MakeParts` is a start without it.
* A UI session lifetime under one second gives a cookie without `Max-Age`, which a browser keeps
  until it is closed; the token in it expires.
* In the mock connector, an idle worker and a controller that waits for its registration do not look at the
  context. After Ctrl-C, which its README says disconnects everything cleanly, `Run` returns only when the
  server closes the workers that no controller holds (`FleetEnds`).

## What is proved

### The selector

`SelectorProofs` proves, for any sets of devices and workers, any weights,
rate limits and periods:

* `SelectorInvariant`: `Spec => []SelectorInv`, the inductive invariant;
* `TypeCorrect`, `LoadAccounting`, `WorkersInOnePlace`, `NeverOvercommitted`:
  `TypeOK`, `CountersMatch`, `OnePlace` and `NoOvercommit`;
* `RefinesLease`: `Spec => ImplementsLease`;
* `FairChoice`: `Spec => NoBusierAndFresher`;
* `FirstComeFirstServed`, `RateLimitExact`: `AuditSpec => LongestWaitingFirst` and
  `AuditSpec => []RateLimitIsExact`.

The inductive invariant adds to the properties what they need of each other. A
counter is decremented for a worker with positive weight, which keeps
`CountersAgree` only when the decremented counters count that worker; a removed queue
entry keeps `QueueSound` only when the queue is injective; a prune keeps the
counters only when a worker that is away is not assigned; and that a connection
leaving ends *its* lease needs that a slot's record holds a connection of that
slot. All of it concerns one device (`DeviceInv`), so the proof has one lemma per
operation on a device, lifts them to the map of devices (an operation changes
one device, adds a new one or drops one) and has one step per action. The
refinement has a lemma per operation that says which leases it changes.

`FairChoice` needs that no device was selected in the future (`NoneInFuture`): then `Penalty` is
monotone in the time of the last selection, and a score cannot be worse in both factors and win.
The audit's invariants compare the device with what really happened: its queue is in the order
of the announcements (`ArrivalsInv`), and its history is the end of the real one, from which only
selections that are over are missing (`HistoryInv`). `HistoryCounts` then puts the number of selections in
the current window on one side of the history's length, and those under the current settings on the other. A reload
needs no reset of the history: what came before it is under `earlier`.

Assumptions: those stated in the modules (`WorkersAssumption`, `WeightsAssumption`,
`RateLimitsAssumption`, `TimeAssumption`); no finiteness of any constant.

### The connection manager

`ConnectionManagerProofs` proves, for any connections, workers, controllers and devices:

* `ManagerCorrect`: the inductive invariant `MgrInv`, of which `SelectorInv` is a part: in the
  composed system, too, every invariant of the selector holds;
* `NothingLeftBehind`, `NeverShared`, `ManagerMatchesSelector`: `NoOrphans`,
  `OneControllerPerWorker`, `SelectorAgrees`;
* `EverythingOnce`: `CountedOnce`;
* `OperatorDecides`: the action property `OnlyOperatorEnablesUnreachable`.

The manager and the selector keep separate books on the same connections, under separate
locks in the code, and goroutines hold on to connections between two critical sections. `MgrInv`
says how the books correspond while such a goroutine is under way. Its half for control connections
(`ControlSide`): a connection that is up is its device's current one or about to be closed, and the
selector heard of every device that is without one. Its half for workers (`WorkerSide`): the map holds a
connection in its place and only while it is up (`InItsPlace`, `UpIsRegistered`); what is leased
or held has registered once (`HeldIsNotNew`), without which a late step could lease a connection that never came;
what is offered nobody holds (`FreeIsFree`), from which `OneControllerPerWorker` follows when a
controller claims; and in each slot to which no stale release came, the lease and the map agree (`LeasesAgree`). What the
manager does to the selector is summarised lease by lease, in one lemma per selector operation, so that the steps of the
manager need nothing of queues and histories. The exception for stale releases is the one of the
finding `manager_stale_release`: the proof shows that it is the only one.

What is counted has an invariant of its own on top of `MgrInv` (`CountInv`). A control connection whose traffic was
added to its device's total has registered, so it cannot register and end once more (`PastIsOver`); and the
gauges of all origins add up to the number of devices (`GaugesAddUp`). Registering a device adds one to one gauge;
deleting a set of devices takes from each gauge as many as were last seen from its origin (`DevicesDeleted`), and these
numbers add up to the size of the set (`SumOfCounts`). A single gauge need not be right, and no
invariant says it is: a device may be deleted under another origin than it was counted under.

Assumptions beyond those of the selector: a connection is of one kind (`ControllersAssumption`), and there are finitely
many origins (`OriginsAssumption`): they are the labels of a gauge.

### A proxy session

`SessionProofs` proves, for any number of requests and unsolicited messages,
`SessionCorrect` (`SessionInv`) and `EveryResponseAccounted` (`ResponsesAccounted`). A
response is looked up in the tracker some time after the worker sent it, while the controller's
goroutine goes on. The invariant says that the tracker, while it is live, holds every request
from before it is sent until its answer is looked up (`TrackerHolds`); this needs that ids are used
in order (`SentInOrder`), that the worker does not know its controller before the tracker exists
(`FirstTheController`), and that `ProxyController` does not leave a tracker behind (`LeftInOrder`).

### Windows

`SessionProofs` also proves, for any length and number of buckets, `WindowsAreExact` (`WindowExact`). The
invariant of the ring (`RingAt`) is: the head's bucket belongs to a period that began at `headTime`, no response
came after that period, and the bucket of each age holds the number of responses that came in the period that many before
the head's. `AdvanceKeeps` shows that a look at any later time leaves it true. A ring that moves by
less than its length clears exactly the places that become its newest buckets (`PassesSome`), and one that moves by
its length or more clears them all (`PassesAll`), which is why its head may then go back to the first place. A
window adds up the newest buckets; that the responses in them are those of the window is `WindowCounts`.

`Advance` divides the time since `headTime`, and `WindowExact` the times themselves; that these agree needs that
`headTime` is a multiple of the bucket's duration, which is in the invariant (`QuotientMoves`).

### Sums

Both of these theorems are about sums over sets of any size, and the library's induction theorems cannot be instantiated
here. `Sums` argues instead by a smallest counterexample: the subsets of a finite set are well
ordered by strict inclusion, which is a fact about a set and not about an operator, so of the subsets for which a
formula fails one is smallest (`SmallestSubset`), and it cannot be. This gives that the fold over a set exists and is
computed element by element (`SumStep`), and from there what is used: `SumOfDifferences` and `SumOfCounts`.

### Handlers

`ConnectionManagerProofs` proves of `Handler`, for any connections and any number of reloads,
`HandlerCorrect` (`HandlerInv`), `ReloadsAlwaysReach` (`ReloadsReach`) and
`DeadlineOnlyAtShutdown` (`OnlyShutdownExpires`). What a handler loaded is no older than its watcher
(`LoadedIsFresh`), its watcher is registered as long as it uses the connection
(`WatchersFollowPc`), and a `PutSettings` under way still has to call whoever is behind
(`TimeoutsFollow`): together, a reload that begins after `applyReadTimeouts` returned is never lost.

### The control connection

`DeviceConnProofs` proves, for any callers, any number of checks and reloads,
and a device that replies or not, to any id and in any order: `DeviceCorrect` (`DeviceInv`),
`NeverPanics` (`NoPanic`) and `RepliesAlwaysMatch` (`RepliesMatch`). At any time one party is
responsible for a reply channel: the command while its id is in the map, `Run` from taking the
id out until the channel is closed, nobody afterwards (`MapIsLive`, `RunHoldsOpen`, `ReplyIsKept`). So no
channel is sent to after it was closed, or closed twice, and a command that finds its channel closed
finds its own reply in it first. That two commands never share an id rests on the counter only
going up (`IdsDiffer`); that the bound of the ids suffices is counted in `IdsAreCounted`. The wake-up
channel is closed after its watcher is deregistered (`WakeUpOutlivesWatcher`). Assumptions: finitely many callers, and
the monitor checks at least once.

### The websocket connection

`WsProofs` proves about the write side, for any callers, programs of calls and capacity of the queue:
`WsCorrect` (`WsInv`), `PeerGetsInOrder` (`WrittenInOrder`, and with it that a flush which
reports success means written), `BuffersAreKept` (`NoUseAfterPutBack`) and the action property
`SilentAfterClose` (`NothingAfterClose`). The history of what was sent is the axis: it falls into what
the writer has taken and the rest, which is the queue (`QueueIsRest`); of the first part the peer
has everything up to the message in the writer's hand, or up to the first that failed
(`NothingMissing`, `InOrder`); the buffers of the second part nobody has put back (`BuffersKept`).

About the timeout loop, for any settings, it proves `TimeoutCorrect` (`TimeoutInv`), `NothingIsOverdue`
(`NothingOverdue`) and `HealthyPeersSurvive` (`HealthySurvives`). Settings that the loop has not seen are
announced, or about to be (`Informed`); its timer goes off no later than the first thing it has
to do (`TimerSet`); and a peer that answers every ping has a sign of life, or a ping out whose
answer must come, before its timeout (`SignOfLifeInTime`). Assumption: a healthy peer answers within
less than the pong wait, without which the property is false.

### The configuration, reloads and the shutdown

`AppProofs` proves, for any file whatsoever:

* `LoadedIsAccepted`: if a file loads, every part accepts the settings taken from it;
* `OnlyLoadingRefuses`: the files with which a reload gets past validation are those that load.

The rules are written down twice in the code, as defaults and validation of the file and as the
`Validate` of each part's settings. The proof goes through the lemma `DefaultsMakeSense`, which says
what the defaults establish for the fields that some part has a condition on, and looks at
one part after the other; for the log level it compares the two lists of names. It
follows that `App.Init` never fails at a part's settings and that no `PutSettings` of a reload is refused
half way, which the code provides for by logging it.

For any files, parts, connections and requests it then proves `AppCorrect` (`AppInv`),
`ReloadsAreAllOrNothing` (`AllOrNothing`) and `ShutdownLeavesNothing` (`ShutdownComplete`). A
reload that is alone starts from parts that agree and applies a file that every part accepts (`StartsFromOneFile`,
`AppliesGoodFiles`). The shutdown waits for one kind of work after the other; `WaitsStayOver` says that what
it has waited for does not come back, because it can only come from what an earlier wait was for: here the order of
the waits matters. Assumptions: the contents of files have the types of the Go structs, and the parts are
some of the program's, in its order (`ReloadAssumption`).

### Secrets and sessions

`ApiProofs` proves of `Auth`, for any secrets, configurations, browsers and reloads:

* `AuthCorrect`: `AuthSpec => []AuthInv`, the inductive invariant;
* `AnswersAreCurrent`, `CookiesEndWithTokens`: `VerdictsCurrent`, `CookieMirrorsToken`.

The middleware loads the secret and checks the request against it later, a login loads it three
times. `AuthInv` says, at each step, which of what the request remembers was in force while it was there
(`RequestOK`, `LoginOK`), and of a cookie under way how its `Max-Age` relates to the token
in it (`SessionOK`), which `CookieAligned` computes: both are rounded to seconds, one as a length and one
as a moment. A verdict outlives the secret it was made with, but a token that has expired stays so
(`StaysRefused`).

### Commands and jobs

`ApiProofs` proves of `Api`, for any requests, jobs, numbers of device ids in a request and connections:

* `ApiCorrect`: `ASpec => []ApiInv`, the inductive invariant;
* `NobodyIsDeceived`, `OutcomesStay`: `OutcomesTrue` and `OutcomeIsFinal`.

A command is filed under the request or the instance whose goroutine waits for it, so the argument is that
a number is given out once. `JobsInOrder` says that numbers above `jobInstanceID` have no command, that every
command under way has its goroutine, and that an instance that was cleared before its goroutine stored a result stays
unlisted until then: without the last, the induction could not exclude that `Complete` replaces an outcome.
`RequestsInOrder` says the same of requests. `CountersTrue` counts sets of commands; one command enters or leaves
them in a step (`CheckCommandsKeeps`, `ExecutionEnds`). That the numbers suffice
(`MaxInstances` is the model's bound, one for each device id of each request) is `NumbersBounded`: the set
`Asked` of pairs of a request and a device id that was asked about grows by one with each number. Assumption: a request
is not an instance.

### Only model-checked

* Liveness: `HandlersEnd`, `RunGoesOn`, `ReloadReachesMonitor`, `ClosingEnds`, `RequestsEnd`, `RunReturns`,
  `HangupTakesEffect`, `SessionEndsTogether`, `FleetEnds`, `ControllersServed`. The proof system does not
  handle fairness and ENABLED.
  Every invariant and every other action property that a run checks is stated by a theorem.

## Not modelled

`PROJECT.json` lists the hazards with their lines. One has no property: the monitor's first
command may come before commands are allowed (`deviceconn.go:440`), and is then refused; the code
is so, and `DeviceConn` shows it.

What is left out has no order or concurrency of its own, or is not the program's:

* `libs/protos/rotom.pb.go` is generated; messages are members of small sets.
* `libs/logging/handler.go` formats and prints log records. The level, which a reload sets, is a part of `Reload`.
* `libs/api` turns devices, workers and controllers into JSON, field by field.
* `app/stats/prom.go` hands counters to the Prometheus library. The counters that relate to
  other state are in the models: `devices_total`, `workers_in_use`, dropped responses, device commands.
* `libs/rotom_ui` is a front end to the API; `compose.go` of the mock connector writes a file once.
* `libs/testutil` is for tests.
* Of modelled parts: the payloads of commands and messages, routing tables, buffer pools apart from who puts
  a buffer back, the pool of websocket readers, `GetMemoryUsage` in the monitor beyond its being a command.

## The plan

Every safety and action property the runs check is proved; what is left is liveness, which stays with TLC. The
models can still grow: the queries that copy what the manager has, the read side of a websocket connection, and the
counters per origin, of which `CountedOnce` has only the sum.
