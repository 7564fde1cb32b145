------------------------------- MODULE Handler -------------------------------
(***************************************************************************)
(* The websocket handlers (libs/handlers, apps/rotom-ng/app/handlers) with *)
(* the settings container they watch (libs/settings) and the shutdown of   *)
(* the application: one goroutine per connection, from the accept to the   *)
(* deferred calls that end it.  The three handlers share their shape; what *)
(* their Run does with the context differs by kind.                        *)
(*                                                                         *)
(* A settings value is the number of the reload that stored it.            *)
(***************************************************************************)
EXTENDS Naturals

CONSTANTS
  Handlers,     \* goroutines, one per accepted connection
  MaxReloads    \* bound: reloads of the settings

VARIABLES
  kind,         \* which of the three handlers each goroutine runs
  settings,     \* Container.ptr
  notifying,    \* the calls a PutSettings that holds Container.mu has still to make
  holdsMu,      \* whether a PutSettings holds Container.mu
  watchers,     \* Container.watchers
  pc,           \* where each goroutine is
  loaded,       \* what applyReadTimeouts got from getSettings
  timeouts,     \* the settings in force on each connection, by field
  deadline,     \* the read deadline of each connection
  wakeUp,       \* the function registered with context.AfterFunc
  ctxDone,      \* whether the application's context is cancelled
  watchedAt,    \* history: the settings when the watcher was registered
  appliedAt     \* history: the settings when applyReadTimeouts returned

containerVars == <<settings, notifying, holdsMu>>
historyVars == <<watchedAt, appliedAt>>
hVars == <<kind, settings, notifying, holdsMu, watchers, pc, loaded, timeouts, deadline,
           wakeUp, ctxDone, watchedAt, appliedAt>>

ASSUME HandlersAssumption == MaxReloads \in Nat

Kinds == {"device", "worker", "controller"}

\* What applyReadTimeouts sets on a connection.
Fields(h) == IF kind[h] = "controller" THEN {"ping", "data"} ELSE {"ping"}
NeverSet == [ping |-> 0, data |-> 0]

-----------------------------------------------------------------------------
(* The settings container. *)

\* PutSettings takes the lock and stores the value.
BeginPut ==
  /\ ~ holdsMu
  /\ settings < MaxReloads
  /\ settings' = settings + 1
  /\ holdsMu' = TRUE
  /\ notifying' = {c \in watchers \X {"ping", "data"} : c[2] \in Fields(c[1])}
  /\ UNCHANGED <<kind, watchers, pc, loaded, timeouts, deadline, wakeUp, ctxDone,
                 historyVars>>

\* It calls a watcher, which sets the ping settings before the data timeout.
CallWatcher(h, f) ==
  /\ <<h, f>> \in notifying
  /\ f = "data" => <<h, "ping">> \notin notifying
  /\ notifying' = notifying \ {<<h, f>>}
  /\ timeouts' = [timeouts EXCEPT ![h][f] = settings]
  /\ UNCHANGED <<kind, settings, holdsMu, watchers, pc, loaded, deadline, wakeUp, ctxDone,
                 historyVars>>

EndPut ==
  /\ holdsMu
  /\ notifying = {}
  /\ holdsMu' = FALSE
  /\ UNCHANGED <<kind, settings, notifying, watchers, pc, loaded, timeouts, deadline,
                 wakeUp,
                 ctxDone, historyVars>>

-----------------------------------------------------------------------------
(* The handshake. *)

\* The connection is accepted, and its handshake bounded by a read deadline.
Accept(h) ==
  /\ pc[h] = "idle"
  /\ pc' = [pc EXCEPT ![h] = "accepted"]
  /\ deadline' = [deadline EXCEPT ![h] = "handshake"]
  /\ UNCHANGED <<kind, containerVars, watchers, loaded, timeouts, wakeUp, ctxDone,
                 historyVars>>

\* context.AfterFunc
ArmWakeUp(h) ==
  /\ pc[h] = "accepted"
  /\ pc' = [pc EXCEPT ![h] = "handshake"]
  /\ wakeUp' = [wakeUp EXCEPT ![h] = "armed"]
  /\ UNCHANGED <<kind, containerVars, watchers, loaded, timeouts, deadline, ctxDone,
                 historyVars>>

\* The peer has said what it is.
ReadHandshake(h) ==
  /\ pc[h] = "handshake"
  /\ deadline[h] # "past"
  /\ pc' = [pc EXCEPT ![h] = "registering"]
  /\ UNCHANGED <<kind, containerVars, watchers, loaded, timeouts, deadline, wakeUp, ctxDone,
                 historyVars>>

\* The read fails: the peer is gone or the deadline is over.
FailHandshake(h) ==
  /\ pc[h] = "handshake"
  /\ pc' = [pc EXCEPT ![h] = "closing"]
  /\ UNCHANGED <<kind, containerVars, watchers, loaded, timeouts, deadline, wakeUp, ctxDone,
                 historyVars>>

\* The connection manager registers the connection or refuses it.
Register(h) ==
  /\ pc[h] = "registering"
  /\ \E next \in {"registered", "closing"} : pc' = [pc EXCEPT ![h] = next]
  /\ UNCHANGED <<kind, containerVars, watchers, loaded, timeouts, deadline, wakeUp, ctxDone,
                 historyVars>>

\* Wrong: the handshake deadline stays.
KeepDeadline(h) ==
  /\ pc[h] = "registered"
  /\ pc' = [pc EXCEPT ![h] = "watching"]
  /\ UNCHANGED <<kind, containerVars, watchers, loaded, timeouts, deadline, wakeUp, ctxDone,
                 historyVars>>

\* SetReadDeadline(time.Time{})
ClearDeadline(h) ==
  /\ pc[h] = "registered"
  /\ pc' = [pc EXCEPT ![h] = "watching"]
  /\ deadline' = [deadline EXCEPT ![h] = "none"]
  /\ UNCHANGED <<kind, containerVars, watchers, loaded, timeouts, wakeUp, ctxDone,
                 historyVars>>

-----------------------------------------------------------------------------
(* applyReadTimeouts *)

\* Notify, which waits for a PutSettings that is under way.
Watch(h) ==
  /\ pc[h] = "watching"
  /\ ~ holdsMu
  /\ pc' = [pc EXCEPT ![h] = "loading"]
  /\ watchers' = watchers \cup {h}
  /\ watchedAt' = [watchedAt EXCEPT ![h] = settings]
  /\ UNCHANGED <<kind, containerVars, loaded, timeouts, deadline, wakeUp, ctxDone,
                 appliedAt>>

\* Wrong: uses the settings the program started with.
LoadInitialSettings(h) ==
  /\ pc[h] = "loading"
  /\ pc' = [pc EXCEPT ![h] = "applying"]
  /\ loaded' = [loaded EXCEPT ![h] = 0]
  /\ UNCHANGED <<kind, containerVars, watchers, timeouts, deadline, wakeUp, ctxDone,
                 historyVars>>

\* GetSettings, without the lock
LoadSettings(h) ==
  /\ pc[h] = "loading"
  /\ pc' = [pc EXCEPT ![h] = "applying"]
  /\ loaded' = [loaded EXCEPT ![h] = settings]
  /\ UNCHANGED <<kind, containerVars, watchers, timeouts, deadline, wakeUp, ctxDone,
                 historyVars>>

\* SetPingSettings
ApplyPing(h) ==
  /\ pc[h] = "applying"
  /\ pc' = [pc EXCEPT ![h] = IF kind[h] = "controller" THEN "applyingData" ELSE "loop"]
  /\ timeouts' = [timeouts EXCEPT ![h].ping = loaded[h]]
  /\ appliedAt' = [appliedAt EXCEPT ![h] = settings]
  /\ UNCHANGED <<kind, containerVars, watchers, loaded, deadline, wakeUp, ctxDone,
                 watchedAt>>

\* SetReadDataTimeout
ApplyData(h) ==
  /\ pc[h] = "applyingData"
  /\ pc' = [pc EXCEPT ![h] = "loop"]
  /\ timeouts' = [timeouts EXCEPT ![h].data = loaded[h]]
  /\ appliedAt' = [appliedAt EXCEPT ![h] = settings]
  /\ UNCHANGED <<kind, containerVars, watchers, loaded, deadline, wakeUp, ctxDone,
                 watchedAt>>

-----------------------------------------------------------------------------
(* Run, and the end of the handler. *)

\* The top of the loop.  A worker asks the context; a controller writes, and its
\* write may lose against the context once that is cancelled; a device just reads.
Loop(h) ==
  /\ pc[h] = "loop"
  /\ \/ /\ ~ (kind[h] = "worker" /\ ctxDone)
        /\ pc' = [pc EXCEPT ![h] = "reading"]
     \/ /\ kind[h] # "device" /\ ctxDone
        /\ pc' = [pc EXCEPT ![h] = "closing"]
  /\ UNCHANGED <<kind, containerVars, watchers, loaded, timeouts, deadline, wakeUp, ctxDone,
                 historyVars>>

\* A message arrives.
Message(h) ==
  /\ pc[h] = "reading"
  /\ deadline[h] # "past"
  /\ pc' = [pc EXCEPT ![h] = "loop"]
  /\ UNCHANGED <<kind, containerVars, watchers, loaded, timeouts, deadline, wakeUp, ctxDone,
                 historyVars>>

\* The read fails: the connection is closed or timed out.
ReadFails(h) ==
  /\ pc[h] = "reading"
  /\ pc' = [pc EXCEPT ![h] = "closing"]
  /\ UNCHANGED <<kind, containerVars, watchers, loaded, timeouts, deadline, wakeUp, ctxDone,
                 historyVars>>

\* Wrong: deregisters the watcher without the lock.
FinishAtOnce(h) ==
  /\ pc[h] = "closing"
  /\ pc' = [pc EXCEPT ![h] = "done"]
  /\ watchers' = watchers \ {h}
  /\ wakeUp' = [wakeUp EXCEPT ![h] = "stopped"]
  /\ UNCHANGED <<kind, containerVars, loaded, timeouts, deadline, ctxDone, historyVars>>

\* The deferred calls: deregister the watcher, stop the wake-up, close.
Finish(h) ==
  /\ pc[h] = "closing"
  /\ h \in watchers => ~ holdsMu
  /\ pc' = [pc EXCEPT ![h] = "done"]
  /\ watchers' = watchers \ {h}
  /\ wakeUp' = [wakeUp EXCEPT ![h] = "stopped"]
  /\ UNCHANGED <<kind, containerVars, loaded, timeouts, deadline, ctxDone, historyVars>>

-----------------------------------------------------------------------------
(* Time and shutdown. *)

\* The handshake takes too long.
DeadlinePasses(h) ==
  /\ deadline[h] = "handshake"
  /\ deadline' = [deadline EXCEPT ![h] = "past"]
  /\ UNCHANGED <<kind, containerVars, watchers, pc, loaded, timeouts, wakeUp, ctxDone,
                 historyVars>>

\* Wrong: the wake-up leaves the deadline alone.
WakeNobody(h) ==
  /\ ctxDone
  /\ wakeUp[h] = "armed"
  /\ wakeUp' = [wakeUp EXCEPT ![h] = "ran"]
  /\ UNCHANGED <<kind, containerVars, watchers, pc, loaded, timeouts, deadline, ctxDone,
                 historyVars>>

\* The function given to AfterFunc, in a goroutine of its own.
WakeReader(h) ==
  /\ ctxDone
  /\ wakeUp[h] = "armed"
  /\ wakeUp' = [wakeUp EXCEPT ![h] = "ran"]
  /\ deadline' = [deadline EXCEPT ![h] = "past"]
  /\ UNCHANGED <<kind, containerVars, watchers, pc, loaded, timeouts, ctxDone, historyVars>>

Shutdown ==
  /\ ~ ctxDone
  /\ ctxDone' = TRUE
  /\ UNCHANGED <<kind, containerVars, watchers, pc, loaded, timeouts, deadline, wakeUp,
                 historyVars>>

-----------------------------------------------------------------------------
(* The specification. *)

HInit ==
  /\ kind \in [Handlers -> Kinds]
  /\ settings = 0
  /\ notifying = {}
  /\ holdsMu = FALSE
  /\ watchers = {}
  /\ pc = [h \in Handlers |-> "idle"]
  /\ loaded = [h \in Handlers |-> 0]
  /\ timeouts = [h \in Handlers |-> NeverSet]
  /\ deadline = [h \in Handlers |-> "none"]
  /\ wakeUp = [h \in Handlers |-> "unarmed"]
  /\ ctxDone = FALSE
  /\ watchedAt = [h \in Handlers |-> 0]
  /\ appliedAt = [h \in Handlers |-> 0]

\* What a handler does on its own, once accepted.
Proceed(h) ==
  \/ ArmWakeUp(h)
  \/ Register(h)
  \/ ClearDeadline(h)
  \/ Watch(h)
  \/ LoadSettings(h)
  \/ ApplyPing(h)
  \/ ApplyData(h)
  \/ Loop(h)
  \/ Finish(h)

\* What depends on its peer and on time.
Peer(h) ==
  \/ Accept(h)
  \/ ReadHandshake(h)
  \/ FailHandshake(h)
  \/ Message(h)
  \/ ReadFails(h)
  \/ DeadlinePasses(h)
  \/ WakeReader(h)

Put ==
  \/ BeginPut
  \/ \E h \in Handlers, f \in {"ping", "data"} : CallWatcher(h, f)
  \/ EndPut

HNext ==
  \/ \E h \in Handlers : Proceed(h) \/ Peer(h)
  \/ Put
  \/ Shutdown

HSpec == HInit /\ [][HNext]_hVars

\* Goroutines run, time passes, and a read fails once its deadline is over.
\* Nothing is assumed of the peer.
HFairness ==
  /\ \A h \in Handlers :
       /\ WF_hVars(Proceed(h))
       /\ WF_hVars(DeadlinePasses(h))
       /\ WF_hVars(WakeReader(h))
       /\ WF_hVars(deadline[h] = "past" /\ (FailHandshake(h) \/ ReadFails(h)))
  /\ WF_hVars(Put /\ holdsMu)

FairHSpec == HSpec /\ HFairness

-----------------------------------------------------------------------------
(* Properties. *)

\* The types.
HTypeOK ==
  /\ kind \in [Handlers -> Kinds]
  /\ settings \in 0..MaxReloads
  /\ notifying \subseteq Handlers \X {"ping", "data"}
  /\ holdsMu \in BOOLEAN
  /\ watchers \subseteq Handlers
  /\ pc \in [Handlers -> {"idle", "accepted", "handshake", "registering", "registered",
                          "watching", "loading", "applying", "applyingData", "loop",
                          "reading", "closing", "done"}]
  /\ loaded \in [Handlers -> 0..MaxReloads]
  /\ timeouts \in [Handlers -> [ping : 0..MaxReloads, data : 0..MaxReloads]]
  /\ deadline \in [Handlers -> {"none", "handshake", "past"}]
  /\ wakeUp \in [Handlers -> {"unarmed", "armed", "ran", "stopped"}]
  /\ ctxDone \in BOOLEAN
  /\ watchedAt \in [Handlers -> 0..MaxReloads]
  /\ appliedAt \in [Handlers -> 0..MaxReloads]

Running(h) == pc[h] \in {"loop", "reading"}

\* A reload never calls the watcher of a handler that has returned: deregistering it
\* waits for a PutSettings that is under way, whenever the connection ends.
NoLateCall == \A h \in Handlers : pc[h] = "done" => ~ \E f \in Fields(h) : <<h, f>> \in notifying

\* Reloads reach the connections.  applyReadTimeouts registers its watcher first, so
\* a running connection never has settings older than those that were stored when
\* it began to watch; and every reload that begins after applyReadTimeouts has
\* returned reaches it whole, the ping settings and the data timeout alike.  It
\* reaches no connection that has left.
ReloadsReach ==
  /\ NoLateCall
  /\ \A h \in Handlers : Running(h) =>
       \A f \in Fields(h) :
         /\ timeouts[h][f] >= watchedAt[h]
         /\ settings # appliedAt[h] /\ ~ holdsMu => timeouts[h][f] = settings

\* A registered connection is never cut off by the deadline of its handshake: only the
\* shutdown makes the deadline of a running connection expire.  And the types hold.
OnlyShutdownExpires ==
  /\ HTypeOK
  /\ \A h \in Handlers : Running(h) /\ ~ ctxDone => deadline[h] = "none"

\* No peer keeps a handler for ever: not in its handshake; not a worker's handler
\* after a shutdown, in whatever phase that meets it; and not a handler of any kind
\* that runs when the shutdown's wake-up comes.
HandlersEnd ==
  \A h \in Handlers :
    /\ pc[h] = "handshake" ~> pc[h] # "handshake"
    /\ kind[h] = "worker" /\ ctxDone /\ pc[h] # "idle" ~> pc[h] \in {"idle", "done"}
    /\ Running(h) /\ wakeUp[h] = "armed" /\ ctxDone ~> pc[h] = "done"

\* "On app shutdown, expire the read deadline to unblock any reader stuck in Run":
\* a shutdown ends every handler.
ShutdownEnds ==
  \A h \in Handlers : ctxDone /\ pc[h] # "idle" ~> pc[h] = "done"
=============================================================================
