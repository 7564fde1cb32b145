------------------------------ MODULE DeviceConn ------------------------------
(***************************************************************************)
(* A device's control connection (libs/mitm/deviceconn.go): goroutines     *)
(* that execute commands on the device, the goroutine in Run that reads    *)
(* its replies, and the monitor goroutine Run starts.                      *)
(*                                                                         *)
(* The device may answer any id at any time, twice or never.  The reply    *)
(* channel of a command is named by the command's id.                      *)
(***************************************************************************)
EXTENDS Naturals, FiniteSets

CONSTANTS
  Callers,        \* goroutines that execute one command each
  Monitor,        \* the monitor, which executes commands too
  MaxChecks,      \* bound: commands of the monitor
  MaxReloads      \* bound: reloads of the monitor's settings

VARIABLES
  messageID,      \* DeviceConn.messageID
  messages,       \* the keys of DeviceConn.messages
  replyChan,      \* reply channels: values in the buffer, closed or not
  call,           \* where each executeCommand is
  canRunCommands, \* DeviceConn.canRunCommands
  run,            \* where Run is, and the id of the reply it delivers
  runCtxDone,     \* whether cancelRun was called
  monitor,        \* where runMonitor is, the settings it uses, its checks
  watching,       \* whether the monitor's watcher is registered
  notifying,      \* whether a PutSettings, with the container's lock, is about to call it
  settings,       \* the container's value: the number of the reload that stored it
  wakeUp,         \* the channel of that name
  panicked        \* whether a closed channel was sent to or closed

callVars == <<messageID, messages, replyChan, call>>
monitorVars == <<monitor, watching, notifying, settings, wakeUp>>
dVars == <<messageID, messages, replyChan, call, canRunCommands, run, runCtxDone,
           monitor, watching, notifying, settings, wakeUp, panicked>>

ASSUME CallersAssumption ==
  /\ IsFiniteSet(Callers)
  /\ Monitor \notin Callers
  /\ MaxChecks \in Nat \ {0}
  /\ MaxReloads \in Nat

Actors == Callers \cup {Monitor}
IDs == 1..(Cardinality(Callers) + MaxChecks)

NoCall == [pc |-> "idle", id |-> 0, outcome |-> "none"]

-----------------------------------------------------------------------------
(* executeCommand, and the check of canRunCommands before it. *)

\* A caller looks whether commands can run.  The monitor does in its checks.
CheckAvailable(a) ==
  /\ call[a].pc = "idle"
  /\ a = Monitor => monitor.pc \in {"firstCheck", "check"}
  /\ call' = [call EXCEPT ![a] =
                IF canRunCommands THEN [@ EXCEPT !.pc = "called"]
                ELSE [@ EXCEPT !.pc = "returned", !.outcome = "unavailable"]]
  /\ UNCHANGED <<messageID, messages, replyChan, canRunCommands, run, runCtxDone,
                 monitorVars, panicked>>

\* It takes an id and puts its channel in the map.
Insert(a) ==
  /\ call[a].pc = "called"
  /\ messageID' = messageID + 1
  /\ messages' = messages \cup {messageID'}
  /\ call' = [call EXCEPT ![a].pc = "writing", ![a].id = messageID']
  /\ UNCHANGED <<replyChan, canRunCommands, run, runCtxDone, monitorVars, panicked>>

\* WriteJSONAsync, which fails when the connection or the context is done.
WriteRequest(a) ==
  /\ call[a].pc = "writing"
  /\ \/ call' = [call EXCEPT ![a].pc = "waiting"]
     \/ call' = [call EXCEPT ![a].pc = "cleanup", ![a].outcome = "writeError"]
  /\ UNCHANGED <<messageID, messages, replyChan, canRunCommands, run, runCtxDone,
                 monitorVars, panicked>>

\* The three cases of the select.  An empty closed channel yields a zero value.
ReceiveReply(a) ==
  LET chan == replyChan[call[a].id]
  IN  /\ call[a].pc = "waiting"
      /\ chan.buffer > 0 \/ chan.closed
      /\ IF chan.buffer > 0
         THEN /\ replyChan' = [replyChan EXCEPT ![call[a].id].buffer = @ - 1]
              /\ call' = [call EXCEPT ![a].pc = "cleanup", ![a].outcome = "reply"]
         ELSE /\ call' = [call EXCEPT ![a].pc = "cleanup", ![a].outcome = "zeroValue"]
              /\ UNCHANGED replyChan
      /\ UNCHANGED <<messageID, messages, canRunCommands, run, runCtxDone, monitorVars, panicked>>

\* A caller's context may end at any time, the monitor's is the one Run cancels.
GiveUp(a) ==
  /\ call[a].pc = "waiting"
  /\ \E outcome \in {"timeout"} \cup (IF a # Monitor \/ runCtxDone THEN {"cancelled"} ELSE {}) :
       call' = [call EXCEPT ![a].pc = "cleanup", ![a].outcome = outcome]
  /\ UNCHANGED <<messageID, messages, replyChan, canRunCommands, run, runCtxDone,
                 monitorVars, panicked>>

\* The deferred function: whoever takes the id out of the map closes the channel.
Cleanup(a) ==
  LET id == call[a].id
  IN  /\ call[a].pc = "cleanup"
      /\ call' = [call EXCEPT ![a].pc = "returned"]
      /\ messages' = messages \ {id}
      /\ IF id \in messages
         THEN /\ panicked' = (panicked \/ replyChan[id].closed)
              /\ replyChan' = [replyChan EXCEPT ![id].closed = TRUE]
         ELSE UNCHANGED <<panicked, replyChan>>
      /\ UNCHANGED <<messageID, canRunCommands, run, runCtxDone, monitorVars>>

-----------------------------------------------------------------------------
(* Run. *)

StartMonitor ==
  /\ run.pc = "new"
  /\ run' = [run EXCEPT !.pc = "started"]
  /\ monitor' = [monitor EXCEPT !.pc = "watching"]
  /\ UNCHANGED <<callVars, canRunCommands, runCtxDone, watching, notifying, settings,
                 wakeUp, panicked>>

AllowCommands ==
  /\ run.pc = "started"
  /\ run' = [run EXCEPT !.pc = "reading"]
  /\ canRunCommands' = TRUE
  /\ UNCHANGED <<callVars, runCtxDone, monitorVars, panicked>>

\* A reply is read and its channel taken out of the map, if it is there.
TakeReply(id) ==
  /\ run.pc = "reading"
  /\ run' = IF id \in messages THEN [pc |-> "sending", id |-> id] ELSE run
  /\ messages' = messages \ {id}
  /\ UNCHANGED <<messageID, replyChan, call, canRunCommands, runCtxDone, monitorVars, panicked>>

\* Some command waits for this reply.
ReceiverIsThere(id) == \E a \in Actors : call[a].id = id /\ call[a].pc = "waiting"

\* The channel has a buffer of one.
HasRoom(id) == replyChan[id].buffer = 0

\* Wrong: does not wait, and drops a reply that comes before the command waits for it.
SendReplyOrDrop ==
  /\ run.pc = "sending"
  /\ run' = [run EXCEPT !.pc = "sent"]
  /\ panicked' = (panicked \/ replyChan[run.id].closed)
  /\ replyChan' = [replyChan EXCEPT ![run.id].buffer = IF ReceiverIsThere(run.id) THEN 1 ELSE @]
  /\ UNCHANGED <<messageID, messages, call, canRunCommands, runCtxDone, monitorVars>>

SendReply ==
  /\ run.pc = "sending"
  /\ HasRoom(run.id)
  /\ run' = [run EXCEPT !.pc = "sent"]
  /\ panicked' = (panicked \/ replyChan[run.id].closed)
  /\ replyChan' = [replyChan EXCEPT ![run.id].buffer = @ + 1]
  /\ UNCHANGED <<messageID, messages, call, canRunCommands, runCtxDone, monitorVars>>

CloseReplyChan ==
  /\ run.pc = "sent"
  /\ run' = [pc |-> "reading", id |-> 0]
  /\ panicked' = (panicked \/ replyChan[run.id].closed)
  /\ replyChan' = [replyChan EXCEPT ![run.id].closed = TRUE]
  /\ UNCHANGED <<messageID, messages, call, canRunCommands, runCtxDone, monitorVars>>

\* The connection is gone, or what was read is no reply.
ReadFails ==
  /\ run.pc = "reading"
  /\ run' = [run EXCEPT !.pc = "stopping"]
  /\ UNCHANGED <<callVars, canRunCommands, runCtxDone, monitorVars, panicked>>

\* The deferred calls, last one first.
RefuseCommands ==
  /\ run.pc = "stopping"
  /\ run' = [run EXCEPT !.pc = "cancelling"]
  /\ canRunCommands' = FALSE
  /\ UNCHANGED <<callVars, runCtxDone, monitorVars, panicked>>

\* Wrong: waits before it cancels.
CancelRunAfterWait ==
  /\ run.pc = "cancelling"
  /\ monitor.pc = "done"
  /\ run' = [run EXCEPT !.pc = "joining"]
  /\ runCtxDone' = TRUE
  /\ UNCHANGED <<callVars, canRunCommands, monitorVars, panicked>>

CancelRun ==
  /\ run.pc = "cancelling"
  /\ run' = [run EXCEPT !.pc = "joining"]
  /\ runCtxDone' = TRUE
  /\ UNCHANGED <<callVars, canRunCommands, monitorVars, panicked>>

\* wg.Wait
JoinMonitor ==
  /\ run.pc = "joining"
  /\ monitor.pc = "done"
  /\ run' = [run EXCEPT !.pc = "done"]
  /\ UNCHANGED <<callVars, canRunCommands, runCtxDone, monitorVars, panicked>>

-----------------------------------------------------------------------------
(* runMonitor. *)

\* Notify, which waits for a PutSettings that is under way.
WatchSettings ==
  /\ monitor.pc = "watching"
  /\ ~ notifying
  /\ monitor' = [monitor EXCEPT !.pc = "firstLoad"]
  /\ watching' = TRUE
  /\ UNCHANGED <<callVars, canRunCommands, run, runCtxDone, notifying, settings, wakeUp,
                 panicked>>

\* GetSettings, before the first check and after every round.
LoadSettings ==
  /\ monitor.pc \in {"firstLoad", "load"}
  /\ monitor' = [monitor EXCEPT !.pc = IF @ = "firstLoad" THEN "firstCheck" ELSE "select",
                                !.settings = settings]
  /\ UNCHANGED <<callVars, canRunCommands, run, runCtxDone, watching, notifying, settings,
                 wakeUp, panicked>>

\* checkDevice returns, whatever the command's outcome.
EndCheck ==
  /\ monitor.pc \in {"firstCheck", "check"}
  /\ call[Monitor].pc = "returned"
  /\ call' = [call EXCEPT ![Monitor] = NoCall]
  /\ monitor' = [monitor EXCEPT !.pc = IF @ = "firstCheck" THEN "select" ELSE "load",
                                !.checks = @ + 1]
  /\ UNCHANGED <<messageID, messages, replyChan, canRunCommands, run, runCtxDone, watching,
                 notifying, settings, wakeUp, panicked>>

\* The three cases of the select.  No timer is set when the interval is not
\* positive, so a timer may or may not fire.
TimerFires ==
  /\ monitor.pc = "select"
  /\ monitor.checks < MaxChecks
  /\ monitor' = [monitor EXCEPT !.pc = "check"]
  /\ UNCHANGED <<callVars, canRunCommands, run, runCtxDone, watching, notifying, settings,
                 wakeUp, panicked>>

WakeUp ==
  /\ monitor.pc = "select"
  /\ wakeUp.buffer > 0
  /\ wakeUp' = [wakeUp EXCEPT !.buffer = @ - 1]
  /\ monitor' = [monitor EXCEPT !.pc = "load"]
  /\ UNCHANGED <<callVars, canRunCommands, run, runCtxDone, watching, notifying, settings,
                 panicked>>

SeeCancel ==
  /\ monitor.pc = "select"
  /\ runCtxDone
  /\ monitor' = [monitor EXCEPT !.pc = "deregistering"]
  /\ UNCHANGED <<callVars, canRunCommands, run, runCtxDone, watching, notifying, settings,
                 wakeUp, panicked>>

\* Wrong: closes the channel while its watcher can still be called.
DeregisterLate ==
  /\ monitor.pc = "deregistering"
  /\ monitor' = [monitor EXCEPT !.pc = "closing"]
  /\ UNCHANGED <<callVars, canRunCommands, run, runCtxDone, watching, notifying, settings,
                 wakeUp, panicked>>

\* The deferred calls: the watcher goes before the channel is closed.
Deregister ==
  /\ monitor.pc = "deregistering"
  /\ ~ notifying
  /\ monitor' = [monitor EXCEPT !.pc = "closing"]
  /\ watching' = FALSE
  /\ UNCHANGED <<callVars, canRunCommands, run, runCtxDone, notifying, settings, wakeUp,
                 panicked>>

CloseWakeUp ==
  /\ monitor.pc = "closing"
  /\ monitor' = [monitor EXCEPT !.pc = "done"]
  /\ wakeUp' = [wakeUp EXCEPT !.closed = TRUE]
  /\ UNCHANGED <<callVars, canRunCommands, run, runCtxDone, watching, notifying, settings,
                 panicked>>

\* PutSettings stores the value with the lock held.
BeginPut ==
  /\ ~ notifying
  /\ settings < MaxReloads
  /\ settings' = settings + 1
  /\ notifying' = watching
  /\ UNCHANGED <<callVars, canRunCommands, run, runCtxDone, monitor, watching, wakeUp, panicked>>

\* Wrong: the channel has no buffer, so a wake-up is lost unless the monitor waits for it.
CallWatcherUnbuffered ==
  /\ notifying
  /\ notifying' = FALSE
  /\ panicked' = (panicked \/ wakeUp.closed)
  /\ wakeUp' = IF monitor.pc = "select" THEN [wakeUp EXCEPT !.buffer = 1] ELSE wakeUp
  /\ UNCHANGED <<callVars, canRunCommands, run, runCtxDone, monitor, watching, settings>>

\* It calls the watcher, which wakes the monitor unless a wake-up is pending.
CallWatcher ==
  /\ notifying
  /\ notifying' = FALSE
  /\ panicked' = (panicked \/ wakeUp.closed)
  /\ wakeUp' = [wakeUp EXCEPT !.buffer = 1]
  /\ UNCHANGED <<callVars, canRunCommands, run, runCtxDone, monitor, watching, settings>>

-----------------------------------------------------------------------------
(* The specification. *)

DInit ==
  /\ messageID = 0
  /\ messages = {}
  /\ replyChan = [id \in IDs |-> [buffer |-> 0, closed |-> FALSE]]
  /\ call = [a \in Actors |-> NoCall]
  /\ canRunCommands = FALSE
  /\ run = [pc |-> "new", id |-> 0]
  /\ runCtxDone = FALSE
  /\ monitor = [pc |-> "off", settings |-> 0, checks |-> 0]
  /\ watching = FALSE
  /\ notifying = FALSE
  /\ settings = 0
  /\ wakeUp = [buffer |-> 0, closed |-> FALSE]
  /\ panicked = FALSE

Command(a) ==
  \/ CheckAvailable(a)
  \/ Insert(a)
  \/ WriteRequest(a)
  \/ ReceiveReply(a)
  \/ GiveUp(a)
  \/ Cleanup(a)

\* Run, without what depends on the device.
RunSteps ==
  \/ StartMonitor
  \/ AllowCommands
  \/ SendReply
  \/ CloseReplyChan
  \/ RefuseCommands
  \/ CancelRun
  \/ JoinMonitor

MonitorSteps ==
  \/ WatchSettings
  \/ LoadSettings
  \/ EndCheck
  \/ WakeUp
  \/ Deregister
  \/ CloseWakeUp

DNext ==
  \/ \E a \in Actors : Command(a)
  \/ RunSteps
  \/ \E id \in IDs : TakeReply(id)
  \/ ReadFails
  \/ MonitorSteps
  \/ TimerFires
  \/ SeeCancel
  \/ BeginPut
  \/ CallWatcher

DSpec == DInit /\ [][DNext]_dVars

\* Goroutines run and commands time out.  Strong fairness for the select that may
\* find the context done: Go chooses among the ready cases at random.  Nothing is
\* assumed of the device, the timer or the operator.
DFairness ==
  /\ \A a \in Actors : WF_dVars(Command(a))
  /\ WF_dVars(RunSteps)
  /\ WF_dVars(MonitorSteps)
  /\ SF_dVars(SeeCancel)
  /\ WF_dVars(CallWatcher)

FairDSpec == DSpec /\ DFairness

-----------------------------------------------------------------------------
(* Properties. *)

\* The values of a channel with a buffer of one, and of a command.
Channels == [buffer : 0..1, closed : BOOLEAN]
Calls == [pc : {"idle", "called", "writing", "waiting", "cleanup", "returned"},
          id : IDs \cup {0},
          outcome : {"none", "unavailable", "writeError", "reply", "zeroValue",
                     "timeout", "cancelled"}]

\* The types; the reply channels and the wake-up channel hold one value at most.
DTypeOK ==
  /\ messageID \in 0..(Cardinality(Callers) + MaxChecks)
  /\ messages \subseteq 1..messageID
  /\ replyChan \in [IDs -> Channels]
  /\ call \in [Actors -> Calls]
  /\ canRunCommands \in BOOLEAN
  /\ run \in [pc : {"new", "started", "reading", "sending", "sent", "stopping", "cancelling",
                    "joining", "done"},
              id : IDs \cup {0}]
  /\ runCtxDone \in BOOLEAN
  /\ monitor \in [pc : {"off", "watching", "firstLoad", "firstCheck", "select", "check",
                        "load", "deregistering", "closing", "done"},
                  settings : 0..MaxReloads, checks : 0..MaxChecks]
  /\ watching \in BOOLEAN
  /\ notifying \in BOOLEAN
  /\ settings \in 0..MaxReloads
  /\ wakeUp \in Channels
  /\ panicked \in BOOLEAN

\* No goroutine sends on a channel that was closed, or closes it again, however
\* replies, timeouts, reloads and the end of the connection fall together; and the
\* types hold: no channel gets more values than it has room for.
NoPanic == DTypeOK /\ ~ panicked

\* Commands and replies match.  A command that returns without an error has the
\* device's reply: however the reply, the timeout and the closing of the channel
\* fall together, the zero value of a closed channel never passes for an answer.
\* And every id in the map belongs to a command that still waits, so that the map
\* does not grow with commands that failed.
RepliesMatch ==
  /\ \A a \in Actors : call[a].outcome # "zeroValue"
  /\ \A id \in messages : \E a \in Actors :
       call[a].id = id /\ call[a].pc \in {"writing", "waiting", "cleanup"}

\* Run is never stuck: it returns when the connection fails, whether or not the
\* device answers, the monitor is in a check, or a reply comes late; and before that
\* no late or unwanted reply keeps it from reading on.
RunGoesOn ==
  /\ run.pc = "stopping" ~> run.pc = "done"
  /\ run.pc = "sending" ~> run.pc = "reading"

\* A reload reaches the monitor, also when it comes in the middle of a check and
\* no timer is set.
ReloadReachesMonitor ==
  monitor.settings # settings /\ monitor.pc # "off" ~>
    monitor.settings = settings \/ monitor.pc = "done"
=============================================================================
