--------------------------- MODULE DeviceConnProofs ---------------------------
(***************************************************************************)
(* Theorems about DeviceConn, for every set of callers, every number of    *)
(* checks and of reloads, and every behaviour of the device.               *)
(*                                                                         *)
(* At any time one party is responsible for a reply channel: the command,  *)
(* while its id is in the map; Run, from the moment it takes the id out    *)
(* until it has closed the channel; nobody afterwards.  That is the        *)
(* inductive invariant, with the count that bounds the ids.                *)
(***************************************************************************)
EXTENDS DeviceConn, FiniteSetTheorems, TLAPS

\* A command that has its id and has not yet returned.
Pending(a) == call[a].pc \in {"writing", "waiting", "cleanup"}

\* A command that may still receive from its channel.
MayReceive(a) == call[a].pc \in {"writing", "waiting"}

\* Run has taken the id out of the map and not yet closed its channel.
RunHolds(id) == run.pc \in {"sending", "sent"} /\ run.id = id

\* What an id says of its command.  The monitor executes commands only in its checks.
CallsHaveIds ==
  /\ \A a \in Actors :
       /\ call[a].pc \in {"idle", "called"} => call[a].id = 0
       /\ Pending(a) => call[a].id # 0
       /\ call[a].id <= messageID
  /\ call[Monitor].pc # "idle" => monitor.pc \in {"firstCheck", "check"}

\* No id is used twice.
IdsDiffer ==
  \A a \in Actors, b \in Actors : call[a].id = call[b].id /\ call[a].id # 0 => a = b

\* Run starts the monitor once.
MonitorStartsOnce == run.pc = "new" => monitor.pc = "off"

\* The monitor begins a check only below its bound.
ChecksBounded ==
  /\ monitor.pc \in {"off", "watching", "firstLoad", "firstCheck"} => monitor.checks = 0
  /\ monitor.pc = "check" => monitor.checks < MaxChecks

\* Each id was taken by a caller, which takes one only, or in a check of the monitor.
WithId == {c \in Callers : call[c].id # 0}
IdsAreCounted ==
  messageID <= Cardinality(WithId) + monitor.checks + (IF call[Monitor].id # 0 THEN 1 ELSE 0)

\* A channel in the map is open, empty and its command's; Run does not hold it.
MapIsLive ==
  \A id \in messages :
    /\ ~ replyChan[id].closed
    /\ replyChan[id].buffer = 0
    /\ ~ RunHolds(id)
    /\ \E a \in Actors : call[a].id = id /\ Pending(a)

\* A channel that Run holds is open, and empty until Run has sent.
RunHoldsOpen ==
  run.pc \in {"sending", "sent"} =>
    /\ run.id \in IDs /\ run.id <= messageID
    /\ run.id \notin messages
    /\ ~ replyChan[run.id].closed
    /\ run.pc = "sending" => replyChan[run.id].buffer = 0

\* A channel whose id was not taken yet is open and empty.
LaterIdsUnused ==
  \A id \in IDs : id > messageID => replyChan[id] = [buffer |-> 0, closed |-> FALSE]

\* A command that may still receive finds the reply in its channel once Run has sent it,
\* and whenever the channel is closed.
ReplyIsKept ==
  \A a \in Actors : MayReceive(a) =>
    /\ replyChan[call[a].id].closed => replyChan[call[a].id].buffer = 1
    /\ run.pc = "sent" /\ run.id = call[a].id => replyChan[call[a].id].buffer = 1

\* The watcher is registered from Notify to its deregistration; the channel it sends to is
\* closed later, and no PutSettings is under way then.
WakeUpOutlivesWatcher ==
  /\ notifying => watching
  /\ watching <=> monitor.pc \in {"firstLoad", "firstCheck", "select", "check", "load",
                                   "deregistering"}
  /\ wakeUp.closed => monitor.pc = "done"

NoZeroValue == \A a \in Actors : call[a].outcome # "zeroValue"

\* The inductive invariant.
DeviceInv ==
  /\ DTypeOK
  /\ CallsHaveIds /\ IdsDiffer
  /\ MonitorStartsOnce /\ ChecksBounded /\ IdsAreCounted
  /\ MapIsLive /\ RunHoldsOpen /\ LaterIdsUnused /\ ReplyIsKept
  /\ WakeUpOutlivesWatcher
  /\ NoZeroValue
  /\ ~ panicked

-----------------------------------------------------------------------------
(* The bound on the ids. *)

\* There are finitely many callers.
LEMMA ActorsFacts ==
  /\ Cardinality(Callers) \in Nat
  /\ IsFiniteSet(Callers)
BY CallersAssumption, FS_CardinalityType

\* A command that is about to take an id finds one: a caller takes one only, and each check
\* of the monitor one.
LEMMA InsertFits ==
  ASSUME DTypeOK, CallsHaveIds, ChecksBounded, IdsAreCounted,
         NEW a \in Actors, call[a].pc = "called"
  PROVE  messageID + 1 <= Cardinality(Callers) + MaxChecks
<1>1. /\ IsFiniteSet(WithId)
      /\ Cardinality(WithId) \in Nat
      /\ Cardinality(WithId) <= Cardinality(Callers)
  BY ActorsFacts, FS_Subset, FS_CardinalityType DEF WithId
<1>2. /\ call[Monitor].id # 0 => call[Monitor].pc # "idle"
      /\ monitor.pc \in {"firstCheck", "check"} => monitor.checks < MaxChecks
  BY CallersAssumption DEF CallsHaveIds, ChecksBounded, Actors
<1>3. CASE a \in Callers
  <2>1. WithId \subseteq Callers \ {a}
    BY DEF WithId, CallsHaveIds, Actors
  <2>2. /\ IsFiniteSet(Callers \ {a})
        /\ Cardinality(Callers \ {a}) = Cardinality(Callers) - 1
    BY <1>3, ActorsFacts, FS_RemoveElement
  <2>3. Cardinality(WithId) <= Cardinality(Callers) - 1
    BY <2>1, <2>2, FS_Subset
  <2>4. messageID <= Cardinality(WithId) + MaxChecks
    <3>1. CASE call[Monitor].id = 0
      BY <3>1, <1>1, CallersAssumption DEF IdsAreCounted, DTypeOK
    <3>2. CASE call[Monitor].id # 0
      <4>1. monitor.checks < MaxChecks
        BY <3>2, <1>2 DEF CallsHaveIds
      <4> QED
        BY <4>1, <3>2, <1>1, CallersAssumption DEF IdsAreCounted, DTypeOK
    <3> QED
      BY <3>1, <3>2
  <2> QED
    BY <2>3, <2>4, <1>1, ActorsFacts, CallersAssumption DEF DTypeOK
<1>4. CASE a = Monitor
  <2>1. call[Monitor].id = 0 /\ monitor.checks < MaxChecks
    BY <1>4, <1>2 DEF CallsHaveIds, Actors
  <2> QED
    BY <2>1, <1>1, ActorsFacts, CallersAssumption DEF IdsAreCounted, DTypeOK
<1> QED
  BY <1>3, <1>4 DEF Actors

\* Every step keeps the types.
LEMMA TypePreserved ==
  ASSUME DTypeOK, CallsHaveIds, ChecksBounded, IdsAreCounted, RunHoldsOpen, [DNext]_dVars
  PROVE  DTypeOK'
<1>b. call \in [Actors -> Calls]
  BY DEF DTypeOK
<1>c. replyChan \in [IDs -> Channels]
  BY DEF DTypeOK
<1> USE CallersAssumption
<1>1. ASSUME NEW a \in Actors, CheckAvailable(a) PROVE DTypeOK'
  <2>1. call' \in [Actors -> Calls]
    <3>1. call[a] \in Calls
      BY <1>b
    <3>2. /\ [call[a] EXCEPT !.pc = "called"] \in Calls
          /\ [call[a] EXCEPT !.pc = "returned", !.outcome = "unavailable"] \in Calls
      BY <3>1 DEF Calls
    <3>3. PICK after \in Calls : call' = [call EXCEPT ![a] = after]
      BY <1>1, <3>2 DEF CheckAvailable
    <3> QED
      BY <1>b, <3>3
  <2> QED
    BY <1>1, <2>1 DEF CheckAvailable, DTypeOK, callVars, monitorVars
<1>2. ASSUME NEW a \in Actors, Insert(a) PROVE DTypeOK'
  <2>1. messageID' = messageID + 1 /\ messageID' \in 1..(Cardinality(Callers) + MaxChecks)
    BY <1>2, InsertFits, ActorsFacts, CallersAssumption DEF Insert, DTypeOK
  <2>2. call' \in [Actors -> Calls]
    <3>1. call[a] \in Calls /\ messageID' \in IDs
      BY <1>b, <2>1 DEF IDs
    <3>2. [call[a] EXCEPT !.pc = "writing", !.id = messageID'] \in Calls
      BY <3>1 DEF Calls
    <3>3. call' = [call EXCEPT ![a] = [call[a] EXCEPT !.pc = "writing", !.id = messageID']]
      BY <1>2 DEF Insert
    <3> QED
      BY <1>b, <3>2, <3>3
  <2>3. messages' \subseteq 1..messageID'
    BY <1>2, <2>1, ActorsFacts, CallersAssumption DEF Insert, DTypeOK
  <2> QED
    BY <1>2, <2>1, <2>2, <2>3 DEF Insert, DTypeOK, callVars, monitorVars
<1>3. ASSUME NEW a \in Actors, WriteRequest(a) PROVE DTypeOK'
  <2>1. call' \in [Actors -> Calls]
    BY <1>3, <1>b DEF WriteRequest, Calls
  <2> QED
    BY <1>3, <2>1 DEF WriteRequest, DTypeOK, callVars, monitorVars
<1>4. ASSUME NEW a \in Actors, ReceiveReply(a) PROVE DTypeOK'
  <2>1. call' \in [Actors -> Calls]
    BY <1>4, <1>b DEF ReceiveReply, Calls
  <2>2. call[a].id \in IDs
    BY <1>4, <1>b DEF ReceiveReply, Calls, CallsHaveIds, Pending
  <2>3. replyChan' \in [IDs -> Channels]
    BY <1>4, <1>c, <2>2 DEF ReceiveReply, Channels
  <2> QED
    BY <1>4, <2>1, <2>3 DEF ReceiveReply, DTypeOK, callVars, monitorVars
<1>5. ASSUME NEW a \in Actors, GiveUp(a) PROVE DTypeOK'
  <2>1. PICK outcome \in {"timeout", "cancelled"} :
          call' = [call EXCEPT ![a].pc = "cleanup", ![a].outcome = outcome]
    BY <1>5 DEF GiveUp
  <2>2. call' \in [Actors -> Calls]
    <3>1. call[a] \in Calls
      BY <1>b
    <3>2. [call[a] EXCEPT !.pc = "cleanup", !.outcome = outcome] \in Calls
      BY <3>1 DEF Calls
    <3>3. call' = [call EXCEPT ![a] = [call[a] EXCEPT !.pc = "cleanup", !.outcome = outcome]]
      BY <2>1
    <3> QED
      BY <1>b, <3>2, <3>3
  <2> QED
    BY <1>5, <2>2 DEF GiveUp, DTypeOK, callVars, monitorVars
<1>6. ASSUME NEW a \in Actors, Cleanup(a) PROVE DTypeOK'
  <2>1. call' \in [Actors -> Calls]
    BY <1>6, <1>b DEF Cleanup, Calls
  <2>2. call[a].id \in IDs
    BY <1>6, <1>b DEF Cleanup, Calls, CallsHaveIds, Pending
  <2>3. replyChan' \in [IDs -> Channels]
    BY <1>6, <1>c, <2>2 DEF Cleanup, Channels
  <2>4. panicked' \in BOOLEAN
    BY <1>6, Zenon DEF Cleanup, DTypeOK
  <2> QED
    BY <1>6, <2>1, <2>3, <2>4 DEF Cleanup, DTypeOK, callVars, monitorVars
<1>7. ASSUME NEW id \in IDs, TakeReply(id) PROVE DTypeOK'
  BY <1>7 DEF TakeReply, DTypeOK, callVars, monitorVars
<1>8. CASE StartMonitor
  BY <1>8 DEF StartMonitor, DTypeOK, callVars, monitorVars
<1>9. CASE AllowCommands
  BY <1>9 DEF AllowCommands, DTypeOK, callVars, monitorVars
<1>10. CASE SendReply
  <2>1. run.id \in IDs
    BY <1>10 DEF SendReply, RunHoldsOpen, DTypeOK
  <2>2. replyChan' \in [IDs -> Channels]
    BY <1>10, <1>c, <2>1 DEF SendReply, HasRoom, Channels
  <2>3. panicked' \in BOOLEAN
    BY <1>10, Zenon DEF SendReply, DTypeOK
  <2> QED
    BY <1>10, <2>2, <2>3 DEF SendReply, DTypeOK, callVars, monitorVars
<1>11. CASE CloseReplyChan
  <2>1. run.id \in IDs
    BY <1>11 DEF CloseReplyChan, RunHoldsOpen, DTypeOK
  <2>2. replyChan' \in [IDs -> Channels]
    BY <1>11, <1>c, <2>1 DEF CloseReplyChan, Channels
  <2>3. panicked' \in BOOLEAN
    BY <1>11, Zenon DEF CloseReplyChan, DTypeOK
  <2> QED
    BY <1>11, <2>2, <2>3 DEF CloseReplyChan, DTypeOK, callVars, monitorVars
<1>12. CASE RefuseCommands
  BY <1>12 DEF RefuseCommands, DTypeOK, callVars, monitorVars
<1>13. CASE CancelRun
  BY <1>13 DEF CancelRun, DTypeOK, callVars, monitorVars
<1>14. CASE JoinMonitor
  BY <1>14 DEF JoinMonitor, DTypeOK, callVars, monitorVars
<1>15. CASE WatchSettings
  BY <1>15 DEF WatchSettings, DTypeOK, callVars, monitorVars
<1>16. CASE LoadSettings
  <2>1. PICK pc \in {"firstCheck", "select"} :
          monitor' = [monitor EXCEPT !.pc = pc, !.settings = settings]
    BY <1>16 DEF LoadSettings
  <2>2. monitor' \in [pc : {"off", "watching", "firstLoad", "firstCheck", "select", "check",
                           "load", "deregistering", "closing", "done"},
                     settings : 0..MaxReloads, checks : 0..MaxChecks]
    BY <2>1 DEF DTypeOK
  <2> QED
    BY <1>16, <2>2 DEF LoadSettings, DTypeOK, callVars
<1>17. CASE EndCheck
  <2>1. NoCall \in Calls
    BY DEF NoCall, Calls
  <2>2. call' \in [Actors -> Calls]
    BY <1>17, <1>b, <2>1 DEF EndCheck
  <2>3. monitor.checks + 1 \in 0..MaxChecks
    BY <1>17, CallersAssumption DEF EndCheck, ChecksBounded, DTypeOK
  <2>4. PICK pc \in {"select", "load"} :
          monitor' = [monitor EXCEPT !.pc = pc, !.checks = monitor.checks + 1]
    BY <1>17 DEF EndCheck, DTypeOK
  <2>5. monitor' \in [pc : {"off", "watching", "firstLoad", "firstCheck", "select", "check",
                           "load", "deregistering", "closing", "done"},
                     settings : 0..MaxReloads, checks : 0..MaxChecks]
    BY <2>3, <2>4 DEF DTypeOK
  <2> QED
    BY <1>17, <2>2, <2>5 DEF EndCheck, DTypeOK
<1>18. CASE WakeUp
  <2>1. wakeUp' \in Channels
    BY <1>18 DEF WakeUp, Channels, DTypeOK
  <2> QED
    BY <1>18, <2>1 DEF WakeUp, DTypeOK, callVars, monitorVars
<1>19. CASE Deregister
  BY <1>19 DEF Deregister, DTypeOK, callVars, monitorVars
<1>20. CASE CloseWakeUp
  <2>1. wakeUp' \in Channels
    BY <1>20 DEF CloseWakeUp, Channels, DTypeOK
  <2> QED
    BY <1>20, <2>1 DEF CloseWakeUp, DTypeOK, callVars, monitorVars
<1>21. CASE ReadFails
  BY <1>21 DEF ReadFails, DTypeOK, callVars, monitorVars
<1>22. CASE TimerFires
  BY <1>22 DEF TimerFires, DTypeOK, callVars, monitorVars
<1>23. CASE SeeCancel
  BY <1>23 DEF SeeCancel, DTypeOK, callVars, monitorVars
<1>24. CASE BeginPut
  BY <1>24 DEF BeginPut, DTypeOK, callVars, monitorVars
<1>25. CASE CallWatcher
  <2>1. wakeUp' \in Channels
    BY <1>25 DEF CallWatcher, Channels, DTypeOK
  <2>2. panicked' \in BOOLEAN
    BY <1>25, Zenon DEF CallWatcher, DTypeOK
  <2>3. notifying' \in BOOLEAN
    BY <1>25 DEF CallWatcher
  <2>4. UNCHANGED <<callVars, canRunCommands, run, runCtxDone, monitor, watching, settings>>
    BY <1>25 DEF CallWatcher
  <2> QED
    BY <2>1, <2>2, <2>3, <2>4 DEF DTypeOK, callVars
<1>26. CASE UNCHANGED dVars
  BY <1>26 DEF dVars, DTypeOK, callVars, monitorVars
<1> QED
  BY <1>1, <1>2, <1>3, <1>4, <1>5, <1>6, <1>7, <1>8, <1>9, <1>10, <1>11, <1>12, <1>13,
     <1>14, <1>15, <1>16, <1>17, <1>18, <1>19, <1>20, <1>21, <1>22, <1>23, <1>24, <1>25,
     <1>26
  DEF DNext, Command, RunSteps, MonitorSteps

\* Run starts the monitor and nobody else does.
LEMMA MonitorStartsOncePreserved ==
  ASSUME DTypeOK, MonitorStartsOnce, [DNext]_dVars
  PROVE  MonitorStartsOnce'
<1>b. monitor \in [pc : {"off", "watching", "firstLoad", "firstCheck", "select", "check",
                        "load", "deregistering", "closing", "done"},
                  settings : 0..MaxReloads, checks : 0..MaxChecks]
  BY DEF DTypeOK
<1>c. run \in [pc : {"new", "started", "reading", "sending", "sent", "stopping", "cancelling",
                    "joining", "done"},
              id : IDs \cup {0}]
  BY DEF DTypeOK
<1>1. ASSUME NEW a \in Actors, CheckAvailable(a) PROVE MonitorStartsOnce'
  BY <1>1, <1>b, <1>c DEF CheckAvailable, MonitorStartsOnce, callVars, monitorVars
<1>2. ASSUME NEW a \in Actors, Insert(a) PROVE MonitorStartsOnce'
  BY <1>2, <1>b, <1>c DEF Insert, MonitorStartsOnce, callVars, monitorVars
<1>3. ASSUME NEW a \in Actors, WriteRequest(a) PROVE MonitorStartsOnce'
  BY <1>3, <1>b, <1>c DEF WriteRequest, MonitorStartsOnce, callVars, monitorVars
<1>4. ASSUME NEW a \in Actors, ReceiveReply(a) PROVE MonitorStartsOnce'
  BY <1>4, <1>b, <1>c DEF ReceiveReply, MonitorStartsOnce, callVars, monitorVars
<1>5. ASSUME NEW a \in Actors, GiveUp(a) PROVE MonitorStartsOnce'
  BY <1>5, <1>b, <1>c DEF GiveUp, MonitorStartsOnce, callVars, monitorVars
<1>6. ASSUME NEW a \in Actors, Cleanup(a) PROVE MonitorStartsOnce'
  BY <1>6, <1>b, <1>c DEF Cleanup, MonitorStartsOnce, callVars, monitorVars
<1>7. ASSUME NEW id \in IDs, TakeReply(id) PROVE MonitorStartsOnce'
  BY <1>7, <1>b, <1>c DEF TakeReply, MonitorStartsOnce, callVars, monitorVars
<1>8. CASE StartMonitor
  BY <1>8, <1>b, <1>c DEF StartMonitor, MonitorStartsOnce, callVars, monitorVars
<1>9. CASE AllowCommands
  BY <1>9, <1>b, <1>c DEF AllowCommands, MonitorStartsOnce, callVars, monitorVars
<1>10. CASE SendReply
  BY <1>10, <1>b, <1>c DEF SendReply, MonitorStartsOnce, callVars, monitorVars
<1>11. CASE CloseReplyChan
  BY <1>11, <1>b, <1>c DEF CloseReplyChan, MonitorStartsOnce, callVars, monitorVars
<1>12. CASE RefuseCommands
  BY <1>12, <1>b, <1>c DEF RefuseCommands, MonitorStartsOnce, callVars, monitorVars
<1>13. CASE CancelRun
  BY <1>13, <1>b, <1>c DEF CancelRun, MonitorStartsOnce, callVars, monitorVars
<1>14. CASE JoinMonitor
  BY <1>14, <1>b, <1>c DEF JoinMonitor, MonitorStartsOnce, callVars, monitorVars
<1>15. CASE WatchSettings
  BY <1>15, <1>b, <1>c DEF WatchSettings, MonitorStartsOnce, callVars, monitorVars
<1>16. CASE LoadSettings
  BY <1>16, <1>b, <1>c DEF LoadSettings, MonitorStartsOnce, callVars, monitorVars
<1>17. CASE EndCheck
  BY <1>17, <1>b, <1>c DEF EndCheck, MonitorStartsOnce, callVars, monitorVars
<1>18. CASE WakeUp
  BY <1>18, <1>b, <1>c DEF WakeUp, MonitorStartsOnce, callVars, monitorVars
<1>19. CASE Deregister
  BY <1>19, <1>b, <1>c DEF Deregister, MonitorStartsOnce, callVars, monitorVars
<1>20. CASE CloseWakeUp
  BY <1>20, <1>b, <1>c DEF CloseWakeUp, MonitorStartsOnce, callVars, monitorVars
<1>21. CASE ReadFails
  BY <1>21, <1>b, <1>c DEF ReadFails, MonitorStartsOnce, callVars, monitorVars
<1>22. CASE TimerFires
  BY <1>22, <1>b, <1>c DEF TimerFires, MonitorStartsOnce, callVars, monitorVars
<1>23. CASE SeeCancel
  BY <1>23, <1>b, <1>c DEF SeeCancel, MonitorStartsOnce, callVars, monitorVars
<1>24. CASE BeginPut
  BY <1>24, <1>b, <1>c DEF BeginPut, MonitorStartsOnce, callVars, monitorVars
<1>25. CASE CallWatcher
  BY <1>25, <1>b, <1>c DEF CallWatcher, MonitorStartsOnce, callVars, monitorVars
<1>26. CASE UNCHANGED dVars
  BY <1>26, <1>b, <1>c DEF dVars, MonitorStartsOnce, callVars, monitorVars
<1> QED
  BY <1>1, <1>2, <1>3, <1>4, <1>5, <1>6, <1>7, <1>8, <1>9, <1>10, <1>11, <1>12, <1>13,
     <1>14, <1>15, <1>16, <1>17, <1>18, <1>19, <1>20, <1>21, <1>22, <1>23, <1>24, <1>25,
     <1>26
  DEF DNext, Command, RunSteps, MonitorSteps

\* A command has its id from Insert on, the monitor's until the check ends.
LEMMA CallsHaveIdsPreserved ==
  ASSUME DTypeOK, CallsHaveIds, MonitorStartsOnce, [DNext]_dVars
  PROVE  CallsHaveIds'
<1>b. call \in [Actors -> Calls] /\ messageID \in Nat
  BY ActorsFacts, CallersAssumption DEF DTypeOK
<1>c. monitor \in [pc : {"off", "watching", "firstLoad", "firstCheck", "select", "check",
                        "load", "deregistering", "closing", "done"},
                  settings : 0..MaxReloads, checks : 0..MaxChecks]
  BY DEF DTypeOK
<1> USE CallersAssumption
<1>1. ASSUME NEW a \in Actors, CheckAvailable(a) PROVE CallsHaveIds'
  BY <1>1, <1>b, <1>c DEF CheckAvailable, CallsHaveIds, Pending, Calls, Actors, NoCall,
     callVars, monitorVars
<1>2. ASSUME NEW a \in Actors, Insert(a) PROVE CallsHaveIds'
  BY <1>2, <1>b, <1>c DEF Insert, CallsHaveIds, Pending, Calls, Actors, NoCall,
     callVars, monitorVars
<1>3. ASSUME NEW a \in Actors, WriteRequest(a) PROVE CallsHaveIds'
  BY <1>3, <1>b, <1>c DEF WriteRequest, CallsHaveIds, Pending, Calls, Actors, NoCall,
     callVars, monitorVars
<1>4. ASSUME NEW a \in Actors, ReceiveReply(a) PROVE CallsHaveIds'
  BY <1>4, <1>b, <1>c DEF ReceiveReply, CallsHaveIds, Pending, Calls, Actors, NoCall,
     callVars, monitorVars
<1>5. ASSUME NEW a \in Actors, GiveUp(a) PROVE CallsHaveIds'
  BY <1>5, <1>b, <1>c DEF GiveUp, CallsHaveIds, Pending, Calls, Actors, NoCall,
     callVars, monitorVars
<1>6. ASSUME NEW a \in Actors, Cleanup(a) PROVE CallsHaveIds'
  BY <1>6, <1>b, <1>c DEF Cleanup, CallsHaveIds, Pending, Calls, Actors, NoCall,
     callVars, monitorVars
<1>7. ASSUME NEW id \in IDs, TakeReply(id) PROVE CallsHaveIds'
  BY <1>7, <1>b, <1>c DEF TakeReply, CallsHaveIds, Pending, Calls, Actors, NoCall,
     callVars, monitorVars
<1>8. CASE StartMonitor
  BY <1>8, <1>b, <1>c DEF StartMonitor, MonitorStartsOnce, CallsHaveIds, Pending, callVars,
     monitorVars
<1>9. CASE AllowCommands
  BY <1>9, <1>b, <1>c DEF AllowCommands, CallsHaveIds, Pending, Calls, Actors, NoCall,
     callVars, monitorVars
<1>10. CASE SendReply
  BY <1>10, <1>b, <1>c DEF SendReply, CallsHaveIds, Pending, Calls, Actors, NoCall,
     callVars, monitorVars
<1>11. CASE CloseReplyChan
  BY <1>11, <1>b, <1>c DEF CloseReplyChan, CallsHaveIds, Pending, Calls, Actors, NoCall,
     callVars, monitorVars
<1>12. CASE RefuseCommands
  BY <1>12, <1>b, <1>c DEF RefuseCommands, CallsHaveIds, Pending, Calls, Actors, NoCall,
     callVars, monitorVars
<1>13. CASE CancelRun
  BY <1>13, <1>b, <1>c DEF CancelRun, CallsHaveIds, Pending, Calls, Actors, NoCall,
     callVars, monitorVars
<1>14. CASE JoinMonitor
  BY <1>14, <1>b, <1>c DEF JoinMonitor, CallsHaveIds, Pending, Calls, Actors, NoCall,
     callVars, monitorVars
<1>15. CASE WatchSettings
  BY <1>15, <1>b, <1>c DEF WatchSettings, CallsHaveIds, Pending, Calls, Actors, NoCall,
     callVars, monitorVars
<1>16. CASE LoadSettings
  BY <1>16, <1>b, <1>c DEF LoadSettings, CallsHaveIds, Pending, Calls, Actors, NoCall,
     callVars, monitorVars
<1>17. CASE EndCheck
  BY <1>17, <1>b, <1>c DEF EndCheck, CallsHaveIds, Pending, Calls, Actors, NoCall,
     callVars, monitorVars
<1>18. CASE WakeUp
  BY <1>18, <1>b, <1>c DEF WakeUp, CallsHaveIds, Pending, Calls, Actors, NoCall,
     callVars, monitorVars
<1>19. CASE Deregister
  BY <1>19, <1>b, <1>c DEF Deregister, CallsHaveIds, Pending, Calls, Actors, NoCall,
     callVars, monitorVars
<1>20. CASE CloseWakeUp
  BY <1>20, <1>b, <1>c DEF CloseWakeUp, CallsHaveIds, Pending, Calls, Actors, NoCall,
     callVars, monitorVars
<1>21. CASE ReadFails
  BY <1>21, <1>b, <1>c DEF ReadFails, CallsHaveIds, Pending, Calls, Actors, NoCall,
     callVars, monitorVars
<1>22. CASE TimerFires
  BY <1>22, <1>b, <1>c DEF TimerFires, CallsHaveIds, Pending, Calls, Actors, NoCall,
     callVars, monitorVars
<1>23. CASE SeeCancel
  BY <1>23, <1>b, <1>c DEF SeeCancel, CallsHaveIds, Pending, Calls, Actors, NoCall,
     callVars, monitorVars
<1>24. CASE BeginPut
  BY <1>24, <1>b, <1>c DEF BeginPut, CallsHaveIds, Pending, Calls, Actors, NoCall,
     callVars, monitorVars
<1>25. CASE CallWatcher
  BY <1>25, <1>b, <1>c DEF CallWatcher, CallsHaveIds, Pending, Calls, Actors, NoCall,
     callVars, monitorVars
<1>26. CASE UNCHANGED dVars
  BY <1>26, <1>b, <1>c DEF dVars, CallsHaveIds, Pending, Calls, Actors, NoCall,
     callVars, monitorVars
<1> QED
  BY <1>1, <1>2, <1>3, <1>4, <1>5, <1>6, <1>7, <1>8, <1>9, <1>10, <1>11, <1>12, <1>13,
     <1>14, <1>15, <1>16, <1>17, <1>18, <1>19, <1>20, <1>21, <1>22, <1>23, <1>24, <1>25,
     <1>26
  DEF DNext, Command, RunSteps, MonitorSteps

\* The monitor's bound is looked at before a check begins.
LEMMA ChecksBoundedPreserved ==
  ASSUME DTypeOK, ChecksBounded, MonitorStartsOnce, [DNext]_dVars
  PROVE  ChecksBounded'
<1>b. monitor \in [pc : {"off", "watching", "firstLoad", "firstCheck", "select", "check",
                        "load", "deregistering", "closing", "done"},
                  settings : 0..MaxReloads, checks : 0..MaxChecks]
  BY DEF DTypeOK
<1> USE CallersAssumption
<1>1. ASSUME NEW a \in Actors, CheckAvailable(a) PROVE ChecksBounded'
  BY <1>1, <1>b DEF CheckAvailable, ChecksBounded, MonitorStartsOnce, callVars, monitorVars
<1>2. ASSUME NEW a \in Actors, Insert(a) PROVE ChecksBounded'
  BY <1>2, <1>b DEF Insert, ChecksBounded, MonitorStartsOnce, callVars, monitorVars
<1>3. ASSUME NEW a \in Actors, WriteRequest(a) PROVE ChecksBounded'
  BY <1>3, <1>b DEF WriteRequest, ChecksBounded, MonitorStartsOnce, callVars, monitorVars
<1>4. ASSUME NEW a \in Actors, ReceiveReply(a) PROVE ChecksBounded'
  BY <1>4, <1>b DEF ReceiveReply, ChecksBounded, MonitorStartsOnce, callVars, monitorVars
<1>5. ASSUME NEW a \in Actors, GiveUp(a) PROVE ChecksBounded'
  BY <1>5, <1>b DEF GiveUp, ChecksBounded, MonitorStartsOnce, callVars, monitorVars
<1>6. ASSUME NEW a \in Actors, Cleanup(a) PROVE ChecksBounded'
  BY <1>6, <1>b DEF Cleanup, ChecksBounded, MonitorStartsOnce, callVars, monitorVars
<1>7. ASSUME NEW id \in IDs, TakeReply(id) PROVE ChecksBounded'
  BY <1>7, <1>b DEF TakeReply, ChecksBounded, MonitorStartsOnce, callVars, monitorVars
<1>8. CASE StartMonitor
  BY <1>8, <1>b DEF StartMonitor, ChecksBounded, MonitorStartsOnce, callVars, monitorVars
<1>9. CASE AllowCommands
  BY <1>9, <1>b DEF AllowCommands, ChecksBounded, MonitorStartsOnce, callVars, monitorVars
<1>10. CASE SendReply
  BY <1>10, <1>b DEF SendReply, ChecksBounded, MonitorStartsOnce, callVars, monitorVars
<1>11. CASE CloseReplyChan
  BY <1>11, <1>b DEF CloseReplyChan, ChecksBounded, MonitorStartsOnce, callVars, monitorVars
<1>12. CASE RefuseCommands
  BY <1>12, <1>b DEF RefuseCommands, ChecksBounded, MonitorStartsOnce, callVars, monitorVars
<1>13. CASE CancelRun
  BY <1>13, <1>b DEF CancelRun, ChecksBounded, MonitorStartsOnce, callVars, monitorVars
<1>14. CASE JoinMonitor
  BY <1>14, <1>b DEF JoinMonitor, ChecksBounded, MonitorStartsOnce, callVars, monitorVars
<1>15. CASE WatchSettings
  BY <1>15, <1>b DEF WatchSettings, ChecksBounded, MonitorStartsOnce, callVars, monitorVars
<1>16. CASE LoadSettings
  BY <1>16, <1>b DEF LoadSettings, ChecksBounded, MonitorStartsOnce, callVars, monitorVars
<1>17. CASE EndCheck
  BY <1>17, <1>b DEF EndCheck, ChecksBounded, MonitorStartsOnce, callVars, monitorVars
<1>18. CASE WakeUp
  BY <1>18, <1>b DEF WakeUp, ChecksBounded, MonitorStartsOnce, callVars, monitorVars
<1>19. CASE Deregister
  BY <1>19, <1>b DEF Deregister, ChecksBounded, MonitorStartsOnce, callVars, monitorVars
<1>20. CASE CloseWakeUp
  BY <1>20, <1>b DEF CloseWakeUp, ChecksBounded, MonitorStartsOnce, callVars, monitorVars
<1>21. CASE ReadFails
  BY <1>21, <1>b DEF ReadFails, ChecksBounded, MonitorStartsOnce, callVars, monitorVars
<1>22. CASE TimerFires
  BY <1>22, <1>b DEF TimerFires, ChecksBounded, MonitorStartsOnce, callVars, monitorVars
<1>23. CASE SeeCancel
  BY <1>23, <1>b DEF SeeCancel, ChecksBounded, MonitorStartsOnce, callVars, monitorVars
<1>24. CASE BeginPut
  BY <1>24, <1>b DEF BeginPut, ChecksBounded, MonitorStartsOnce, callVars, monitorVars
<1>25. CASE CallWatcher
  BY <1>25, <1>b DEF CallWatcher, ChecksBounded, MonitorStartsOnce, callVars, monitorVars
<1>26. CASE UNCHANGED dVars
  BY <1>26, <1>b DEF dVars, ChecksBounded, MonitorStartsOnce, callVars, monitorVars
<1> QED
  BY <1>1, <1>2, <1>3, <1>4, <1>5, <1>6, <1>7, <1>8, <1>9, <1>10, <1>11, <1>12, <1>13,
     <1>14, <1>15, <1>16, <1>17, <1>18, <1>19, <1>20, <1>21, <1>22, <1>23, <1>24, <1>25,
     <1>26
  DEF DNext, Command, RunSteps, MonitorSteps

\* Insert takes an id that nobody had.
LEMMA IdsDifferPreserved ==
  ASSUME DTypeOK, CallsHaveIds, IdsDiffer, [DNext]_dVars
  PROVE  IdsDiffer'
<1>b. call \in [Actors -> Calls] /\ messageID \in Nat
  BY ActorsFacts, CallersAssumption DEF DTypeOK
<1> USE CallersAssumption
<1>1. ASSUME NEW a \in Actors, CheckAvailable(a) PROVE IdsDiffer'
  BY <1>1, <1>b DEF CheckAvailable, IdsDiffer, CallsHaveIds, Calls, Actors, NoCall, callVars
<1>2. ASSUME NEW a \in Actors, Insert(a) PROVE IdsDiffer'
  BY <1>2, <1>b DEF Insert, IdsDiffer, CallsHaveIds, Calls, Actors, NoCall, callVars
<1>3. ASSUME NEW a \in Actors, WriteRequest(a) PROVE IdsDiffer'
  BY <1>3, <1>b DEF WriteRequest, IdsDiffer, CallsHaveIds, Calls, Actors, NoCall, callVars
<1>4. ASSUME NEW a \in Actors, ReceiveReply(a) PROVE IdsDiffer'
  BY <1>4, <1>b DEF ReceiveReply, IdsDiffer, CallsHaveIds, Calls, Actors, NoCall, callVars
<1>5. ASSUME NEW a \in Actors, GiveUp(a) PROVE IdsDiffer'
  BY <1>5, <1>b DEF GiveUp, IdsDiffer, CallsHaveIds, Calls, Actors, NoCall, callVars
<1>6. ASSUME NEW a \in Actors, Cleanup(a) PROVE IdsDiffer'
  BY <1>6, <1>b DEF Cleanup, IdsDiffer, CallsHaveIds, Calls, Actors, NoCall, callVars
<1>7. ASSUME NEW id \in IDs, TakeReply(id) PROVE IdsDiffer'
  BY <1>7, <1>b DEF TakeReply, IdsDiffer, CallsHaveIds, Calls, Actors, NoCall, callVars
<1>8. CASE SendReply
  BY <1>8, <1>b DEF SendReply, IdsDiffer, CallsHaveIds, Calls, Actors, NoCall, callVars
<1>9. CASE CloseReplyChan
  BY <1>9, <1>b DEF CloseReplyChan, IdsDiffer, CallsHaveIds, Calls, Actors, NoCall, callVars
<1>10. CASE EndCheck
  BY <1>10, <1>b DEF EndCheck, IdsDiffer, CallsHaveIds, Calls, Actors, NoCall, callVars
<1>11. CASE StartMonitor \/ AllowCommands \/ RefuseCommands \/ CancelRun \/ JoinMonitor
           \/ ReadFails
  BY <1>11, <1>b DEF StartMonitor, AllowCommands, RefuseCommands, CancelRun, JoinMonitor,
     ReadFails, IdsDiffer, CallsHaveIds, Calls, Actors, NoCall, callVars
<1>12. CASE WatchSettings \/ LoadSettings \/ WakeUp \/ Deregister \/ CloseWakeUp
           \/ TimerFires \/ SeeCancel \/ BeginPut \/ CallWatcher
  BY <1>12, <1>b DEF WatchSettings, LoadSettings, WakeUp, Deregister, CloseWakeUp,
     TimerFires, SeeCancel, BeginPut, CallWatcher, IdsDiffer, CallsHaveIds, Calls, Actors,
     NoCall, callVars
<1>13. CASE UNCHANGED dVars
  BY <1>13, <1>b DEF dVars, IdsDiffer, CallsHaveIds, Calls, Actors, NoCall, callVars
<1> QED
  BY <1>1, <1>2, <1>3, <1>4, <1>5, <1>6, <1>7, <1>8, <1>9, <1>10, <1>11, <1>12, <1>13
  DEF DNext, Command, RunSteps, MonitorSteps

\* What neither takes an id nor ends a check leaves the count alone.
LEMMA SameIds ==
  ASSUME IdsAreCounted, messageID' = messageID, monitor'.checks = monitor.checks,
         \A b \in Actors : call'[b].id = call[b].id
  PROVE  IdsAreCounted'
<1>1. WithId' = WithId
  BY DEF WithId, Actors
<1> QED
  BY <1>1, CallersAssumption DEF IdsAreCounted, Actors

\* Insert adds a caller or belongs to a check; EndCheck counts a check, with an id or without.
LEMMA IdsAreCountedPreserved ==
  ASSUME DTypeOK, CallsHaveIds, IdsAreCounted, [DNext]_dVars
  PROVE  IdsAreCounted'
<1>b. call \in [Actors -> Calls]
  BY DEF DTypeOK
<1>c. messageID \in Nat /\ monitor.checks \in Nat
  BY ActorsFacts, CallersAssumption DEF DTypeOK
<1>d. IsFiniteSet(WithId) /\ Cardinality(WithId) \in Nat
  BY ActorsFacts, FS_Subset, FS_CardinalityType DEF WithId
<1>e. monitor = [monitor EXCEPT !.pc = monitor.pc]
  BY DEF DTypeOK
<1> USE CallersAssumption
<1>1. ASSUME NEW a \in Actors, CheckAvailable(a) PROVE IdsAreCounted'
  <2>1. /\ messageID' = messageID /\ monitor'.checks = monitor.checks
        /\ \A b \in Actors : call'[b].id = call[b].id
    BY <1>1, <1>b, <1>e DEF CheckAvailable, Calls, callVars, monitorVars
  <2> QED
    BY <2>1, SameIds
<1>2. ASSUME NEW a \in Actors, Insert(a) PROVE IdsAreCounted'
  <2>1. messageID' = messageID + 1 /\ call'[a].id # 0 /\ call[a].id = 0
    BY <1>2, <1>b, <1>c DEF Insert, CallsHaveIds
  <2>2. \A b \in Actors \ {a} : call'[b] = call[b]
    BY <1>2, <1>b DEF Insert
  <2>3. CASE a \in Callers
    <3>1. a \notin WithId /\ WithId' = WithId \cup {a} /\ call'[Monitor] = call[Monitor]
      BY <2>1, <2>2, <2>3 DEF WithId, Actors
    <3>2. Cardinality(WithId') = Cardinality(WithId) + 1
      BY <3>1, <1>d, FS_AddElement
    <3> QED
      BY <1>2, <2>1, <3>1, <3>2, <1>c, <1>d DEF Insert, IdsAreCounted, monitorVars
  <2>4. CASE a = Monitor
    <3>1. WithId' = WithId
      BY <2>2, <2>4 DEF WithId, Actors
    <3> QED
      BY <1>2, <2>1, <2>4, <3>1, <1>c, <1>d DEF Insert, IdsAreCounted, monitorVars
  <2> QED
    BY <2>3, <2>4 DEF Actors
<1>3. ASSUME NEW a \in Actors, WriteRequest(a) PROVE IdsAreCounted'
  <2>1. /\ messageID' = messageID /\ monitor'.checks = monitor.checks
        /\ \A b \in Actors : call'[b].id = call[b].id
    BY <1>3, <1>b, <1>e DEF WriteRequest, Calls, callVars, monitorVars
  <2> QED
    BY <2>1, SameIds
<1>4. ASSUME NEW a \in Actors, ReceiveReply(a) PROVE IdsAreCounted'
  <2>1. /\ messageID' = messageID /\ monitor'.checks = monitor.checks
        /\ \A b \in Actors : call'[b].id = call[b].id
    BY <1>4, <1>b, <1>e DEF ReceiveReply, Calls, callVars, monitorVars
  <2> QED
    BY <2>1, SameIds
<1>5. ASSUME NEW a \in Actors, GiveUp(a) PROVE IdsAreCounted'
  <2>1. /\ messageID' = messageID /\ monitor'.checks = monitor.checks
        /\ \A b \in Actors : call'[b].id = call[b].id
    BY <1>5, <1>b, <1>e DEF GiveUp, Calls, callVars, monitorVars
  <2> QED
    BY <2>1, SameIds
<1>6. ASSUME NEW a \in Actors, Cleanup(a) PROVE IdsAreCounted'
  <2>1. /\ messageID' = messageID /\ monitor'.checks = monitor.checks
        /\ \A b \in Actors : call'[b].id = call[b].id
    BY <1>6, <1>b, <1>e DEF Cleanup, Calls, callVars, monitorVars
  <2> QED
    BY <2>1, SameIds
<1>7. ASSUME NEW id \in IDs, TakeReply(id) PROVE IdsAreCounted'
  <2>1. /\ messageID' = messageID /\ monitor'.checks = monitor.checks
        /\ \A b \in Actors : call'[b].id = call[b].id
    BY <1>7, <1>b, <1>e DEF TakeReply, Calls, callVars, monitorVars
  <2> QED
    BY <2>1, SameIds
<1>8. CASE StartMonitor
  <2>1. /\ messageID' = messageID /\ monitor'.checks = monitor.checks
        /\ \A b \in Actors : call'[b].id = call[b].id
    BY <1>8, <1>b, <1>e DEF StartMonitor, Calls, callVars, monitorVars
  <2> QED
    BY <2>1, SameIds
<1>9. CASE AllowCommands
  <2>1. /\ messageID' = messageID /\ monitor'.checks = monitor.checks
        /\ \A b \in Actors : call'[b].id = call[b].id
    BY <1>9, <1>b, <1>e DEF AllowCommands, Calls, callVars, monitorVars
  <2> QED
    BY <2>1, SameIds
<1>10. CASE SendReply
  <2>1. /\ messageID' = messageID /\ monitor'.checks = monitor.checks
        /\ \A b \in Actors : call'[b].id = call[b].id
    BY <1>10, <1>b, <1>e DEF SendReply, Calls, callVars, monitorVars
  <2> QED
    BY <2>1, SameIds
<1>11. CASE CloseReplyChan
  <2>1. /\ messageID' = messageID /\ monitor'.checks = monitor.checks
        /\ \A b \in Actors : call'[b].id = call[b].id
    BY <1>11, <1>b, <1>e DEF CloseReplyChan, Calls, callVars, monitorVars
  <2> QED
    BY <2>1, SameIds
<1>12. CASE RefuseCommands
  <2>1. /\ messageID' = messageID /\ monitor'.checks = monitor.checks
        /\ \A b \in Actors : call'[b].id = call[b].id
    BY <1>12, <1>b, <1>e DEF RefuseCommands, Calls, callVars, monitorVars
  <2> QED
    BY <2>1, SameIds
<1>13. CASE CancelRun
  <2>1. /\ messageID' = messageID /\ monitor'.checks = monitor.checks
        /\ \A b \in Actors : call'[b].id = call[b].id
    BY <1>13, <1>b, <1>e DEF CancelRun, Calls, callVars, monitorVars
  <2> QED
    BY <2>1, SameIds
<1>14. CASE JoinMonitor
  <2>1. /\ messageID' = messageID /\ monitor'.checks = monitor.checks
        /\ \A b \in Actors : call'[b].id = call[b].id
    BY <1>14, <1>b, <1>e DEF JoinMonitor, Calls, callVars, monitorVars
  <2> QED
    BY <2>1, SameIds
<1>15. CASE WatchSettings
  <2>1. /\ messageID' = messageID /\ monitor'.checks = monitor.checks
        /\ \A b \in Actors : call'[b].id = call[b].id
    BY <1>15, <1>b, <1>e DEF WatchSettings, Calls, callVars, monitorVars
  <2> QED
    BY <2>1, SameIds
<1>16. CASE LoadSettings
  <2>1. /\ messageID' = messageID /\ monitor'.checks = monitor.checks
        /\ \A b \in Actors : call'[b].id = call[b].id
    BY <1>16, <1>b, <1>e DEF LoadSettings, Calls, callVars, monitorVars
  <2> QED
    BY <2>1, SameIds
<1>17. CASE EndCheck
  <2>1. WithId' = WithId
    BY <1>17, <1>b DEF EndCheck, WithId, Actors
  <2>2. call'[Monitor].id = 0 /\ monitor'.checks = monitor.checks + 1 /\ messageID' = messageID
    BY <1>17, <1>b, <1>c DEF EndCheck, Actors, NoCall
  <2> QED
    BY <2>1, <2>2, <1>c, <1>d DEF IdsAreCounted
<1>18. CASE WakeUp
  <2>1. /\ messageID' = messageID /\ monitor'.checks = monitor.checks
        /\ \A b \in Actors : call'[b].id = call[b].id
    BY <1>18, <1>b, <1>e DEF WakeUp, Calls, callVars, monitorVars
  <2> QED
    BY <2>1, SameIds
<1>19. CASE Deregister
  <2>1. /\ messageID' = messageID /\ monitor'.checks = monitor.checks
        /\ \A b \in Actors : call'[b].id = call[b].id
    BY <1>19, <1>b, <1>e DEF Deregister, Calls, callVars, monitorVars
  <2> QED
    BY <2>1, SameIds
<1>20. CASE CloseWakeUp
  <2>1. /\ messageID' = messageID /\ monitor'.checks = monitor.checks
        /\ \A b \in Actors : call'[b].id = call[b].id
    BY <1>20, <1>b, <1>e DEF CloseWakeUp, Calls, callVars, monitorVars
  <2> QED
    BY <2>1, SameIds
<1>21. CASE ReadFails
  <2>1. /\ messageID' = messageID /\ monitor'.checks = monitor.checks
        /\ \A b \in Actors : call'[b].id = call[b].id
    BY <1>21, <1>b, <1>e DEF ReadFails, Calls, callVars, monitorVars
  <2> QED
    BY <2>1, SameIds
<1>22. CASE TimerFires
  <2>1. /\ messageID' = messageID /\ monitor'.checks = monitor.checks
        /\ \A b \in Actors : call'[b].id = call[b].id
    BY <1>22, <1>b, <1>e DEF TimerFires, Calls, callVars, monitorVars
  <2> QED
    BY <2>1, SameIds
<1>23. CASE SeeCancel
  <2>1. /\ messageID' = messageID /\ monitor'.checks = monitor.checks
        /\ \A b \in Actors : call'[b].id = call[b].id
    BY <1>23, <1>b, <1>e DEF SeeCancel, Calls, callVars, monitorVars
  <2> QED
    BY <2>1, SameIds
<1>24. CASE BeginPut
  <2>1. /\ messageID' = messageID /\ monitor'.checks = monitor.checks
        /\ \A b \in Actors : call'[b].id = call[b].id
    BY <1>24, <1>b, <1>e DEF BeginPut, Calls, callVars, monitorVars
  <2> QED
    BY <2>1, SameIds
<1>25. CASE CallWatcher
  <2>1. /\ messageID' = messageID /\ monitor'.checks = monitor.checks
        /\ \A b \in Actors : call'[b].id = call[b].id
    BY <1>25, <1>b, <1>e DEF CallWatcher, Calls, callVars, monitorVars
  <2> QED
    BY <2>1, SameIds
<1>26. CASE UNCHANGED dVars
  <2>1. /\ messageID' = messageID /\ monitor'.checks = monitor.checks
        /\ \A b \in Actors : call'[b].id = call[b].id
    BY <1>26, <1>b, <1>e DEF dVars, Calls, callVars, monitorVars
  <2> QED
    BY <2>1, SameIds
<1> QED
  BY <1>1, <1>2, <1>3, <1>4, <1>5, <1>6, <1>7, <1>8, <1>9, <1>10, <1>11, <1>12, <1>13,
     <1>14, <1>15, <1>16, <1>17, <1>18, <1>19, <1>20, <1>21, <1>22, <1>23, <1>24, <1>25,
     <1>26
  DEF DNext, Command, RunSteps, MonitorSteps

\* The watcher is gone before the channel is closed, and Notify is called once.
LEMMA WakeUpPreserved ==
  ASSUME DTypeOK, WakeUpOutlivesWatcher, MonitorStartsOnce, [DNext]_dVars
  PROVE  WakeUpOutlivesWatcher'
<1>b. /\ wakeUp \in Channels
      /\ watching \in BOOLEAN /\ notifying \in BOOLEAN
  BY DEF DTypeOK
<1>c. monitor \in [pc : {"off", "watching", "firstLoad", "firstCheck", "select", "check",
                        "load", "deregistering", "closing", "done"},
                  settings : 0..MaxReloads, checks : 0..MaxChecks]
  BY DEF DTypeOK
<1> USE DEF Channels
<1>1. ASSUME NEW a \in Actors, CheckAvailable(a) PROVE WakeUpOutlivesWatcher'
  BY <1>1, <1>b, <1>c DEF CheckAvailable, WakeUpOutlivesWatcher, MonitorStartsOnce,
     callVars, monitorVars
<1>2. ASSUME NEW a \in Actors, Insert(a) PROVE WakeUpOutlivesWatcher'
  BY <1>2, <1>b, <1>c DEF Insert, WakeUpOutlivesWatcher, MonitorStartsOnce, callVars,
     monitorVars
<1>3. ASSUME NEW a \in Actors, WriteRequest(a) PROVE WakeUpOutlivesWatcher'
  BY <1>3, <1>b, <1>c DEF WriteRequest, WakeUpOutlivesWatcher, MonitorStartsOnce, callVars,
     monitorVars
<1>4. ASSUME NEW a \in Actors, ReceiveReply(a) PROVE WakeUpOutlivesWatcher'
  BY <1>4, <1>b, <1>c DEF ReceiveReply, WakeUpOutlivesWatcher, MonitorStartsOnce, callVars,
     monitorVars
<1>5. ASSUME NEW a \in Actors, GiveUp(a) PROVE WakeUpOutlivesWatcher'
  BY <1>5, <1>b, <1>c DEF GiveUp, WakeUpOutlivesWatcher, MonitorStartsOnce, callVars,
     monitorVars
<1>6. ASSUME NEW a \in Actors, Cleanup(a) PROVE WakeUpOutlivesWatcher'
  BY <1>6, <1>b, <1>c DEF Cleanup, WakeUpOutlivesWatcher, MonitorStartsOnce, callVars,
     monitorVars
<1>7. ASSUME NEW id \in IDs, TakeReply(id) PROVE WakeUpOutlivesWatcher'
  BY <1>7, <1>b, <1>c DEF TakeReply, WakeUpOutlivesWatcher, MonitorStartsOnce, callVars,
     monitorVars
<1>8. CASE StartMonitor
  BY <1>8, <1>b, <1>c DEF StartMonitor, WakeUpOutlivesWatcher, MonitorStartsOnce, callVars,
     monitorVars
<1>9. CASE AllowCommands
  BY <1>9, <1>b, <1>c DEF AllowCommands, WakeUpOutlivesWatcher, MonitorStartsOnce,
     callVars, monitorVars
<1>10. CASE SendReply
  BY <1>10, <1>b, <1>c DEF SendReply, WakeUpOutlivesWatcher, MonitorStartsOnce, callVars,
     monitorVars
<1>11. CASE CloseReplyChan
  BY <1>11, <1>b, <1>c DEF CloseReplyChan, WakeUpOutlivesWatcher, MonitorStartsOnce,
     callVars, monitorVars
<1>12. CASE RefuseCommands
  BY <1>12, <1>b, <1>c DEF RefuseCommands, WakeUpOutlivesWatcher, MonitorStartsOnce,
     callVars, monitorVars
<1>13. CASE CancelRun
  BY <1>13, <1>b, <1>c DEF CancelRun, WakeUpOutlivesWatcher, MonitorStartsOnce, callVars,
     monitorVars
<1>14. CASE JoinMonitor
  BY <1>14, <1>b, <1>c DEF JoinMonitor, WakeUpOutlivesWatcher, MonitorStartsOnce, callVars,
     monitorVars
<1>15. CASE WatchSettings
  BY <1>15, <1>b, <1>c DEF WatchSettings, WakeUpOutlivesWatcher, MonitorStartsOnce,
     callVars, monitorVars
<1>16. CASE LoadSettings
  BY <1>16, <1>b, <1>c DEF LoadSettings, WakeUpOutlivesWatcher, MonitorStartsOnce,
     callVars, monitorVars
<1>17. CASE EndCheck
  BY <1>17, <1>b, <1>c DEF EndCheck, WakeUpOutlivesWatcher, MonitorStartsOnce, callVars,
     monitorVars
<1>18. CASE WakeUp
  BY <1>18, <1>b, <1>c DEF WakeUp, WakeUpOutlivesWatcher, MonitorStartsOnce, callVars,
     monitorVars
<1>19. CASE Deregister
  BY <1>19, <1>b, <1>c DEF Deregister, WakeUpOutlivesWatcher, MonitorStartsOnce, callVars,
     monitorVars
<1>20. CASE CloseWakeUp
  BY <1>20, <1>b, <1>c DEF CloseWakeUp, WakeUpOutlivesWatcher, MonitorStartsOnce, callVars,
     monitorVars
<1>21. CASE ReadFails
  BY <1>21, <1>b, <1>c DEF ReadFails, WakeUpOutlivesWatcher, MonitorStartsOnce, callVars,
     monitorVars
<1>22. CASE TimerFires
  BY <1>22, <1>b, <1>c DEF TimerFires, WakeUpOutlivesWatcher, MonitorStartsOnce, callVars,
     monitorVars
<1>23. CASE SeeCancel
  BY <1>23, <1>b, <1>c DEF SeeCancel, WakeUpOutlivesWatcher, MonitorStartsOnce, callVars,
     monitorVars
<1>24. CASE BeginPut
  BY <1>24, <1>b, <1>c DEF BeginPut, WakeUpOutlivesWatcher, MonitorStartsOnce, callVars,
     monitorVars
<1>25. CASE CallWatcher
  BY <1>25, <1>b, <1>c DEF CallWatcher, WakeUpOutlivesWatcher, MonitorStartsOnce, callVars,
     monitorVars
<1>26. CASE UNCHANGED dVars
  BY <1>26, <1>b, <1>c DEF dVars, WakeUpOutlivesWatcher, MonitorStartsOnce, callVars,
     monitorVars
<1> QED
  BY <1>1, <1>2, <1>3, <1>4, <1>5, <1>6, <1>7, <1>8, <1>9, <1>10, <1>11, <1>12, <1>13,
     <1>14, <1>15, <1>16, <1>17, <1>18, <1>19, <1>20, <1>21, <1>22, <1>23, <1>24, <1>25,
     <1>26
  DEF DNext, Command, RunSteps, MonitorSteps

-----------------------------------------------------------------------------
(* The reply channels. *)

\* The parts of the state the channels' steps are about.
LEMMA ChannelTypes ==
  ASSUME DTypeOK
  PROVE  /\ call \in [Actors -> Calls] /\ replyChan \in [IDs -> Channels]
         /\ messageID \in Nat /\ IDs \subseteq Nat
         /\ messages \subseteq IDs /\ \A id \in messages : id <= messageID
         /\ run \in [pc : {"new", "started", "reading", "sending", "sent", "stopping",
                           "cancelling", "joining", "done"},
                     id : IDs \cup {0}]
         /\ 0 \notin IDs
BY ActorsFacts, CallersAssumption DEF DTypeOK, IDs

\* Insert: the new id is one that no channel, command or reply has.
InsertEffect(a) ==
  /\ messageID' = messageID + 1 /\ messageID' \in IDs
  /\ messages' = messages \cup {messageID'} /\ messageID' \notin messages
  /\ call'[a].pc = "writing" /\ call'[a].id = messageID'
  /\ call'[a].outcome = call[a].outcome
  /\ \A b \in Actors : b # a => call'[b] = call[b] /\ call[b].id # messageID'
  /\ replyChan[messageID'] = [buffer |-> 0, closed |-> FALSE]
  /\ run.pc \in {"sending", "sent"} => run.id # messageID'
  /\ UNCHANGED <<replyChan, run>>

LEMMA InsertDoes ==
  ASSUME DeviceInv, NEW a \in Actors, Insert(a)
  PROVE  InsertEffect(a)
<1>1. messageID' = messageID + 1 /\ messageID' \in IDs
  BY InsertFits, ActorsFacts, CallersAssumption DEF DeviceInv, Insert, IDs, DTypeOK
<1>2. messageID' > messageID
  BY <1>1, ChannelTypes DEF DeviceInv
<1>3. \A b \in Actors : call[b].id \in Nat /\ call[b].id <= messageID
  BY ChannelTypes DEF DeviceInv, CallsHaveIds, Calls
<1>4. /\ call'[a].pc = "writing" /\ call'[a].id = messageID'
      /\ call'[a].outcome = call[a].outcome
      /\ \A b \in Actors : b # a => call'[b] = call[b]
  BY ChannelTypes DEF DeviceInv, Insert, Calls
<1>5. run.pc \in {"sending", "sent"} => run.id # messageID'
  BY <1>2, ChannelTypes DEF DeviceInv, RunHoldsOpen
<1>6. replyChan[messageID'] = [buffer |-> 0, closed |-> FALSE]
  BY <1>1, <1>2 DEF DeviceInv, LaterIdsUnused
<1>7. messageID' \notin messages
  BY <1>2, ChannelTypes DEF DeviceInv
<1>8. \A b \in Actors : call[b].id # messageID'
  BY <1>1, <1>3, ChannelTypes DEF DeviceInv
<1> QED
  BY <1>1, <1>4, <1>5, <1>6, <1>7, <1>8 DEF Insert, InsertEffect

\* ReceiveReply: the channel of a waiting command is empty only while it is open, so what
\* the command receives is the reply.
ReceiveReplyEffect(a) ==
  /\ call[a].id \in IDs /\ call[a].id <= messageID
  /\ call[a].id \notin messages
  /\ ~ (run.pc = "sending" /\ run.id = call[a].id)
  /\ call'[a].pc = "cleanup" /\ call'[a].id = call[a].id /\ call'[a].outcome = "reply"
  /\ \A b \in Actors : b # a => call'[b] = call[b]
  /\ replyChan'[call[a].id].closed = replyChan[call[a].id].closed
  /\ \A id \in IDs : id # call[a].id => replyChan'[id] = replyChan[id]
  /\ UNCHANGED <<messageID, messages, run>>

LEMMA ReceiveReplyDoes ==
  ASSUME DeviceInv, NEW a \in Actors, ReceiveReply(a)
  PROVE  ReceiveReplyEffect(a)
<1> DEFINE i == call[a].id
<1>1. i \in IDs /\ i <= messageID
  BY ChannelTypes DEF DeviceInv, ReceiveReply, CallsHaveIds, Pending, Calls
<1>2. replyChan[i].buffer > 0
  BY <1>1, ChannelTypes DEF DeviceInv, ReceiveReply, ReplyIsKept, MayReceive, Channels
<1>3. /\ replyChan' = [replyChan EXCEPT ![i].buffer = @ - 1]
      /\ call' = [call EXCEPT ![a].pc = "cleanup", ![a].outcome = "reply"]
  BY <1>2 DEF ReceiveReply
<1>4. i \notin messages /\ ~ (run.pc = "sending" /\ run.id = i)
  BY <1>2, ChannelTypes DEF DeviceInv, MapIsLive, RunHoldsOpen
<1> QED
  BY <1>1, <1>3, <1>4, ChannelTypes DEF DeviceInv, ReceiveReply, Calls, Channels,
     ReceiveReplyEffect

\* Cleanup: the command closes its channel exactly if it was still in the map.
CleanupEffect(a) ==
  /\ call[a].id \in IDs /\ call[a].id <= messageID
  /\ call'[a].pc = "returned" /\ call'[a].id = call[a].id
  /\ call'[a].outcome = call[a].outcome
  /\ \A b \in Actors : b # a => call'[b] = call[b] /\ call[b].id # call[a].id
  /\ messages' = messages \ {call[a].id}
  /\ call[a].id \notin messages => replyChan'[call[a].id] = replyChan[call[a].id]
  /\ \A id \in IDs : id # call[a].id => replyChan'[id] = replyChan[id]
  /\ UNCHANGED <<messageID, run>>

LEMMA CleanupDoes ==
  ASSUME DeviceInv, NEW a \in Actors, Cleanup(a)
  PROVE  CleanupEffect(a)
<1>1. call[a].id \in IDs /\ call[a].id <= messageID /\ call[a].id # 0
  BY ChannelTypes DEF DeviceInv, Cleanup, CallsHaveIds, Pending, Calls
<1>2. /\ call'[a].pc = "returned" /\ call'[a].id = call[a].id
      /\ call'[a].outcome = call[a].outcome
      /\ \A b \in Actors : b # a => call'[b] = call[b]
  BY ChannelTypes DEF DeviceInv, Cleanup, Calls
<1>3. \A b \in Actors : b # a => call[b].id # call[a].id
  BY <1>1 DEF DeviceInv, IdsDiffer
<1>4. /\ call[a].id \notin messages => replyChan'[call[a].id] = replyChan[call[a].id]
      /\ \A id \in IDs : id # call[a].id => replyChan'[id] = replyChan[id]
  BY ChannelTypes DEF DeviceInv, Cleanup
<1> QED
  BY <1>1, <1>2, <1>3, <1>4 DEF Cleanup, CleanupEffect

\* SendReply: Run sends into an open channel that is not in the map any more.
SendReplyEffect ==
  /\ run'.pc = "sent" /\ run'.id = run.id
  /\ run.id \in IDs /\ run.id <= messageID /\ run.id \notin messages
  /\ replyChan'[run.id].buffer = 1 /\ ~ replyChan'[run.id].closed
  /\ \A id \in IDs : id # run.id => replyChan'[id] = replyChan[id]
  /\ UNCHANGED <<messageID, messages, call>>

LEMMA SendReplyDoes ==
  ASSUME DeviceInv, SendReply
  PROVE  SendReplyEffect
<1>1. run'.pc = "sent" /\ run'.id = run.id
  BY ChannelTypes DEF DeviceInv, SendReply
<1>2. /\ run.id \in IDs /\ run.id <= messageID /\ run.id \notin messages
      /\ ~ replyChan[run.id].closed /\ replyChan[run.id].buffer = 0
  BY ChannelTypes DEF DeviceInv, SendReply, RunHoldsOpen
<1>3. /\ replyChan'[run.id] = [replyChan[run.id] EXCEPT !.buffer = @ + 1]
      /\ \A id \in IDs : id # run.id => replyChan'[id] = replyChan[id]
  BY <1>2, ChannelTypes DEF DeviceInv, SendReply
<1>4. replyChan'[run.id].buffer = 1 /\ ~ replyChan'[run.id].closed
  BY <1>2, <1>3, ChannelTypes DEF DeviceInv, Channels
<1> QED
  BY <1>1, <1>2, <1>3, <1>4 DEF SendReply, SendReplyEffect

\* CloseReplyChan: Run closes an open channel, which holds the reply for a command that
\* still waits.
CloseReplyChanEffect ==
  /\ run'.pc = "reading"
  /\ run.id \in IDs /\ run.id <= messageID /\ run.id \notin messages
  /\ ~ replyChan[run.id].closed
  /\ replyChan'[run.id].buffer = replyChan[run.id].buffer
  /\ \A id \in IDs : id # run.id => replyChan'[id] = replyChan[id]
  /\ UNCHANGED <<messageID, messages, call>>

LEMMA CloseReplyChanDoes ==
  ASSUME DeviceInv, CloseReplyChan
  PROVE  CloseReplyChanEffect
<1>1. /\ run.id \in IDs /\ run.id <= messageID /\ run.id \notin messages
      /\ ~ replyChan[run.id].closed
  BY ChannelTypes DEF DeviceInv, CloseReplyChan, RunHoldsOpen
<1> QED
  BY <1>1, ChannelTypes DEF DeviceInv, CloseReplyChan, Channels, CloseReplyChanEffect

\* No step touches a channel that comes later.
LEMMA LaterIdsUnusedPreserved ==
  ASSUME DeviceInv, [DNext]_dVars
  PROVE  LaterIdsUnused'
<1>a. DTypeOK
  BY DEF DeviceInv
<1>b. /\ call \in [Actors -> Calls] /\ replyChan \in [IDs -> Channels]
      /\ messageID \in Nat /\ IDs \subseteq Nat
      /\ messages \subseteq IDs /\ \A id \in messages : id <= messageID
      /\ 0 \notin IDs
  BY <1>a, ChannelTypes
<1>c. run \in [pc : {"new", "started", "reading", "sending", "sent", "stopping", "cancelling",
                    "joining", "done"},
              id : IDs \cup {0}]
  BY <1>a, ChannelTypes
<1>d. \A b \in Actors :
        Pending(b) => call[b].id \in IDs /\ \A e \in Actors : call[e].id = call[b].id => e = b
  BY <1>b DEF DeviceInv, CallsHaveIds, IdsDiffer, Calls
<1>1. ASSUME NEW a \in Actors, CheckAvailable(a) PROVE LaterIdsUnused'
  BY <1>1, <1>b, <1>c DEF CheckAvailable, DeviceInv, LaterIdsUnused, Calls, NoCall, callVars
<1>2. ASSUME NEW a \in Actors, Insert(a) PROVE LaterIdsUnused'
  <2>1. InsertEffect(a)
    BY <1>2, InsertDoes
  <2> QED
    BY <2>1, <1>b, <1>d DEF InsertEffect, DeviceInv, LaterIdsUnused
<1>3. ASSUME NEW a \in Actors, WriteRequest(a) PROVE LaterIdsUnused'
  BY <1>3, <1>b, <1>c DEF WriteRequest, DeviceInv, LaterIdsUnused, Calls, NoCall, callVars
<1>4. ASSUME NEW a \in Actors, ReceiveReply(a) PROVE LaterIdsUnused'
  <2>1. ReceiveReplyEffect(a)
    BY <1>4, ReceiveReplyDoes
  <2>2. \A id \in IDs : id > messageID => replyChan'[id] = replyChan[id] /\ messageID' = messageID
    BY <2>1, <1>b DEF ReceiveReplyEffect
  <2> QED
    BY <2>2, <1>b, <2>1 DEF ReceiveReplyEffect, DeviceInv, LaterIdsUnused
<1>5. ASSUME NEW a \in Actors, GiveUp(a) PROVE LaterIdsUnused'
  BY <1>5, <1>b, <1>c DEF GiveUp, DeviceInv, LaterIdsUnused, Calls, NoCall, callVars
<1>6. ASSUME NEW a \in Actors, Cleanup(a) PROVE LaterIdsUnused'
  <2>1. CleanupEffect(a)
    BY <1>6, CleanupDoes
  <2>2. \A id \in IDs : id > messageID => replyChan'[id] = replyChan[id] /\ messageID' = messageID
    BY <2>1, <1>b DEF CleanupEffect
  <2> QED
    BY <2>2, <1>b, <2>1 DEF CleanupEffect, DeviceInv, LaterIdsUnused
<1>7. ASSUME NEW id \in IDs, TakeReply(id) PROVE LaterIdsUnused'
  BY <1>7, <1>b, <1>c DEF TakeReply, DeviceInv, LaterIdsUnused, Calls, NoCall, callVars
<1>8. CASE SendReply
  <2>1. SendReplyEffect
    BY <1>8, SendReplyDoes
  <2>2. run.id <= messageID /\ run.id \in IDs /\ messageID' = messageID
    BY <2>1 DEF SendReplyEffect
  <2>3. \A id \in IDs : id > messageID => id # run.id
    BY <2>2, <1>b
  <2>4. \A id \in IDs : id # run.id => replyChan'[id] = replyChan[id]
    BY <2>1 DEF SendReplyEffect
  <2> QED
    BY <2>2, <2>3, <2>4 DEF DeviceInv, LaterIdsUnused
<1>9. CASE CloseReplyChan
  <2>1. CloseReplyChanEffect
    BY <1>9, CloseReplyChanDoes
  <2>2. run.id <= messageID /\ run.id \in IDs /\ messageID' = messageID
    BY <2>1 DEF CloseReplyChanEffect
  <2>3. \A id \in IDs : id > messageID => id # run.id
    BY <2>2, <1>b
  <2>4. \A id \in IDs : id # run.id => replyChan'[id] = replyChan[id]
    BY <2>1 DEF CloseReplyChanEffect
  <2> QED
    BY <2>2, <2>3, <2>4 DEF DeviceInv, LaterIdsUnused
<1>10. CASE EndCheck
  BY <1>10, <1>b, <1>c DEF EndCheck, DeviceInv, LaterIdsUnused, Calls, NoCall, callVars
<1>11. CASE StartMonitor \/ AllowCommands \/ RefuseCommands \/ CancelRun \/ JoinMonitor
           \/ ReadFails
  BY <1>11, <1>b, <1>c DEF StartMonitor, AllowCommands, RefuseCommands, CancelRun,
     JoinMonitor, ReadFails, DeviceInv, LaterIdsUnused, Calls, NoCall, callVars
<1>12. CASE WatchSettings \/ LoadSettings \/ WakeUp \/ Deregister \/ CloseWakeUp
           \/ TimerFires \/ SeeCancel \/ BeginPut \/ CallWatcher
  BY <1>12, <1>b, <1>c DEF WatchSettings, LoadSettings, WakeUp, Deregister, CloseWakeUp,
     TimerFires, SeeCancel, BeginPut, CallWatcher, DeviceInv, LaterIdsUnused, Calls,
     NoCall, callVars
<1>13. CASE UNCHANGED dVars
  BY <1>13, <1>b, <1>c DEF dVars, DeviceInv, LaterIdsUnused, Calls, NoCall, callVars
<1> QED
  BY <1>1, <1>2, <1>3, <1>4, <1>5, <1>6, <1>7, <1>8, <1>9, <1>10, <1>11, <1>12, <1>13
  DEF DNext, Command, RunSteps, MonitorSteps

\* What takes an id out of the map, or ends its command, is the same party.
LEMMA MapIsLivePreserved ==
  ASSUME DeviceInv, [DNext]_dVars
  PROVE  MapIsLive'
<1>a. DTypeOK
  BY DEF DeviceInv
<1>b. /\ call \in [Actors -> Calls] /\ replyChan \in [IDs -> Channels]
      /\ messageID \in Nat /\ IDs \subseteq Nat
      /\ messages \subseteq IDs /\ \A id \in messages : id <= messageID
      /\ 0 \notin IDs
  BY <1>a, ChannelTypes
<1>c. run \in [pc : {"new", "started", "reading", "sending", "sent", "stopping", "cancelling",
                    "joining", "done"},
              id : IDs \cup {0}]
  BY <1>a, ChannelTypes
<1>d. \A b \in Actors :
        Pending(b) => call[b].id \in IDs /\ \A e \in Actors : call[e].id = call[b].id => e = b
  BY <1>b DEF DeviceInv, CallsHaveIds, IdsDiffer, Calls
<1>1. ASSUME NEW a \in Actors, CheckAvailable(a) PROVE MapIsLive'
  BY <1>1, <1>b, <1>c DEF CheckAvailable, DeviceInv, MapIsLive, RunHoldsOpen, RunHolds,
     Pending, Calls, NoCall, callVars
<1>2. ASSUME NEW a \in Actors, Insert(a) PROVE MapIsLive'
  <2>1. InsertEffect(a)
    BY <1>2, InsertDoes
  <2>2. ASSUME NEW id \in messages'
        PROVE  /\ ~ replyChan'[id].closed /\ replyChan'[id].buffer = 0
               /\ ~ RunHolds(id)'
    BY <2>1, <2>2 DEF InsertEffect, DeviceInv, MapIsLive, RunHolds
  <2>3. ASSUME NEW id \in messages'
        PROVE  \E b \in Actors : (call[b].id = id /\ Pending(b))'
    <3>1. CASE id = messageID'
      BY <3>1, <2>1 DEF InsertEffect, Pending
    <3>2. CASE id \in messages
      <4>1. PICK b \in Actors : call[b].id = id /\ Pending(b)
        BY <3>2 DEF DeviceInv, MapIsLive
      <4>2. b # a
        BY <4>1, <1>2 DEF Insert, Pending
      <4> QED
        BY <4>1, <4>2, <2>1 DEF InsertEffect, Pending
    <3> QED
      BY <2>3, <3>1, <3>2, <2>1 DEF InsertEffect
  <2> QED
    BY <2>2, <2>3 DEF MapIsLive
<1>3. ASSUME NEW a \in Actors, WriteRequest(a) PROVE MapIsLive'
  BY <1>3, <1>b, <1>c DEF WriteRequest, DeviceInv, MapIsLive, RunHoldsOpen, RunHolds,
     Pending, Calls, NoCall, callVars
<1>4. ASSUME NEW a \in Actors, ReceiveReply(a) PROVE MapIsLive'
  <2>1. ReceiveReplyEffect(a)
    BY <1>4, ReceiveReplyDoes
  <2> QED
    BY <2>1, <1>b, <1>d DEF ReceiveReplyEffect, DeviceInv, MapIsLive, RunHoldsOpen,
       RunHolds, Pending
<1>5. ASSUME NEW a \in Actors, GiveUp(a) PROVE MapIsLive'
  BY <1>5, <1>b, <1>c DEF GiveUp, DeviceInv, MapIsLive, RunHoldsOpen, RunHolds, Pending,
     Calls, NoCall, callVars
<1>6. ASSUME NEW a \in Actors, Cleanup(a) PROVE MapIsLive'
  <2>1. CleanupEffect(a)
    BY <1>6, CleanupDoes
  <2> QED
    BY <2>1, <1>b, <1>d DEF CleanupEffect, DeviceInv, MapIsLive, RunHoldsOpen, RunHolds,
       Pending
<1>7. ASSUME NEW id \in IDs, TakeReply(id) PROVE MapIsLive'
  BY <1>7, <1>b, <1>c DEF TakeReply, DeviceInv, MapIsLive, RunHoldsOpen, RunHolds, Pending,
     Calls, NoCall, callVars
<1>8. CASE SendReply
  <2>1. SendReplyEffect
    BY <1>8, SendReplyDoes
  <2>2. \A id \in messages : id # run.id /\ id \in IDs /\ replyChan'[id] = replyChan[id]
    BY <2>1, <1>b DEF SendReplyEffect
  <2>3. run'.id = run.id /\ messages' = messages /\ call' = call
    BY <2>1 DEF SendReplyEffect
  <2> QED
    BY <2>2, <2>3 DEF DeviceInv, MapIsLive, RunHolds, Pending
<1>9. CASE CloseReplyChan
  <2>1. CloseReplyChanEffect
    BY <1>9, CloseReplyChanDoes
  <2>2. \A id \in messages : id # run.id /\ id \in IDs /\ replyChan'[id] = replyChan[id]
    BY <2>1, <1>b DEF CloseReplyChanEffect
  <2>3. run'.pc = "reading" /\ messages' = messages /\ call' = call
    BY <2>1 DEF CloseReplyChanEffect
  <2> QED
    BY <2>2, <2>3 DEF DeviceInv, MapIsLive, RunHolds, Pending
<1>10. CASE EndCheck
  BY <1>10, <1>b, <1>c DEF EndCheck, DeviceInv, MapIsLive, RunHoldsOpen, RunHolds, Pending,
     Calls, NoCall, callVars
<1>11. CASE StartMonitor \/ AllowCommands \/ RefuseCommands \/ CancelRun \/ JoinMonitor
           \/ ReadFails
  BY <1>11, <1>b, <1>c DEF StartMonitor, AllowCommands, RefuseCommands, CancelRun,
     JoinMonitor, ReadFails, DeviceInv, MapIsLive, RunHoldsOpen, RunHolds, Pending, Calls,
     NoCall, callVars
<1>12. CASE WatchSettings \/ LoadSettings \/ WakeUp \/ Deregister \/ CloseWakeUp
           \/ TimerFires \/ SeeCancel \/ BeginPut \/ CallWatcher
  BY <1>12, <1>b, <1>c DEF WatchSettings, LoadSettings, WakeUp, Deregister, CloseWakeUp,
     TimerFires, SeeCancel, BeginPut, CallWatcher, DeviceInv, MapIsLive, RunHoldsOpen,
     RunHolds, Pending, Calls, NoCall, callVars
<1>13. CASE UNCHANGED dVars
  BY <1>13, <1>b, <1>c DEF dVars, DeviceInv, MapIsLive, RunHoldsOpen, RunHolds, Pending,
     Calls, NoCall, callVars
<1> QED
  BY <1>1, <1>2, <1>3, <1>4, <1>5, <1>6, <1>7, <1>8, <1>9, <1>10, <1>11, <1>12, <1>13
  DEF DNext, Command, RunSteps, MonitorSteps

\* Nobody but Run touches a channel that Run holds, but for the command that receives.
LEMMA RunHoldsOpenPreserved ==
  ASSUME DeviceInv, [DNext]_dVars
  PROVE  RunHoldsOpen'
<1>a. DTypeOK
  BY DEF DeviceInv
<1>b. /\ call \in [Actors -> Calls] /\ replyChan \in [IDs -> Channels]
      /\ messageID \in Nat /\ IDs \subseteq Nat
      /\ messages \subseteq IDs /\ \A id \in messages : id <= messageID
      /\ 0 \notin IDs
  BY <1>a, ChannelTypes
<1>c. run \in [pc : {"new", "started", "reading", "sending", "sent", "stopping", "cancelling",
                    "joining", "done"},
              id : IDs \cup {0}]
  BY <1>a, ChannelTypes
<1>d. \A b \in Actors :
        Pending(b) => call[b].id \in IDs /\ \A e \in Actors : call[e].id = call[b].id => e = b
  BY <1>b DEF DeviceInv, CallsHaveIds, IdsDiffer, Calls
<1>1. ASSUME NEW a \in Actors, CheckAvailable(a) PROVE RunHoldsOpen'
  BY <1>1, <1>b, <1>c DEF CheckAvailable, DeviceInv, RunHoldsOpen, MapIsLive, RunHolds,
     Calls, NoCall, callVars
<1>2. ASSUME NEW a \in Actors, Insert(a) PROVE RunHoldsOpen'
  <2>1. InsertEffect(a)
    BY <1>2, InsertDoes
  <2>2. run.id \in IDs /\ run.id <= messageID => run.id <= messageID'
    <3>1. messageID' = messageID + 1
      BY <2>1 DEF InsertEffect
    <3>2. messageID \in Nat /\ (run.id \in IDs => run.id \in Nat)
      BY <1>b
    <3> QED
      BY <3>1, <3>2
  <2> QED
    BY <2>1, <2>2 DEF InsertEffect, DeviceInv, RunHoldsOpen
<1>3. ASSUME NEW a \in Actors, WriteRequest(a) PROVE RunHoldsOpen'
  BY <1>3, <1>b, <1>c DEF WriteRequest, DeviceInv, RunHoldsOpen, MapIsLive, RunHolds,
     Calls, NoCall, callVars
<1>4. ASSUME NEW a \in Actors, ReceiveReply(a) PROVE RunHoldsOpen'
  <2>1. ReceiveReplyEffect(a)
    BY <1>4, ReceiveReplyDoes
  <2> QED
    BY <2>1, <1>b DEF ReceiveReplyEffect, DeviceInv, RunHoldsOpen, MapIsLive
<1>5. ASSUME NEW a \in Actors, GiveUp(a) PROVE RunHoldsOpen'
  BY <1>5, <1>b, <1>c DEF GiveUp, DeviceInv, RunHoldsOpen, MapIsLive, RunHolds, Calls,
     NoCall, callVars
<1>6. ASSUME NEW a \in Actors, Cleanup(a) PROVE RunHoldsOpen'
  <2>1. CleanupEffect(a)
    BY <1>6, CleanupDoes
  <2>2. CASE call[a].id \in messages
    BY <2>1, <2>2 DEF CleanupEffect, DeviceInv, RunHoldsOpen
  <2>3. CASE call[a].id \notin messages
    BY <2>1, <2>3 DEF CleanupEffect, DeviceInv, RunHoldsOpen
  <2> QED
    BY <2>2, <2>3
<1>7. ASSUME NEW id \in IDs, TakeReply(id) PROVE RunHoldsOpen'
  BY <1>7, <1>b, <1>c DEF TakeReply, DeviceInv, RunHoldsOpen, MapIsLive, RunHolds, Calls,
     NoCall, callVars
<1>8. CASE SendReply
  <2>1. SendReplyEffect
    BY <1>8, SendReplyDoes
  <2> QED
    BY <2>1, <1>b DEF SendReplyEffect, DeviceInv, RunHoldsOpen, MapIsLive
<1>9. CASE CloseReplyChan
  <2>1. CloseReplyChanEffect
    BY <1>9, CloseReplyChanDoes
  <2> QED
    BY <2>1, <1>b DEF CloseReplyChanEffect, DeviceInv, RunHoldsOpen, MapIsLive
<1>10. CASE EndCheck
  BY <1>10, <1>b, <1>c DEF EndCheck, DeviceInv, RunHoldsOpen, MapIsLive, RunHolds, Calls,
     NoCall, callVars
<1>11. CASE StartMonitor \/ AllowCommands \/ RefuseCommands \/ CancelRun \/ JoinMonitor
           \/ ReadFails
  BY <1>11, <1>b, <1>c DEF StartMonitor, AllowCommands, RefuseCommands, CancelRun,
     JoinMonitor, ReadFails, DeviceInv, RunHoldsOpen, MapIsLive, RunHolds, Calls, NoCall,
     callVars
<1>12. CASE WatchSettings \/ LoadSettings \/ WakeUp \/ Deregister \/ CloseWakeUp
           \/ TimerFires \/ SeeCancel \/ BeginPut \/ CallWatcher
  BY <1>12, <1>b, <1>c DEF WatchSettings, LoadSettings, WakeUp, Deregister, CloseWakeUp,
     TimerFires, SeeCancel, BeginPut, CallWatcher, DeviceInv, RunHoldsOpen, MapIsLive,
     RunHolds, Calls, NoCall, callVars
<1>13. CASE UNCHANGED dVars
  BY <1>13, <1>b, <1>c DEF dVars, DeviceInv, RunHoldsOpen, MapIsLive, RunHolds, Calls,
     NoCall, callVars
<1> QED
  BY <1>1, <1>2, <1>3, <1>4, <1>5, <1>6, <1>7, <1>8, <1>9, <1>10, <1>11, <1>12, <1>13
  DEF DNext, Command, RunSteps, MonitorSteps

\* Only the command itself takes the reply out of its channel.
LEMMA ReplyIsKeptPreserved ==
  ASSUME DeviceInv, [DNext]_dVars
  PROVE  ReplyIsKept'
<1>a. DTypeOK
  BY DEF DeviceInv
<1>b. /\ call \in [Actors -> Calls] /\ replyChan \in [IDs -> Channels]
      /\ messageID \in Nat /\ IDs \subseteq Nat
      /\ messages \subseteq IDs /\ \A id \in messages : id <= messageID
      /\ 0 \notin IDs
  BY <1>a, ChannelTypes
<1>c. run \in [pc : {"new", "started", "reading", "sending", "sent", "stopping", "cancelling",
                    "joining", "done"},
              id : IDs \cup {0}]
  BY <1>a, ChannelTypes
<1>d. \A b \in Actors :
        Pending(b) => call[b].id \in IDs /\ \A e \in Actors : call[e].id = call[b].id => e = b
  BY <1>b DEF DeviceInv, CallsHaveIds, IdsDiffer, Calls
<1>1. ASSUME NEW a \in Actors, CheckAvailable(a) PROVE ReplyIsKept'
  BY <1>1, <1>b, <1>c DEF CheckAvailable, DeviceInv, ReplyIsKept, MayReceive, MapIsLive,
     RunHoldsOpen, RunHolds, CallsHaveIds, Pending, IdsDiffer, Calls, NoCall, callVars
<1>2. ASSUME NEW a \in Actors, Insert(a) PROVE ReplyIsKept'
  <2>1. InsertEffect(a)
    BY <1>2, InsertDoes
  <2> QED
    BY <2>1, <1>b, <1>d DEF InsertEffect, DeviceInv, ReplyIsKept, MayReceive, MapIsLive,
       RunHoldsOpen, RunHolds, CallsHaveIds, Pending, IdsDiffer
<1>3. ASSUME NEW a \in Actors, WriteRequest(a) PROVE ReplyIsKept'
  BY <1>3, <1>b, <1>c DEF WriteRequest, DeviceInv, ReplyIsKept, MayReceive, MapIsLive,
     RunHoldsOpen, RunHolds, CallsHaveIds, Pending, IdsDiffer, Calls, NoCall, callVars
<1>4. ASSUME NEW a \in Actors, ReceiveReply(a) PROVE ReplyIsKept'
  <2>1. ReceiveReplyEffect(a)
    BY <1>4, ReceiveReplyDoes
  <2>2. ASSUME NEW b \in Actors, MayReceive(b)'
        PROVE  /\ b # a /\ MayReceive(b) /\ call'[b] = call[b]
               /\ call[b].id \in IDs /\ call[b].id # call[a].id
    BY <2>1, <2>2, <1>d DEF ReceiveReplyEffect, MayReceive, Pending
  <2>3. \A b \in Actors : MayReceive(b)' => replyChan'[call'[b].id] = replyChan[call[b].id]
    BY <2>1, <2>2 DEF ReceiveReplyEffect
  <2> QED
    BY <2>1, <2>2, <2>3 DEF ReceiveReplyEffect, DeviceInv, ReplyIsKept
<1>5. ASSUME NEW a \in Actors, GiveUp(a) PROVE ReplyIsKept'
  BY <1>5, <1>b, <1>c DEF GiveUp, DeviceInv, ReplyIsKept, MayReceive, MapIsLive,
     RunHoldsOpen, RunHolds, CallsHaveIds, Pending, IdsDiffer, Calls, NoCall, callVars
<1>6. ASSUME NEW a \in Actors, Cleanup(a) PROVE ReplyIsKept'
  <2>1. CleanupEffect(a)
    BY <1>6, CleanupDoes
  <2>2. ASSUME NEW b \in Actors, MayReceive(b)'
        PROVE  /\ b # a /\ MayReceive(b) /\ call'[b] = call[b]
               /\ call[b].id \in IDs /\ call[b].id # call[a].id
    BY <2>1, <2>2, <1>d DEF CleanupEffect, MayReceive, Pending
  <2>3. \A b \in Actors : MayReceive(b)' => replyChan'[call'[b].id] = replyChan[call[b].id]
    BY <2>1, <2>2 DEF CleanupEffect
  <2> QED
    BY <2>1, <2>2, <2>3 DEF CleanupEffect, DeviceInv, ReplyIsKept
<1>7. ASSUME NEW id \in IDs, TakeReply(id) PROVE ReplyIsKept'
  BY <1>7, <1>b, <1>c DEF TakeReply, DeviceInv, ReplyIsKept, MayReceive, MapIsLive,
     RunHoldsOpen, RunHolds, CallsHaveIds, Pending, IdsDiffer, Calls, NoCall, callVars
<1>8. CASE SendReply
  <2>1. SendReplyEffect
    BY <1>8, SendReplyDoes
  <2>2. ASSUME NEW b \in Actors, MayReceive(b)'
        PROVE  MayReceive(b) /\ call[b].id \in IDs /\ call'[b].id = call[b].id
    BY <2>1, <2>2, <1>d DEF SendReplyEffect, MayReceive, Pending
  <2> QED
    BY <2>1, <2>2 DEF SendReplyEffect, DeviceInv, ReplyIsKept
<1>9. CASE CloseReplyChan
  <2>1. CloseReplyChanEffect
    BY <1>9, CloseReplyChanDoes
  <2>2. ASSUME NEW b \in Actors, MayReceive(b)'
        PROVE  MayReceive(b) /\ call[b].id \in IDs /\ call'[b].id = call[b].id
    BY <2>1, <2>2, <1>d DEF CloseReplyChanEffect, MayReceive, Pending
  <2>3. \A b \in Actors : MayReceive(b) /\ call[b].id = run.id => replyChan[run.id].buffer = 1
    BY <1>9 DEF CloseReplyChan, DeviceInv, ReplyIsKept
  <2> QED
    BY <2>1, <2>2, <2>3 DEF CloseReplyChanEffect, DeviceInv, ReplyIsKept
<1>10. CASE EndCheck
  BY <1>10, <1>b, <1>c DEF EndCheck, DeviceInv, ReplyIsKept, MayReceive, MapIsLive,
     RunHoldsOpen, RunHolds, CallsHaveIds, Pending, IdsDiffer, Calls, NoCall, callVars
<1>11. CASE StartMonitor \/ AllowCommands \/ RefuseCommands \/ CancelRun \/ JoinMonitor
           \/ ReadFails
  BY <1>11, <1>b, <1>c DEF StartMonitor, AllowCommands, RefuseCommands, CancelRun,
     JoinMonitor, ReadFails, DeviceInv, ReplyIsKept, MayReceive, MapIsLive, RunHoldsOpen,
     RunHolds, CallsHaveIds, Pending, IdsDiffer, Calls, NoCall, callVars
<1>12. CASE WatchSettings \/ LoadSettings \/ WakeUp \/ Deregister \/ CloseWakeUp
           \/ TimerFires \/ SeeCancel \/ BeginPut \/ CallWatcher
  BY <1>12, <1>b, <1>c DEF WatchSettings, LoadSettings, WakeUp, Deregister, CloseWakeUp,
     TimerFires, SeeCancel, BeginPut, CallWatcher, DeviceInv, ReplyIsKept, MayReceive,
     MapIsLive, RunHoldsOpen, RunHolds, CallsHaveIds, Pending, IdsDiffer, Calls, NoCall,
     callVars
<1>13. CASE UNCHANGED dVars
  BY <1>13, <1>b, <1>c DEF dVars, DeviceInv, ReplyIsKept, MayReceive, MapIsLive,
     RunHoldsOpen, RunHolds, CallsHaveIds, Pending, IdsDiffer, Calls, NoCall, callVars
<1> QED
  BY <1>1, <1>2, <1>3, <1>4, <1>5, <1>6, <1>7, <1>8, <1>9, <1>10, <1>11, <1>12, <1>13
  DEF DNext, Command, RunSteps, MonitorSteps

\* No command receives the zero value.
LEMMA NoZeroPreserved ==
  ASSUME DeviceInv, [DNext]_dVars
  PROVE  NoZeroValue'
<1>a. DTypeOK
  BY DEF DeviceInv
<1>b. /\ call \in [Actors -> Calls] /\ replyChan \in [IDs -> Channels]
      /\ messageID \in Nat /\ IDs \subseteq Nat
      /\ messages \subseteq IDs /\ \A id \in messages : id <= messageID
      /\ 0 \notin IDs
  BY <1>a, ChannelTypes
<1>c. run \in [pc : {"new", "started", "reading", "sending", "sent", "stopping", "cancelling",
                    "joining", "done"},
              id : IDs \cup {0}]
  BY <1>a, ChannelTypes
<1>d. \A b \in Actors :
        Pending(b) => call[b].id \in IDs /\ \A e \in Actors : call[e].id = call[b].id => e = b
  BY <1>b DEF DeviceInv, CallsHaveIds, IdsDiffer, Calls
<1>1. ASSUME NEW a \in Actors, CheckAvailable(a) PROVE NoZeroValue'
  BY <1>1, <1>b, <1>c DEF CheckAvailable, DeviceInv, NoZeroValue, Calls, NoCall, callVars
<1>2. ASSUME NEW a \in Actors, Insert(a) PROVE NoZeroValue'
  <2>1. InsertEffect(a)
    BY <1>2, InsertDoes
  <2> QED
    BY <2>1 DEF InsertEffect, DeviceInv, NoZeroValue
<1>3. ASSUME NEW a \in Actors, WriteRequest(a) PROVE NoZeroValue'
  BY <1>3, <1>b, <1>c DEF WriteRequest, DeviceInv, NoZeroValue, Calls, NoCall, callVars
<1>4. ASSUME NEW a \in Actors, ReceiveReply(a) PROVE NoZeroValue'
  <2>1. ReceiveReplyEffect(a)
    BY <1>4, ReceiveReplyDoes
  <2> QED
    BY <2>1 DEF ReceiveReplyEffect, DeviceInv, NoZeroValue
<1>5. ASSUME NEW a \in Actors, GiveUp(a) PROVE NoZeroValue'
  BY <1>5, <1>b, <1>c DEF GiveUp, DeviceInv, NoZeroValue, Calls, NoCall, callVars
<1>6. ASSUME NEW a \in Actors, Cleanup(a) PROVE NoZeroValue'
  <2>1. CleanupEffect(a)
    BY <1>6, CleanupDoes
  <2> QED
    BY <2>1 DEF CleanupEffect, DeviceInv, NoZeroValue
<1>7. ASSUME NEW id \in IDs, TakeReply(id) PROVE NoZeroValue'
  BY <1>7, <1>b, <1>c DEF TakeReply, DeviceInv, NoZeroValue, Calls, NoCall, callVars
<1>8. CASE SendReply
  <2>1. SendReplyEffect
    BY <1>8, SendReplyDoes
  <2> QED
    BY <2>1 DEF SendReplyEffect, DeviceInv, NoZeroValue
<1>9. CASE CloseReplyChan
  <2>1. CloseReplyChanEffect
    BY <1>9, CloseReplyChanDoes
  <2> QED
    BY <2>1 DEF CloseReplyChanEffect, DeviceInv, NoZeroValue
<1>10. CASE EndCheck
  BY <1>10, <1>b, <1>c DEF EndCheck, DeviceInv, NoZeroValue, Calls, NoCall, callVars
<1>11. CASE StartMonitor \/ AllowCommands \/ RefuseCommands \/ CancelRun \/ JoinMonitor
           \/ ReadFails
  BY <1>11, <1>b, <1>c DEF StartMonitor, AllowCommands, RefuseCommands, CancelRun,
     JoinMonitor, ReadFails, DeviceInv, NoZeroValue, Calls, NoCall, callVars
<1>12. CASE WatchSettings \/ LoadSettings \/ WakeUp \/ Deregister \/ CloseWakeUp
           \/ TimerFires \/ SeeCancel \/ BeginPut \/ CallWatcher
  BY <1>12, <1>b, <1>c DEF WatchSettings, LoadSettings, WakeUp, Deregister, CloseWakeUp,
     TimerFires, SeeCancel, BeginPut, CallWatcher, DeviceInv, NoZeroValue, Calls, NoCall,
     callVars
<1>13. CASE UNCHANGED dVars
  BY <1>13, <1>b, <1>c DEF dVars, DeviceInv, NoZeroValue, Calls, NoCall, callVars
<1> QED
  BY <1>1, <1>2, <1>3, <1>4, <1>5, <1>6, <1>7, <1>8, <1>9, <1>10, <1>11, <1>12, <1>13
  DEF DNext, Command, RunSteps, MonitorSteps

\* No step sends on a closed channel or closes one.
LEMMA NoPanicPreserved ==
  ASSUME DeviceInv, [DNext]_dVars
  PROVE  ~ panicked'
<1>1. ASSUME NEW a \in Actors, CheckAvailable(a) PROVE ~ panicked'
  BY <1>1 DEF CheckAvailable, DeviceInv
<1>2. ASSUME NEW a \in Actors, Insert(a) PROVE ~ panicked'
  BY <1>2 DEF Insert, DeviceInv
<1>3. ASSUME NEW a \in Actors, WriteRequest(a) PROVE ~ panicked'
  BY <1>3 DEF WriteRequest, DeviceInv
<1>4. ASSUME NEW a \in Actors, ReceiveReply(a) PROVE ~ panicked'
  BY <1>4 DEF ReceiveReply, DeviceInv
<1>5. ASSUME NEW a \in Actors, GiveUp(a) PROVE ~ panicked'
  BY <1>5 DEF GiveUp, DeviceInv
<1>6. ASSUME NEW a \in Actors, Cleanup(a) PROVE ~ panicked'
  BY <1>6 DEF Cleanup, DeviceInv, MapIsLive
<1>7. ASSUME NEW id \in IDs, TakeReply(id) PROVE ~ panicked'
  BY <1>7 DEF TakeReply, DeviceInv
<1>8. CASE SendReply
  BY <1>8 DEF SendReply, DeviceInv, RunHoldsOpen
<1>9. CASE CloseReplyChan
  BY <1>9 DEF CloseReplyChan, DeviceInv, RunHoldsOpen
<1>10. CASE EndCheck
  BY <1>10 DEF EndCheck, DeviceInv
<1>11. CASE CallWatcher
  BY <1>11 DEF CallWatcher, DeviceInv, WakeUpOutlivesWatcher
<1>12. CASE StartMonitor \/ AllowCommands \/ RefuseCommands \/ CancelRun \/ JoinMonitor
           \/ ReadFails
  BY <1>12 DEF StartMonitor, AllowCommands, RefuseCommands, CancelRun, JoinMonitor,
     ReadFails, DeviceInv
<1>13. CASE WatchSettings \/ LoadSettings \/ WakeUp \/ Deregister \/ CloseWakeUp
           \/ TimerFires \/ SeeCancel \/ BeginPut
  BY <1>13 DEF WatchSettings, LoadSettings, WakeUp, Deregister, CloseWakeUp, TimerFires,
     SeeCancel, BeginPut, DeviceInv
<1>14. CASE UNCHANGED dVars
  BY <1>14 DEF dVars, DeviceInv
<1> QED
  BY <1>1, <1>2, <1>3, <1>4, <1>5, <1>6, <1>7, <1>8, <1>9, <1>10, <1>11, <1>12, <1>13,
     <1>14
  DEF DNext, Command, RunSteps, MonitorSteps

-----------------------------------------------------------------------------
(* The theorems. *)

\* The initial states satisfy the invariant: no id was taken, nothing was started.
LEMMA InvHoldsInitially == DInit => DeviceInv
<1> SUFFICES ASSUME DInit PROVE DeviceInv
  OBVIOUS
<1>1. Cardinality(Callers) + MaxChecks \in Nat
  BY ActorsFacts, CallersAssumption
<1>2. DTypeOK
  <2>1. NoCall \in Calls /\ [buffer |-> 0, closed |-> FALSE] \in Channels
    BY DEF NoCall, Calls, Channels
  <2>2. replyChan \in [IDs -> Channels] /\ call \in [Actors -> Calls] /\ wakeUp \in Channels
    BY <2>1 DEF DInit
  <2>3. /\ messageID \in 0..(Cardinality(Callers) + MaxChecks)
        /\ messages \subseteq 1..messageID
    BY <1>1 DEF DInit
  <2>4. 0 \in 0..MaxReloads /\ 0 \in 0..MaxChecks
    BY CallersAssumption
  <2> QED
    BY <2>2, <2>3, <2>4 DEF DInit, DTypeOK
<1>3. \A a \in Actors : call[a] = [pc |-> "idle", id |-> 0, outcome |-> "none"]
  BY DEF DInit, NoCall
<1>4. CallsHaveIds /\ IdsDiffer /\ ReplyIsKept /\ NoZeroValue
  BY <1>3, CallersAssumption DEF DInit, CallsHaveIds, IdsDiffer, ReplyIsKept, NoZeroValue,
     Pending, MayReceive, Actors
<1>5. IdsAreCounted
  <2>1. WithId = {} /\ call[Monitor].id = 0
    BY <1>3 DEF WithId, Actors
  <2> QED
    BY <2>1, FS_EmptySet DEF DInit, IdsAreCounted
<1>6. MonitorStartsOnce /\ ChecksBounded /\ MapIsLive /\ RunHoldsOpen /\ WakeUpOutlivesWatcher
  BY DEF DInit, MonitorStartsOnce, ChecksBounded, MapIsLive, RunHoldsOpen,
         WakeUpOutlivesWatcher
<1>7. LaterIdsUnused
  BY DEF DInit, LaterIdsUnused
<1> QED
  BY <1>2, <1>4, <1>5, <1>6, <1>7 DEF DInit, DeviceInv

\* Every step keeps it.
LEMMA InvPreserved ==
  ASSUME DeviceInv, [DNext]_dVars
  PROVE  DeviceInv'
BY TypePreserved, CallsHaveIdsPreserved, IdsDifferPreserved, MonitorStartsOncePreserved,
   ChecksBoundedPreserved, IdsAreCountedPreserved, MapIsLivePreserved, RunHoldsOpenPreserved,
   LaterIdsUnusedPreserved, ReplyIsKeptPreserved, WakeUpPreserved, NoZeroPreserved,
   NoPanicPreserved DEF DeviceInv

\* The invariant holds in every reachable state.
THEOREM DeviceCorrect == DSpec => []DeviceInv
BY InvHoldsInitially, InvPreserved, PTL DEF DSpec

\* executeCommand's deferred function, Run and a PutSettings never send on a closed channel
\* nor close one twice, however many callers there are, and the model's bounds on ids and
\* buffers are never reached from within: the types hold.
THEOREM NeverPanics == DSpec => []NoPanic
<1>1. DeviceInv => NoPanic
  BY DEF DeviceInv, NoPanic
<1> QED
  BY <1>1, DeviceCorrect, PTL

\* A command whose select receives has received the device's reply and never the zero value
\* of a closed channel; and the map holds the ids of pending commands only.
THEOREM RepliesAlwaysMatch == DSpec => []RepliesMatch
<1>1. DeviceInv => RepliesMatch
  BY DEF DeviceInv, NoZeroValue, MapIsLive, Pending, RepliesMatch
<1> QED
  BY <1>1, DeviceCorrect, PTL
=============================================================================
