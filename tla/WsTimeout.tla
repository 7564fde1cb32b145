------------------------------- MODULE WsTimeout -------------------------------
(***************************************************************************)
(* The read timeouts of a websocket connection (timeoutLoop in             *)
(* libs/ws/wsconn.go), from the moment its handler applies the first       *)
(* settings: the goroutine that pings and finds dead peers, the handler    *)
(* and its settings watcher, which replace the settings, and a peer.       *)
(*                                                                         *)
(* Time is a tick counter.  The computations of the loop and of the        *)
(* handler take no time: the clock stands still meanwhile.                 *)
(***************************************************************************)
EXTENDS Naturals

CONSTANTS
  Settings,     \* settings that may be applied: interval, pongWait, dataTimeout
  PongWithin,   \* the ticks a healthy peer takes to answer a ping
  MaxTime,      \* bound of the clock
  MaxReloads    \* bound: settings applied after the first ones

VARIABLES
  now,          \* the clock
  healthy,      \* whether the peer answers every ping
  ping,         \* Conn.pingSettings
  dataTimeout,  \* Conn.readDataTimeout
  wakeCh,       \* whether Conn.wakeCh is full
  setter,       \* where the goroutine that applies settings is, and which ones
  loop,         \* where timeoutLoop is, and the settings it loaded
  wakeAt,       \* when its timer fires
  lastPing,     \* when it pinged
  lastData,     \* the later of ConnectedAt and LastReceivedAt
  lastPong,     \* LastPongAt
  readErr,      \* Conn.readErr
  unanswered,   \* when the pings were sent that wait for a pong
  reloads,      \* how often settings were applied
  shortened     \* history: whether any of these made the ping timeout shorter

setterVars == <<ping, dataTimeout, setter, reloads, shortened>>
loopVars == <<loop, wakeAt, lastPing, readErr>>
peerVars == <<healthy, lastData, lastPong, unanswered>>
tVars == <<now, setterVars, wakeCh, loopVars, peerVars>>

ASSUME TimeoutAssumption ==
  /\ \A s \in Settings : /\ s.interval \in Nat \ {0}
                         /\ s.pongWait \in Nat \ {0}
                         /\ s.dataTimeout \in Nat
                         /\ PongWithin < s.pongWait
  /\ PongWithin \in Nat
  /\ MaxTime \in Nat
  /\ MaxReloads \in Nat

NoPing == [interval |-> 0, timeout |-> 0]
PingSettings(s) == [interval |-> s.interval, timeout |-> s.interval + s.pongWait]

\* The timer's idle hour is beyond the clock.
IdleWake == MaxTime + 1
TheLatest(a, b) == IF a > b THEN a ELSE b
TheEarliest(S) == CHOOSE t \in S : \A u \in S : t <= u

-----------------------------------------------------------------------------
(* SetPingSettings and SetReadDataTimeout, one after the other. *)

\* The first settings come right after the last message of the handshake.
StorePing ==
  /\ setter.pc = "idle"
  /\ reloads <= MaxReloads
  /\ reloads = 0 => lastData = now
  /\ \E s \in Settings : /\ ping' = PingSettings(s)
                         /\ shortened' = (shortened \/ PingSettings(s).timeout < ping.timeout)
                         /\ setter' = [pc |-> "signalPing", data |-> s.dataTimeout]
  /\ reloads' = reloads + 1
  /\ UNCHANGED <<now, dataTimeout, wakeCh, loopVars, peerVars>>

StoreData ==
  /\ setter.pc = "storeData"
  /\ dataTimeout' = setter.data
  /\ setter' = [setter EXCEPT !.pc = "signalData"]
  /\ UNCHANGED <<now, ping, reloads, shortened, wakeCh, loopVars, peerVars>>

\* signalTimeout
Signal ==
  /\ setter.pc \in {"signalPing", "signalData"}
  /\ wakeCh' = TRUE
  /\ setter' = [setter EXCEPT !.pc = IF @ = "signalPing" THEN "storeData" ELSE "idle"]
  /\ UNCHANGED <<now, ping, dataTimeout, reloads, shortened, loopVars, peerVars>>

-----------------------------------------------------------------------------
(* timeoutLoop *)

LoadPing ==
  /\ loop.pc = "loadPing"
  /\ loop' = [loop EXCEPT !.pc = "loadData", !.ping = ping]
  /\ UNCHANGED <<now, setterVars, wakeCh, wakeAt, lastPing, readErr, peerVars>>

LoadData ==
  /\ loop.pc = "loadData"
  /\ loop' = [loop EXCEPT !.pc = "ping", !.data = dataTimeout]
  /\ UNCHANGED <<now, setterVars, wakeCh, wakeAt, lastPing, readErr, peerVars>>

PingDue == loop.ping.interval > 0 /\ now - lastPing >= loop.ping.interval

SendPing ==
  /\ loop.pc = "ping"
  /\ IF PingDue
     THEN lastPing' = now /\ unanswered' = unanswered \cup {now}
     ELSE UNCHANGED <<lastPing, unanswered>>
  /\ loop' = [loop EXCEPT !.pc = "check"]
  /\ UNCHANGED <<now, setterVars, wakeCh, wakeAt, readErr, healthy, lastData, lastPong>>

\* A ping that cannot be written ends the loop.
PingFails ==
  /\ loop.pc = "ping"
  /\ PingDue
  /\ readErr' = "pingFailed"
  /\ loop' = [loop EXCEPT !.pc = "dead"]
  /\ UNCHANGED <<now, setterVars, wakeCh, wakeAt, lastPing, peerVars>>

\* checkTimeout: whether a timeout has passed since the last activity.
Dead(timeout, last) == timeout > 0 /\ now >= last + timeout

\* Wrong: a message does not stand for a pong.
LastSignOfLifePong == lastPong

LastSignOfLife == TheLatest(lastData, lastPong)

LastData == lastData

\* Wrong: sleeps without regard to the timeouts.
WakeUpForPing ==
  IF loop.ping.interval > 0 THEN lastPing + loop.ping.interval ELSE IdleWake

\* The earliest of what is scheduled; nothing is scheduled for the past.
WakeUpTime ==
  LET times == {lastPing + loop.ping.interval, LastSignOfLife + loop.ping.timeout,
                LastData + loop.data}
  IN  TheEarliest({IdleWake} \cup {t \in times : t > now})

\* The timestamps are read, the two timeouts checked, and the timer set.
CheckTimeouts ==
  /\ loop.pc = "check"
  /\ IF Dead(loop.ping.timeout, LastSignOfLife) \/ Dead(loop.data, LastData)
     THEN /\ loop' = [loop EXCEPT !.pc = "dead"]
          /\ readErr' = IF Dead(loop.ping.timeout, LastSignOfLife) THEN "readTimeout"
                        ELSE "dataTimeout"
          /\ UNCHANGED wakeAt
     ELSE /\ loop' = [loop EXCEPT !.pc = "select"]
          /\ wakeAt' = WakeUpTime
          /\ UNCHANGED readErr
  /\ UNCHANGED <<now, setterVars, wakeCh, lastPing, peerVars>>

TimerFires ==
  /\ loop.pc = "select"
  /\ now >= wakeAt
  /\ loop' = [loop EXCEPT !.pc = "loadPing"]
  /\ UNCHANGED <<now, setterVars, wakeCh, wakeAt, lastPing, readErr, peerVars>>

ReceiveWake ==
  /\ loop.pc = "select"
  /\ wakeCh
  /\ wakeCh' = FALSE
  /\ loop' = [loop EXCEPT !.pc = "loadPing"]
  /\ UNCHANGED <<now, setterVars, wakeAt, lastPing, readErr, peerVars>>

-----------------------------------------------------------------------------
(* The peer, the reader and time. *)

\* The reader stamps what it receives.
Message ==
  /\ lastData' = now
  /\ UNCHANGED <<now, setterVars, wakeCh, loopVars, healthy, lastPong, unanswered>>

Pong ==
  /\ unanswered # {}
  /\ unanswered' = unanswered \ {TheEarliest(unanswered)}
  /\ lastPong' = now
  /\ UNCHANGED <<now, setterVars, wakeCh, loopVars, healthy, lastData>>

Tick ==
  /\ now < MaxTime
  /\ loop.pc = "select" => now < wakeAt /\ ~ wakeCh
  /\ loop.pc \in {"select", "dead"}
  /\ setter.pc = "idle"
  /\ healthy => \A t \in unanswered : now < t + PongWithin
  /\ now' = now + 1
  /\ UNCHANGED <<setterVars, wakeCh, loopVars, peerVars>>

-----------------------------------------------------------------------------
(* The specification. *)

TInit ==
  /\ now = 0
  /\ ping = NoPing
  /\ dataTimeout = 0
  /\ wakeCh = FALSE
  /\ setter = [pc |-> "idle", data |-> 0]
  /\ loop = [pc |-> "loadPing", ping |-> NoPing, data |-> 0]
  /\ wakeAt = 0
  /\ lastPing = 0
  /\ healthy \in BOOLEAN
  /\ lastData = 0
  /\ lastPong = 0
  /\ readErr = "none"
  /\ unanswered = {}
  /\ reloads = 0
  /\ shortened = FALSE

TNext ==
  \/ StorePing
  \/ StoreData
  \/ Signal
  \/ LoadPing
  \/ LoadData
  \/ SendPing
  \/ PingFails
  \/ CheckTimeouts
  \/ TimerFires
  \/ ReceiveWake
  \/ Message
  \/ Pong
  \/ Tick

TSpec == TInit /\ [][TNext]_tVars

-----------------------------------------------------------------------------
(* Properties. *)

\* The types; the loop never ends without an error for the reader.
TTypeOK ==
  /\ now \in 0..MaxTime
  /\ healthy \in BOOLEAN
  /\ ping \in {NoPing} \cup {PingSettings(s) : s \in Settings}
  /\ dataTimeout \in {0} \cup {s.dataTimeout : s \in Settings}
  /\ wakeCh \in BOOLEAN
  /\ setter.pc \in {"idle", "signalPing", "storeData", "signalData"}
  /\ loop.pc \in {"loadPing", "loadData", "ping", "check", "select", "dead"}
  /\ wakeAt \in 0..IdleWake
  /\ lastPing \in 0..now /\ lastData \in 0..now /\ lastPong \in 0..now
  /\ readErr \in {"none", "pingFailed", "readTimeout", "dataTimeout"}
  /\ loop.pc = "dead" => readErr # "none"
  /\ unanswered \subseteq 0..now
  /\ reloads \in 0..(MaxReloads + 1)
  /\ shortened \in BOOLEAN

\* The loop sleeps and no settings are on their way to it.
Settled == loop.pc = "select" /\ ~ wakeCh /\ setter.pc \in {"idle", "storeData"}

\* The types hold; and nothing is overdue while the loop sleeps, whatever wakes it in
\* between and also right after the settings were replaced: a silent connection is
\* found dead when a timeout of the settings in force is over, and pings go out at
\* their interval.
NothingOverdue ==
  /\ TTypeOK
  /\ Settled => /\ ping.timeout > 0 => now <= TheLatest(lastData, lastPong) + ping.timeout
                /\ dataTimeout > 0 => now <= lastData + dataTimeout
                /\ ping.interval > 0 => now <= lastPing + ping.interval

\* A peer that answers every ping within pongWait is never taken for dead, also when
\* new settings are applied to what was recorded under the old ones; only settings
\* with a shorter timeout may find it overdue.
HealthySurvives == healthy /\ ~ shortened => readErr # "readTimeout"
=============================================================================
