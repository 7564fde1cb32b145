----------------------------- MODULE SessionProofs -----------------------------
(***************************************************************************)
(* Theorems about Session, for any number of requests and messages.        *)
(*                                                                         *)
(* An answer is looked up in the request tracker some time after the       *)
(* worker sent it, and meanwhile the controller's goroutine goes on.  The  *)
(* inductive invariant says which requests the tracker holds at each of    *)
(* these times.                                                            *)
(***************************************************************************)
EXTENDS Session, Sums, TLAPS

Places ==
  {"register", "track", "store", "add", "write", "read", "release", "once", "controller",
   "socket", "close", "returned", "process", "forward", "idle"}

\* What STypeOK leaves out.
PlacesTyped ==
  /\ pc \in [Goroutines -> Places]
  /\ answer \in Requests \cup {Unsolicited}
  /\ dropped \in Nat /\ late \in Nat

Preparing == pc["proxy"] \in {"register", "track", "store"}
Proxying == pc["proxy"] \in {"add", "write", "read", "release"}

\* The worker knows its controller from the first request on, and is counted as in use
\* until the last.
FirstTheController ==
  /\ ~ modeInfo <=> Preparing
  /\ ~ modeInfo => sent = {} /\ requests = {}
  /\ inUse = IF Proxying THEN 1 ELSE 0

\* ProxyController leaves no tracker behind, and the handler no connection.
LeftInOrder ==
  /\ ~ Preparing /\ ~ Proxying => tracker # "live"
  /\ tracker # "live" => requests = {}
  /\ pc["proxy"] \in {"controller", "socket", "close", "returned"} => ~ registered
  /\ pc["proxy"] = "returned" => ~ listed

\* Requests are sent in order, each once.
SentInOrder ==
  /\ \A r \in sent : r <= current
  /\ pc["proxy"] \in {"add", "write"} => current \notin sent

\* While it is live the tracker holds every request that waits for its answer, from before
\* it is sent until the answer is looked up.
TrackerHolds ==
  /\ pc["runner"] = "process" => answer \in answered \cup {Unsolicited}
  /\ tracker = "live" =>
       /\ sent \ answered \subseteq requests
       /\ pc["proxy"] = "write" => current \in requests
       /\ pc["runner"] = "process" /\ answer # Unsolicited => answer \in requests

\* The inductive invariant.
SessionInv ==
  /\ ResponsesAccounted
  /\ PlacesTyped /\ FirstTheController /\ LeftInOrder /\ SentInOrder /\ TrackerHolds

-----------------------------------------------------------------------------
(* Moving on. *)

LEMMA GoMoves ==
  ASSUME pc \in [Goroutines -> Places], NEW g \in Goroutines, NEW to \in Places, Go(g, to)
  PROVE  /\ pc' \in [Goroutines -> Places]
         /\ pc'[g] = to
         /\ \A h \in Goroutines \ {g} : pc'[h] = pc[h]
BY DEF Go

LEMMA SessionStart == SInit => SessionInv
<1> SUFFICES ASSUME SInit PROVE SessionInv
  OBVIOUS
<1>1. STypeOK
  <2>1. /\ open \subseteq {"worker", "controller"}
        /\ {registered, listed, modeInfo, background, missed} \subseteq BOOLEAN
    BY DEF SInit
  <2>2. current \in Requests /\ sent \subseteq Requests /\ requests \subseteq Requests
    BY SessionAssumption DEF SInit, Requests, Login
  <2>3. pc["proxy"] # "returned" /\ inUse \in {0, 1} /\ answered \subseteq sent
        /\ tracker \in {"none", "live", "done"}
    BY DEF SInit
  <2> QED
    BY <2>1, <2>2, <2>3 DEF STypeOK
<1>4. PlacesTyped
  BY SessionAssumption DEF SInit, PlacesTyped, Places, Goroutines, Unsolicited
<1>2. FirstTheController /\ LeftInOrder
  BY DEF SInit, FirstTheController, LeftInOrder, Preparing, Proxying
<1>3. SentInOrder /\ TrackerHolds /\ ResponsesAccounted
  BY <1>1 DEF SInit, SentInOrder, TrackerHolds, ResponsesAccounted
<1> QED
  BY <1>1, <1>2, <1>3, <1>4 DEF SessionInv

\* What the request tracker and the statistics are about.
RequestsKept ==
  UNCHANGED <<modeInfo, tracker, requests, current, inUse, sent, dropped, late, answer, answered>>

\* Connections may close and goroutines move on to where they hold no request.
OnlyMoves ==
  /\ RequestsKept
  /\ pc' \in [Goroutines -> Places]
  /\ Preparing' = Preparing /\ Proxying' = Proxying
  /\ pc'["proxy"] \in {"add", "write"} => pc'["proxy"] = pc["proxy"]
  /\ pc'["runner"] = "process" <=> pc["runner"] = "process"
  /\ open' \subseteq open
  /\ registered' \in BOOLEAN /\ (registered' => registered)
  /\ listed' \in BOOLEAN /\ background' \in BOOLEAN /\ missed' \in BOOLEAN
  /\ pc'["proxy"] \in {"controller", "socket", "close", "returned"} => ~ registered'
  /\ pc'["proxy"] = "returned" => ~ listed'

LEMMA OnlyMovesKeeps ==
  ASSUME SessionInv, OnlyMoves
  PROVE  SessionInv'
<1>1. PlacesTyped'
  BY DEF SessionInv, PlacesTyped, OnlyMoves, RequestsKept
<1>2. FirstTheController'
  BY DEF SessionInv, FirstTheController, OnlyMoves, RequestsKept
<1>3. LeftInOrder'
  BY DEF SessionInv, LeftInOrder, OnlyMoves, RequestsKept
<1>4. SentInOrder'
  BY DEF SessionInv, SentInOrder, OnlyMoves, RequestsKept
<1>5. TrackerHolds'
  BY DEF SessionInv, TrackerHolds, OnlyMoves, RequestsKept
<1>6. STypeOK'
  <2>1. pc'["proxy"] = "returned" =>
          inUse' = 0 /\ ~ registered' /\ ~ listed' /\ tracker' # "live"
    BY <1>2, <1>3 DEF FirstTheController, LeftInOrder, Preparing, Proxying
  <2>2. {registered', listed', modeInfo', background', missed'} \subseteq BOOLEAN
    BY DEF SessionInv, ResponsesAccounted, STypeOK, OnlyMoves, RequestsKept
  <2> QED
    BY <2>1, <2>2 DEF SessionInv, ResponsesAccounted, STypeOK, OnlyMoves, RequestsKept
<1>7. ResponsesAccounted'
  BY <1>6 DEF SessionInv, ResponsesAccounted, OnlyMoves, RequestsKept
<1> QED
  BY <1>1, <1>2, <1>3, <1>4, <1>5, <1>7 DEF SessionInv

\* Of the controller's goroutine: what it does without a request in hand.
LEMMA ProxyMoves ==
  ASSUME SessionInv,
         \/ RegisterController \/ ReadRequestFails \/ HandlerCloses
         \/ WriteRequest /\ "worker" \notin open
  PROVE  OnlyMoves
<1>1. /\ pc \in [Goroutines -> Places] /\ "proxy" \in Goroutines /\ "runner" \in Goroutines
      /\ {"track", "release", "returned"} \subseteq Places
      /\ registered \in BOOLEAN /\ listed \in BOOLEAN
      /\ background \in BOOLEAN /\ missed \in BOOLEAN
  BY DEF SessionInv, PlacesTyped, Goroutines, Places, ResponsesAccounted, STypeOK
<1>2. CASE RegisterController
  <2>1. pc["proxy"] = "register" /\ pc'["proxy"] = "track" /\ pc'["runner"] = pc["runner"]
        /\ pc' \in [Goroutines -> Places]
    BY <1>1, <1>2, GoMoves DEF RegisterController
  <2> QED
    BY <1>1, <1>2, <2>1 DEF RegisterController, OnlyMoves, RequestsKept, Preparing, Proxying,
                             proxyVars, statsVars, workerVars
<1>3. CASE ReadRequestFails
  <2>1. pc["proxy"] = "read" /\ pc'["proxy"] = "release" /\ pc'["runner"] = pc["runner"]
        /\ pc' \in [Goroutines -> Places]
    BY <1>1, <1>3, GoMoves DEF ReadRequestFails
  <2> QED
    BY <1>1, <1>3, <2>1 DEF ReadRequestFails, OnlyMoves, RequestsKept, Preparing, Proxying,
                             connVars, proxyVars, statsVars, workerVars
<1>4. CASE HandlerCloses
  <2>1. pc["proxy"] = "close" /\ pc'["proxy"] = "returned" /\ pc'["runner"] = pc["runner"]
        /\ pc' \in [Goroutines -> Places]
    BY <1>1, <1>4, GoMoves DEF HandlerCloses
  <2>2. ~ registered
    BY <2>1 DEF SessionInv, LeftInOrder
  <2>3. RequestsKept /\ UNCHANGED <<registered, background, missed>>
    BY <1>4 DEF HandlerCloses, RequestsKept, proxyVars, statsVars, workerVars
  <2>4. open' \subseteq open /\ listed' = FALSE
    BY <1>4 DEF HandlerCloses, CloseController
  <2>5. /\ listed' \in BOOLEAN /\ background' \in BOOLEAN /\ missed' \in BOOLEAN
        /\ registered' \in BOOLEAN /\ ~ listed' /\ ~ registered'
    BY <1>1, <2>2, <2>3, <2>4
  <2> QED
    BY <2>1, <2>2, <2>3, <2>4, <2>5 DEF OnlyMoves, Preparing, Proxying
<1>5. CASE WriteRequest /\ "worker" \notin open
  <2>1. /\ pc["proxy"] = "write" /\ Go("proxy", "release")
        /\ CloseController \/ UNCHANGED <<listed, open>>
        /\ UNCHANGED <<registered, background, missed, modeInfo, tracker, requests, current,
                       inUse, sent, statsVars, workerVars>>
    BY <1>5 DEF WriteRequest
  <2>2. pc'["proxy"] = "release" /\ pc'["runner"] = pc["runner"]
        /\ pc' \in [Goroutines -> Places]
    BY <1>1, <2>1, GoMoves
  <2>3. open' \subseteq open /\ listed' \in BOOLEAN
    BY <1>1, <2>1 DEF CloseController
  <2> QED
    BY <1>1, <2>1, <2>2, <2>3 DEF OnlyMoves, RequestsKept, Preparing, Proxying,
                             statsVars, workerVars
<1> QED
  BY <1>2, <1>3, <1>4, <1>5

\* A Close of the worker, of whoever calls it.
LEMMA ClosingMoves ==
  ASSUME SessionInv, NEW g \in Goroutines, CloseWorker(g)
  PROVE  OnlyMoves
<1>1. /\ pc \in [Goroutines -> Places] /\ "proxy" \in Goroutines /\ "runner" \in Goroutines
      /\ {"controller", "socket", "close", "returned"} \subseteq Places
      /\ registered \in BOOLEAN /\ listed \in BOOLEAN
      /\ background \in BOOLEAN /\ missed \in BOOLEAN
      /\ modeInfo \in BOOLEAN
  BY DEF SessionInv, PlacesTyped, Goroutines, Places, ResponsesAccounted, STypeOK
<1>2. RequestsKept
  BY DEF CloseWorker, CloseOnce, CloseItsController, CloseSocket, RequestsKept, proxyVars,
         statsVars, workerVars
<1>3. PICK to \in {"controller", "socket", "close", "returned"} :
        /\ Go(g, to) /\ pc[g] \in {"once", "controller", "socket"}
        /\ to = "returned" => g # "proxy"
        /\ g = "proxy" => (to = "controller" <=> pc[g] = "once")
  BY DEF CloseWorker, CloseOnce, CloseItsController, CloseSocket
<1>4. /\ pc' \in [Goroutines -> Places]
      /\ pc'[g] = to
      /\ \A h \in Goroutines \ {g} : pc'[h] = pc[h]
  BY <1>1, <1>3, GoMoves
<1>5. /\ Preparing' = Preparing /\ Proxying' = Proxying
      /\ pc'["proxy"] \in {"add", "write"} => pc'["proxy"] = pc["proxy"]
      /\ pc'["runner"] = "process" <=> pc["runner"] = "process"
      /\ pc'["proxy"] = "returned" => pc["proxy"] = "returned"
  BY <1>1, <1>3, <1>4 DEF Preparing, Proxying
<1>6. /\ open' \subseteq open
      /\ registered' \in BOOLEAN /\ (registered' => registered)
      /\ listed' \in BOOLEAN /\ background' \in BOOLEAN /\ missed' \in BOOLEAN
      /\ listed' => listed
  <2>1. CASE CloseOnce(g)
    BY <1>1, <2>1 DEF CloseOnce
  <2>2. CASE CloseItsController(g)
    <3>1. open' \subseteq open /\ (listed' = FALSE \/ listed' = listed)
      BY <2>2 DEF CloseItsController, CloseController
    <3>2. registered' = registered /\ background' = background
          /\ missed' = (missed \/ (g = "runner" /\ ~ modeInfo))
      BY <2>2 DEF CloseItsController
    <3>3. missed' \in BOOLEAN
      BY <3>2
    <3>4. listed' \in BOOLEAN /\ (listed' => listed)
      <4>1. CASE listed' = FALSE
        BY <4>1
      <4>2. CASE listed' = listed
        BY <1>1, <4>2
      <4> QED
        BY <3>1, <4>1, <4>2
    <3> QED
      BY <1>1, <3>1, <3>2, <3>3, <3>4
  <2>3. CASE CloseSocket(g)
    BY <1>1, <2>3 DEF CloseSocket
  <2> QED
    BY <2>1, <2>2, <2>3 DEF CloseWorker
<1>7. pc'["proxy"] \in {"controller", "socket", "close", "returned"} => ~ registered'
  <2>1. CASE g = "proxy"
    <3>1. CASE pc[g] = "once"
      BY <3>1 DEF CloseWorker, CloseOnce, CloseItsController, CloseSocket
    <3>2. CASE pc[g] # "once"
      BY <1>3, <1>6, <2>1, <3>2 DEF SessionInv, LeftInOrder
    <3> QED
      BY <3>1, <3>2
  <2>2. CASE g # "proxy"
    BY <1>1, <1>4, <1>6, <2>2 DEF SessionInv, LeftInOrder
  <2> QED
    BY <2>1, <2>2
<1>8. pc'["proxy"] = "returned" => ~ listed'
  BY <1>5, <1>6 DEF SessionInv, LeftInOrder
<1> QED
  BY <1>2, <1>4, <1>5, <1>6, <1>7, <1>8 DEF OnlyMoves

\* Connections that end, and those who are asked to end them.
LEMMA EndingMoves ==
  ASSUME SessionInv,
         \/ CloseInBackground \/ DisconnectWorker \/ DisconnectController
         \/ \E side \in {"worker", "controller"} : ConnectionFails(side)
  PROVE  OnlyMoves
<1>1. /\ pc \in [Goroutines -> Places] /\ {"proxy", "runner", "closer"} \subseteq Goroutines
      /\ "once" \in Places
      /\ registered \in BOOLEAN /\ listed \in BOOLEAN
      /\ background \in BOOLEAN /\ missed \in BOOLEAN
      /\ pc["proxy"] \in {"controller", "socket", "close", "returned"} => ~ registered
      /\ pc["proxy"] = "returned" => ~ listed
  BY DEF SessionInv, PlacesTyped, Goroutines, Places, ResponsesAccounted, STypeOK, LeftInOrder
<1>2. CASE DisconnectWorker
  <2>1. pc' \in [Goroutines -> Places] /\ pc'["proxy"] = pc["proxy"]
        /\ pc'["runner"] = pc["runner"]
    BY <1>1, <1>2, GoMoves DEF DisconnectWorker
  <2> QED
    BY <1>1, <1>2, <2>1 DEF DisconnectWorker, OnlyMoves, RequestsKept, Preparing, Proxying,
                             connVars, proxyVars, statsVars, workerVars
<1>3. ASSUME CloseInBackground \/ DisconnectController
             \/ \E side \in {"worker", "controller"} : ConnectionFails(side)
      PROVE  OnlyMoves
  <2>1. RequestsKept /\ pc' = pc /\ registered' = registered
    BY <1>3 DEF CloseInBackground, DisconnectController, ConnectionFails, RequestsKept,
                proxyVars, statsVars, workerVars
  <2>2. /\ open' \subseteq open /\ (listed' = FALSE \/ listed' = listed)
        /\ background' \in BOOLEAN /\ missed' = missed
    <3>1. CASE CloseInBackground
      BY <1>1, <3>1 DEF CloseInBackground, CloseController
    <3>2. CASE DisconnectController
      BY <1>1, <3>2 DEF DisconnectController
    <3>3. CASE \E side \in {"worker", "controller"} : ConnectionFails(side)
      BY <1>1, <3>3 DEF ConnectionFails
    <3> QED
      BY <1>3, <3>1, <3>2, <3>3
  <2>3. /\ listed' \in BOOLEAN /\ missed' \in BOOLEAN /\ registered' \in BOOLEAN
        /\ listed' => listed
    <3>1. CASE listed' = FALSE
      BY <1>1, <2>1, <2>2, <3>1
    <3>2. CASE listed' = listed
      BY <1>1, <2>1, <2>2, <3>2
    <3> QED
      BY <2>2, <3>1, <3>2
  <2> QED
    BY <1>1, <2>1, <2>2, <2>3 DEF OnlyMoves, Preparing, Proxying
<1> QED
  BY <1>2, <1>3

\* Of Worker.Run: what it does without an answer to look up.
LEMMA RunnerMoves ==
  ASSUME SessionInv, ReadAnswerFails \/ ForwardAnswer
  PROVE  OnlyMoves
<1>1. /\ pc \in [Goroutines -> Places] /\ "proxy" \in Goroutines /\ "runner" \in Goroutines
      /\ {"read", "once"} \subseteq Places
      /\ registered \in BOOLEAN /\ listed \in BOOLEAN
      /\ background \in BOOLEAN /\ missed \in BOOLEAN
      /\ pc["proxy"] \in {"controller", "socket", "close", "returned"} => ~ registered
      /\ pc["proxy"] = "returned" => ~ listed
  BY DEF SessionInv, PlacesTyped, Goroutines, Places, ResponsesAccounted, STypeOK, LeftInOrder
<1>2. PICK to \in {"read", "once"} : Go("runner", to)
  BY DEF ReadAnswerFails, ForwardAnswer
<1>3. /\ pc' \in [Goroutines -> Places] /\ pc'["proxy"] = pc["proxy"]
      /\ pc'["runner"] # "process" /\ pc["runner"] # "process"
  BY <1>1, <1>2, GoMoves DEF ReadAnswerFails, ForwardAnswer
<1> QED
  BY <1>1, <1>3 DEF ReadAnswerFails, ForwardAnswer, OnlyMoves, RequestsKept, Preparing, Proxying,
                    connVars, proxyVars, statsVars, workerVars

-----------------------------------------------------------------------------
(* What concerns requests. *)

\* The facts about types in one place.
LEMMA SessionTypes ==
  ASSUME SessionInv
  PROVE  /\ pc \in [Goroutines -> Places]
         /\ "proxy" \in Goroutines /\ "runner" \in Goroutines
         /\ {"store", "add", "write", "read", "release", "once", "process", "forward"}
              \subseteq Places
         /\ tracker \in {"none", "live", "done"}
         /\ requests \subseteq Requests /\ sent \subseteq Requests /\ answered \subseteq sent
         /\ current \in Requests /\ current \in Nat
         /\ answer \in Requests \cup {Unsolicited} /\ Unsolicited \notin Requests
         /\ inUse \in {0, 1} /\ dropped \in Nat /\ late \in Nat
<1>1. Requests \subseteq Nat /\ Unsolicited \notin Requests
  BY SessionAssumption DEF Requests, Unsolicited
<1> QED
  BY <1>1 DEF SessionInv, ResponsesAccounted, STypeOK, PlacesTyped, Places, Goroutines

\* A step that leaves the connections alone, and after which the controller's goroutine has
\* not returned.
LEMMA ConnectionsTyped ==
  ASSUME SessionInv, UNCHANGED <<open, registered, listed, background, missed>>,
         modeInfo' \in BOOLEAN, tracker' \in {"none", "live", "done"},
         requests' \subseteq Requests, current' \in Requests, sent' \subseteq Requests,
         answered' \subseteq sent', inUse' \in {0, 1},
         pc'["proxy"] # "returned" \/ UNCHANGED <<pc["proxy"], inUse, tracker>>
  PROVE  STypeOK'
<1>1. {registered', listed', modeInfo', background', missed'} \subseteq BOOLEAN
  BY DEF SessionInv, ResponsesAccounted, STypeOK
<1> QED
  BY <1>1 DEF SessionInv, ResponsesAccounted, STypeOK

LEMMA StoreTrackerKeeps ==
  ASSUME SessionInv, StoreTracker
  PROVE  SessionInv'
<1>1. /\ pc["proxy"] = "track" /\ pc'["proxy"] = "store" /\ pc'["runner"] = pc["runner"]
      /\ pc' \in [Goroutines -> Places]
  BY SessionTypes, GoMoves DEF StoreTracker
<1>2. /\ tracker' \in {"none", "live"}
      /\ UNCHANGED <<modeInfo, requests, current, inUse, sent, dropped, late, answer, answered>>
      /\ UNCHANGED <<open, registered, listed, background, missed>>
  BY DEF StoreTracker, connVars, statsVars, workerVars
<1>3. ~ modeInfo /\ sent = {} /\ requests = {} /\ answered = {}
  BY <1>1 DEF SessionInv, FirstTheController, Preparing, ResponsesAccounted
<1>4. STypeOK'
  <2>1. modeInfo \in BOOLEAN
    BY DEF SessionInv, ResponsesAccounted, STypeOK
  <2> QED
    BY <1>1, <1>2, <2>1, SessionTypes, ConnectionsTyped
<1>5. PlacesTyped' /\ ResponsesAccounted'
  BY <1>1, <1>2, <1>3, <1>4 DEF SessionInv, PlacesTyped, ResponsesAccounted
<1>6. FirstTheController' /\ LeftInOrder' /\ SentInOrder'
  BY <1>1, <1>2, <1>3
     DEF SessionInv, FirstTheController, LeftInOrder, SentInOrder, Preparing, Proxying
<1>7. TrackerHolds'
  BY <1>1, <1>2, <1>3 DEF SessionInv, TrackerHolds
<1> QED
  BY <1>5, <1>6, <1>7 DEF SessionInv

LEMMA StoreModeInfoKeeps ==
  ASSUME SessionInv, StoreModeInfo
  PROVE  SessionInv'
<1>1. /\ pc["proxy"] = "store" /\ pc'["proxy"] = "add" /\ pc'["runner"] = pc["runner"]
      /\ pc' \in [Goroutines -> Places]
  BY SessionTypes, GoMoves DEF StoreModeInfo
<1>2. /\ modeInfo' = TRUE /\ inUse' = inUse + 1 /\ current' = Login
      /\ UNCHANGED <<tracker, requests, sent, dropped, late, answer, answered>>
      /\ UNCHANGED <<open, registered, listed, background, missed>>
  BY DEF StoreModeInfo, connVars, statsVars, workerVars
<1>3. ~ modeInfo /\ sent = {} /\ requests = {} /\ answered = {} /\ inUse = 0
  BY <1>1 DEF SessionInv, FirstTheController, Preparing, Proxying, ResponsesAccounted
<1>4. STypeOK'
  <2>1. Login \in Requests
    BY SessionAssumption DEF Login, Requests
  <2> QED
    BY <1>1, <1>2, <1>3, <2>1, SessionTypes, ConnectionsTyped
<1>5. PlacesTyped' /\ ResponsesAccounted'
  BY <1>1, <1>2, <1>3, <1>4 DEF SessionInv, PlacesTyped, ResponsesAccounted
<1>6. FirstTheController' /\ LeftInOrder' /\ SentInOrder'
  BY <1>1, <1>2, <1>3
     DEF SessionInv, FirstTheController, LeftInOrder, SentInOrder, Preparing, Proxying
<1>7. TrackerHolds'
  BY <1>1, <1>2, <1>3 DEF SessionInv, TrackerHolds
<1> QED
  BY <1>5, <1>6, <1>7 DEF SessionInv

LEMMA AddRequestKeeps ==
  ASSUME SessionInv, AddRequest
  PROVE  SessionInv'
<1>1. /\ pc["proxy"] = "add" /\ pc'["proxy"] = "write" /\ pc'["runner"] = pc["runner"]
      /\ pc' \in [Goroutines -> Places]
  BY SessionTypes, GoMoves DEF AddRequest
<1>2. /\ requests' = IF tracker = "live" THEN requests \cup {current} ELSE requests
      /\ UNCHANGED <<modeInfo, tracker, current, inUse, sent, dropped, late, answer, answered>>
      /\ UNCHANGED <<open, registered, listed, background, missed>>
  BY DEF AddRequest, Add, connVars, statsVars, workerVars
<1>3. modeInfo /\ modeInfo \in BOOLEAN /\ current \notin answered
  BY <1>1, SessionTypes DEF SessionInv, FirstTheController, Preparing, SentInOrder,
                            ResponsesAccounted, STypeOK
<1>4. STypeOK'
  BY <1>1, <1>2, <1>3, SessionTypes, ConnectionsTyped
<1>5. PlacesTyped' /\ ResponsesAccounted'
  BY <1>1, <1>2, <1>3, <1>4 DEF SessionInv, PlacesTyped, ResponsesAccounted
<1>6. FirstTheController' /\ LeftInOrder' /\ SentInOrder'
  BY <1>1, <1>2, <1>3
     DEF SessionInv, FirstTheController, LeftInOrder, SentInOrder, Preparing, Proxying
<1>7. TrackerHolds'
  BY <1>1, <1>2, <1>3 DEF SessionInv, TrackerHolds
<1> QED
  BY <1>5, <1>6, <1>7 DEF SessionInv

LEMMA WriteRequestKeeps ==
  ASSUME SessionInv, WriteRequest, "worker" \in open
  PROVE  SessionInv'
<1>1. /\ pc["proxy"] = "write" /\ pc'["proxy"] = "read" /\ pc'["runner"] = pc["runner"]
      /\ pc' \in [Goroutines -> Places]
  BY SessionTypes, GoMoves DEF WriteRequest
<1>2. /\ sent' = sent \cup {current}
      /\ UNCHANGED <<modeInfo, tracker, requests, current, inUse, dropped, late, answer,
                     answered>>
      /\ UNCHANGED <<open, registered, listed, background, missed>>
  BY DEF WriteRequest, statsVars, workerVars
<1>3. modeInfo /\ modeInfo \in BOOLEAN
  BY <1>1 DEF SessionInv, FirstTheController, Preparing, ResponsesAccounted, STypeOK
<1>4. STypeOK'
  <2>1. sent' \subseteq Requests /\ answered' \subseteq sent'
    BY <1>2, SessionTypes
  <2> QED
    BY <1>1, <1>2, <1>3, <2>1, SessionTypes, ConnectionsTyped
<1>5. PlacesTyped' /\ ResponsesAccounted'
  BY <1>1, <1>2, <1>3, <1>4 DEF SessionInv, PlacesTyped, ResponsesAccounted
<1>6. FirstTheController' /\ LeftInOrder' /\ SentInOrder'
  BY <1>1, <1>2, <1>3, SessionTypes
     DEF SessionInv, FirstTheController, LeftInOrder, SentInOrder, Preparing, Proxying
<1>7. TrackerHolds'
  BY <1>1, <1>2 DEF SessionInv, TrackerHolds
<1> QED
  BY <1>5, <1>6, <1>7 DEF SessionInv

LEMMA ReadRequestKeeps ==
  ASSUME SessionInv, ReadRequest
  PROVE  SessionInv'
<1>1. /\ pc["proxy"] = "read" /\ pc'["proxy"] = "add" /\ pc'["runner"] = pc["runner"]
      /\ pc' \in [Goroutines -> Places]
  BY SessionTypes, GoMoves DEF ReadRequest
<1>2. /\ current' = current + 1 /\ current < MaxRequests
      /\ UNCHANGED <<modeInfo, tracker, requests, inUse, sent, dropped, late, answer, answered>>
      /\ UNCHANGED <<open, registered, listed, background, missed>>
  BY DEF ReadRequest, connVars, statsVars, workerVars
<1>3. modeInfo /\ modeInfo \in BOOLEAN
  BY <1>1 DEF SessionInv, FirstTheController, Preparing, ResponsesAccounted, STypeOK
<1>4. STypeOK'
  <2>1. current' \in Requests
    BY <1>2, SessionTypes, SessionAssumption DEF Requests
  <2> QED
    BY <1>1, <1>2, <1>3, <2>1, SessionTypes, ConnectionsTyped
<1>5. PlacesTyped' /\ ResponsesAccounted'
  BY <1>1, <1>2, <1>3, <1>4 DEF SessionInv, PlacesTyped, ResponsesAccounted
<1>6. FirstTheController' /\ LeftInOrder'
  BY <1>1, <1>2, <1>3 DEF SessionInv, FirstTheController, LeftInOrder, Preparing, Proxying
<1>7. SentInOrder'
  <2>1. \A r \in sent : r \in Nat /\ r <= current
    BY SessionTypes, SessionAssumption DEF SessionInv, SentInOrder, Requests
  <2>2. \A r \in sent : r <= current + 1 /\ r # current + 1
    BY <2>1, SessionTypes
  <2> QED
    BY <1>2, <2>2 DEF SentInOrder
<1>8. TrackerHolds'
  BY <1>1, <1>2 DEF SessionInv, TrackerHolds
<1> QED
  BY <1>5, <1>6, <1>7, <1>8 DEF SessionInv

LEMMA ReleaseKeeps ==
  ASSUME SessionInv, Release
  PROVE  SessionInv'
<1>1. /\ pc["proxy"] = "release" /\ pc'["proxy"] = "once" /\ pc'["runner"] = pc["runner"]
      /\ pc' \in [Goroutines -> Places]
  BY SessionTypes, GoMoves DEF Release
<1>2. /\ inUse' = inUse - 1 /\ requests' = {}
      /\ tracker' = IF tracker = "none" THEN "none" ELSE "done"
      /\ UNCHANGED <<modeInfo, current, sent, dropped, late, answer, answered>>
      /\ UNCHANGED <<open, registered, listed, background, missed>>
  BY DEF Release, connVars, statsVars, workerVars
<1>3. modeInfo /\ modeInfo \in BOOLEAN /\ inUse = 1
  BY <1>1 DEF SessionInv, FirstTheController, Preparing, Proxying, ResponsesAccounted, STypeOK
<1>4. STypeOK'
  BY <1>1, <1>2, <1>3, SessionTypes, ConnectionsTyped
<1>5. PlacesTyped' /\ ResponsesAccounted'
  BY <1>1, <1>2, <1>3, <1>4 DEF SessionInv, PlacesTyped, ResponsesAccounted
<1>6. FirstTheController' /\ LeftInOrder' /\ SentInOrder'
  BY <1>1, <1>2, <1>3
     DEF SessionInv, FirstTheController, LeftInOrder, SentInOrder, Preparing, Proxying
<1>7. TrackerHolds'
  BY <1>1, <1>2 DEF SessionInv, TrackerHolds
<1> QED
  BY <1>5, <1>6, <1>7 DEF SessionInv

\* An answer is to a request that the tracker holds; nobody else waits for being looked up.
LEMMA ReadAnswerKeeps ==
  ASSUME SessionInv, NEW r \in Requests \cup {Unsolicited}, ReadAnswer(r)
  PROVE  SessionInv'
<1>1. /\ pc["runner"] = "read" /\ pc'["proxy"] = pc["proxy"]
      /\ pc'["runner"] = (IF modeInfo THEN "process" ELSE "once")
      /\ pc' \in [Goroutines -> Places]
  BY SessionTypes, GoMoves DEF ReadAnswer
<1>2. /\ answer' = r
      /\ r = Unsolicited => answered' = answered
      /\ r # Unsolicited => r \in sent \ answered /\ answered' = answered \cup {r}
      /\ UNCHANGED <<modeInfo, tracker, requests, current, inUse, sent, dropped, late>>
      /\ UNCHANGED <<open, registered, listed, background, missed>>
  BY DEF ReadAnswer, WorkerSends, connVars, proxyVars, statsVars
<1>3. modeInfo \in BOOLEAN /\ (r # Unsolicited => modeInfo)
  BY <1>2 DEF SessionInv, FirstTheController, ResponsesAccounted, STypeOK
<1>4. requests \cap answered = {}
  BY <1>1 DEF SessionInv, ResponsesAccounted
<1>5. STypeOK'
  <2>1. answered' \subseteq sent'
    BY <1>2, SessionTypes
  <2> QED
    BY <1>1, <1>2, <1>3, <2>1, SessionTypes, ConnectionsTyped
<1>6. PlacesTyped'
  BY <1>1, <1>2 DEF SessionInv, PlacesTyped
<1>7. ResponsesAccounted'
  BY <1>1, <1>2, <1>3, <1>4, <1>5 DEF SessionInv, ResponsesAccounted
<1>8. FirstTheController' /\ LeftInOrder' /\ SentInOrder'
  BY <1>1, <1>2
     DEF SessionInv, FirstTheController, LeftInOrder, SentInOrder, Preparing, Proxying
<1>9. TrackerHolds'
  BY <1>1, <1>2, SessionTypes DEF SessionInv, TrackerHolds
<1> QED
  BY <1>6, <1>7, <1>8, <1>9 DEF SessionInv

\* Counted as dropped is what the tracker never held, or no longer holds.
LEMMA ProcessResponseKeeps ==
  ASSUME SessionInv, ProcessResponse
  PROVE  SessionInv'
<1>1. /\ pc["runner"] = "process" /\ pc'["runner"] = "forward" /\ pc'["proxy"] = pc["proxy"]
      /\ pc' \in [Goroutines -> Places]
  BY SessionTypes, GoMoves DEF ProcessResponse
<1>2. /\ UNCHANGED <<modeInfo, tracker, current, inUse, sent, answer, answered>>
      /\ UNCHANGED <<open, registered, listed, background, missed>>
  BY DEF ProcessResponse, connVars, workerVars
<1>3. \/ tracker = "none" /\ UNCHANGED <<requests, dropped, late>>
      \/ /\ tracker = "live" /\ answer \in requests
         /\ requests' = requests \ {answer} /\ UNCHANGED <<dropped, late>>
      \/ /\ tracker # "none" /\ ~ (tracker = "live" /\ answer \in requests)
         /\ requests' = requests /\ dropped' = dropped + 1
         /\ late' = IF answer = Unsolicited \/ tracker = "done" THEN late + 1 ELSE late
  BY DEF ProcessResponse, Found, statsVars
<1>4. tracker = "live" => answer = Unsolicited \/ answer \in requests
  BY <1>1 DEF SessionInv, TrackerHolds
<1>5. /\ dropped' = late' /\ dropped' \in Nat /\ late' \in Nat
      /\ requests' \subseteq requests
      /\ \A r \in requests' \cap answered : FALSE
  <2>1. dropped = late /\ \A r \in requests \cap answered : answer = r
    BY DEF SessionInv, ResponsesAccounted
  <2>2. tracker # "live" => requests = {}
    BY DEF SessionInv, LeftInOrder
  <2> QED
    BY <1>3, <1>4, <2>1, <2>2, SessionTypes
<1>6. STypeOK'
  <2>1. modeInfo \in BOOLEAN
    BY DEF SessionInv, ResponsesAccounted, STypeOK
  <2> QED
    BY <1>1, <1>2, <1>5, <2>1, SessionTypes, ConnectionsTyped
<1>7. PlacesTyped'
  BY <1>1, <1>2, <1>5 DEF SessionInv, PlacesTyped
<1>8. ResponsesAccounted'
  BY <1>2, <1>5, <1>6 DEF SessionInv, ResponsesAccounted
<1>9. FirstTheController' /\ LeftInOrder' /\ SentInOrder'
  BY <1>1, <1>2, <1>5
     DEF SessionInv, FirstTheController, LeftInOrder, SentInOrder, Preparing, Proxying
<1>10. TrackerHolds'
  <2>1. pc["runner"] = "process" => answer \in answered \cup {Unsolicited}
    BY DEF SessionInv, TrackerHolds
  <2>2. \A x \in requests : x # answer => x \in requests'
    BY <1>3
  <2>3. pc["proxy"] = "write" => current \notin answered /\ current # answer
    BY <1>1, <2>1, SessionTypes DEF SessionInv, SentInOrder
  <2>4. \A x \in sent \ answered : x # answer
    BY <1>1, <2>1, SessionTypes
  <2> QED
    BY <1>1, <1>2, <2>2, <2>3, <2>4 DEF SessionInv, TrackerHolds
<1> QED
  BY <1>7, <1>8, <1>9, <1>10 DEF SessionInv

-----------------------------------------------------------------------------
(* The theorems. *)

LEMMA SessionStep == SessionInv /\ [SNext]_sVars => SessionInv'
<1> SUFFICES ASSUME SessionInv, [SNext]_sVars PROVE SessionInv'
  OBVIOUS
<1>1. CASE RegisterController \/ ReadRequestFails \/ HandlerCloses
  BY <1>1, ProxyMoves, OnlyMovesKeeps
<1>2. CASE StoreTracker
  BY <1>2, StoreTrackerKeeps
<1>3. CASE StoreModeInfo
  BY <1>3, StoreModeInfoKeeps
<1>4. CASE AddRequest
  BY <1>4, AddRequestKeeps
<1>5. CASE WriteRequest
  BY <1>5, WriteRequestKeeps, ProxyMoves, OnlyMovesKeeps
<1>6. CASE ReadRequest
  BY <1>6, ReadRequestKeeps
<1>7. CASE Release
  BY <1>7, ReleaseKeeps
<1>8. CASE CloseWorker("proxy") \/ CloseWorker("runner") \/ CloseWorker("closer")
  BY <1>8, ClosingMoves, OnlyMovesKeeps DEF Goroutines
<1>9. CASE ReadAnswerFails \/ ForwardAnswer
  BY <1>9, RunnerMoves, OnlyMovesKeeps
<1>10. CASE ProcessResponse
  BY <1>10, ProcessResponseKeeps
<1>11. CASE \E r \in Requests \cup {Unsolicited} : ReadAnswer(r)
  BY <1>11, ReadAnswerKeeps
<1>12. CASE CloseInBackground \/ DisconnectWorker \/ DisconnectController
            \/ \E side \in {"worker", "controller"} : ConnectionFails(side)
  BY <1>12, EndingMoves, OnlyMovesKeeps
<1>13. CASE UNCHANGED sVars
  BY <1>13 DEF sVars, connVars, proxyVars, statsVars, workerVars, SessionInv,
               ResponsesAccounted, STypeOK, PlacesTyped, FirstTheController, LeftInOrder,
               SentInOrder, TrackerHolds, Preparing, Proxying
<1> QED
  BY <1>1, <1>2, <1>3, <1>4, <1>5, <1>6, <1>7, <1>8, <1>9, <1>10, <1>11, <1>12, <1>13
     DEF SNext, Proxy, Runner

\* However requests, answers and closes interleave: the request tracker holds exactly the
\* requests that wait for an answer, and who returns has let go of what it held.
THEOREM SessionCorrect == SSpec => []SessionInv
BY SessionStart, SessionStep, PTL DEF SSpec

\* processResponseAndUpdateStats counts as dropped exactly the messages that answer no
\* request or come after ProxyController gave up, for any number of requests.
THEOREM EveryResponseAccounted == SSpec => []ResponsesAccounted
<1>1. SessionInv => ResponsesAccounted
  BY DEF SessionInv
<1> QED
  BY <1>1, SessionCorrect, PTL

-----------------------------------------------------------------------------
(* Division. *)

LEMMA QuotientMoves ==
  ASSUME NEW d \in Nat \ {0}, NEW q \in Int, NEW b \in Int
  PROVE  (b - q * d) \div d = (b \div d) - q
BY Z3

LEMMA QuotientMonotone ==
  ASSUME NEW a \in Int, NEW b \in Int, NEW d \in Nat \ {0}, a <= b
  PROVE  a \div d <= b \div d
BY Z3

LEMMA QuotientExact ==
  ASSUME NEW d \in Nat \ {0}, NEW q \in Int
  PROVE  (q * d) \div d = q
BY Z3

LEMMA QuotientBelow ==
  ASSUME NEW d \in Nat \ {0}, NEW b \in Nat
  PROVE  b \div d \in Nat /\ (b \div d) * d <= b
BY Z3

LEMMA RoundOnce ==
  ASSUME NEW d \in Nat \ {0}, NEW x \in 0..(2 * d - 1)
  PROVE  x % d = IF x < d THEN x ELSE x - d
BY Z3

-----------------------------------------------------------------------------
(* The ring. *)

\* The place of the bucket of a given age.
Place(head, age) == (head + NumBuckets - age) % NumBuckets

\* The responses that came in the k-th period of time.
InPeriod(es, k) == {i \in DOMAIN es : es[i] \div BucketDuration = k}

\* The head's bucket is that of period k, the latest any response came in; and each
\* bucket has the responses of its period.
RingAt(ring, es, k) ==
  /\ ring \in [bucket : [Buckets -> Nat], head : Buckets, headTime : Nat]
  /\ k \in Nat /\ ring.headTime = k * BucketDuration
  /\ es \in Seq(Nat) /\ \A i \in DOMAIN es : es[i] \div BucketDuration <= k
  /\ \A age \in Buckets :
       ring.bucket[Place(ring.head, age)] = Cardinality(InPeriod(es, k - age))

LEMMA RingConstants ==
  /\ BucketDuration \in Nat \ {0} /\ NumBuckets \in Nat \ {0}
  /\ Buckets = 0..(NumBuckets - 1) /\ 0 \in Buckets /\ Buckets \subseteq Nat
BY RingAssumption DEF NumBuckets, Buckets

LEMMA Rounds ==
  ASSUME NEW x \in 0..(2 * NumBuckets - 1)
  PROVE  x % NumBuckets = IF x < NumBuckets THEN x ELSE x - NumBuckets
BY RoundOnce, RingConstants

LEMMA PlaceIs ==
  ASSUME NEW h \in Buckets, NEW age \in Buckets
  PROVE  /\ Place(h, age) = IF age <= h THEN h - age ELSE h + NumBuckets - age
         /\ Place(h, age) \in Buckets
<1>1. /\ h \in Int /\ age \in Int /\ NumBuckets \in Int /\ 0 <= h /\ h < NumBuckets
      /\ 0 <= age /\ age < NumBuckets
  BY RingConstants
<1>2. h + NumBuckets - age \in 0..(2 * NumBuckets - 1)
  BY <1>1
<1>3. Place(h, age) = IF h + NumBuckets - age < NumBuckets THEN h + NumBuckets - age
                      ELSE (h + NumBuckets - age) - NumBuckets
  BY <1>2, Rounds DEF Place
<1>4. Place(h, age) = IF age <= h THEN h - age ELSE h + NumBuckets - age
  BY <1>1, <1>3
<1> QED BY <1>1, <1>4, RingConstants

LEMMA PeriodFacts ==
  ASSUME NEW es \in Seq(Nat), NEW k
  PROVE  IsFiniteSet(InPeriod(es, k)) /\ Cardinality(InPeriod(es, k)) \in Nat
<1>1. DOMAIN es = 1..Len(es) /\ Len(es) \in Nat
  OBVIOUS
<1>2. IsFiniteSet(1..Len(es))
  BY <1>1, FS_Interval
<1>3. InPeriod(es, k) \subseteq 1..Len(es)
  BY <1>1 DEF InPeriod
<1>4. IsFiniteSet(InPeriod(es, k))
  BY <1>2, <1>3, FS_Subset
<1> QED BY <1>4, FS_CardinalityType

\* Nothing came in a period to come.
LEMMA NothingYet ==
  ASSUME NEW ring, NEW es, NEW k, RingAt(ring, es, k), NEW m \in Int, m > k
  PROVE  Cardinality(InPeriod(es, m)) = 0
<1>1. ASSUME NEW i \in DOMAIN es PROVE es[i] \div BucketDuration # m
  <2>1. es[i] \div BucketDuration <= k /\ es[i] \in Nat /\ k \in Nat
    BY DEF RingAt
  <2>2. es[i] \div BucketDuration \in Nat
    BY <2>1, RingConstants, QuotientBelow
  <2> QED BY <2>1, <2>2
<1>2. InPeriod(es, m) = {}
  BY <1>1 DEF InPeriod
<1> QED BY <1>2, FS_EmptySet

LEMMA RingStart == RingAt(NewRing, <<>>, 0)
<1>1. NewRing \in [bucket : [Buckets -> Nat], head : Buckets, headTime : Nat]
  BY RingConstants DEF NewRing
<1>2. NewRing.headTime = 0 * BucketDuration /\ 0 \in Nat
  BY RingConstants DEF NewRing
<1>3. <<>> \in Seq(Nat) /\ DOMAIN <<>> = {}
  OBVIOUS
<1>4. ASSUME NEW age \in Buckets
      PROVE  NewRing.bucket[Place(NewRing.head, age)] = Cardinality(InPeriod(<<>>, 0 - age))
  <2>1. NewRing.head \in Buckets
    BY <1>1
  <2>2. Place(NewRing.head, age) \in Buckets
    BY <2>1, PlaceIs
  <2>3. NewRing.bucket[Place(NewRing.head, age)] = 0
    BY <2>2 DEF NewRing
  <2>4. InPeriod(<<>>, 0 - age) = {}
    BY DEF InPeriod
  <2> QED BY <2>3, <2>4, FS_EmptySet
<1> QED BY <1>1, <1>2, <1>3, <1>4 DEF RingAt

\* The places the ring passes when it moves on by n, and where it gets to.
PassedBy(head, n) == {(head + i) % NumBuckets : i \in 1..n}
MovedBy(head, n) == (head + n) % NumBuckets

\* A ring that moves by less than its length clears what becomes its newest buckets, and
\* no other.
LEMMA PassesSome ==
  ASSUME NEW h \in Buckets, NEW n \in 1..(NumBuckets - 1), NEW age \in Buckets
  PROVE  /\ MovedBy(h, n) \in Buckets
         /\ age < n => Place(MovedBy(h, n), age) \in PassedBy(h, n)
         /\ age >= n => /\ Place(MovedBy(h, n), age) \notin PassedBy(h, n)
                        /\ age - n \in Buckets
                        /\ Place(MovedBy(h, n), age) = Place(h, age - n)
<1>1. /\ h \in Int /\ age \in Int /\ NumBuckets \in Int /\ 0 <= h /\ h < NumBuckets
      /\ 0 <= age /\ age < NumBuckets /\ n \in Int /\ 1 <= n /\ n < NumBuckets
  BY RingConstants
<1>2. \A i \in 1..n : (h + i) % NumBuckets = IF h + i < NumBuckets THEN h + i
                                             ELSE (h + i) - NumBuckets
  <2>1. ASSUME NEW i \in 1..n PROVE h + i \in 0..(2 * NumBuckets - 1)
    BY <1>1
  <2> QED BY <2>1, Rounds
<1> DEFINE m == MovedBy(h, n)
<1>3. m = IF h + n < NumBuckets THEN h + n ELSE (h + n) - NumBuckets
  <2>1. n \in 1..n
    BY <1>1
  <2> QED BY <1>2, <2>1 DEF MovedBy
<1>4. m \in Buckets
  BY <1>1, <1>3, RingConstants
<1> HIDE DEF m
<1>5. Place(m, age) = IF age <= m THEN m - age ELSE m + NumBuckets - age
  BY <1>4, PlaceIs
<1>6. ASSUME age < n PROVE Place(m, age) \in PassedBy(h, n)
  <2>1. n - age \in 1..n
    BY <1>1, <1>6
  <2>2. (h + (n - age)) % NumBuckets = IF h + (n - age) < NumBuckets THEN h + (n - age)
                                       ELSE (h + (n - age)) - NumBuckets
    BY <1>2, <2>1
  <2>3. Place(m, age) = (h + (n - age)) % NumBuckets
    BY <1>1, <1>3, <1>5, <1>6, <2>2
  <2> QED BY <2>1, <2>3 DEF PassedBy
<1>7. ASSUME age >= n
      PROVE  Place(m, age) \notin PassedBy(h, n) /\ age - n \in Buckets
             /\ Place(m, age) = Place(h, age - n)
  <2>1. age - n \in Buckets
    BY <1>1, <1>7, RingConstants
  <2>2. Place(h, age - n) = IF age - n <= h THEN h - (age - n) ELSE h + NumBuckets - (age - n)
    BY <2>1, PlaceIs
  <2>3. Place(m, age) = Place(h, age - n)
    BY <1>1, <1>3, <1>5, <1>7, <2>2
  <2>4. ASSUME NEW i \in 1..n PROVE Place(h, age - n) # (h + i) % NumBuckets
    <3>1. (h + i) % NumBuckets = IF h + i < NumBuckets THEN h + i ELSE (h + i) - NumBuckets
      BY <1>2
    <3>2. i \in Int /\ 1 <= i /\ i <= n
      BY <1>1
    <3> QED BY <1>1, <1>7, <2>2, <3>1, <3>2
  <2> QED BY <2>1, <2>3, <2>4 DEF PassedBy
<1> QED BY <1>4, <1>6, <1>7 DEF m

\* A ring that moves by its length or more clears all.
LEMMA PassesAll ==
  ASSUME NEW h \in Buckets, NEW n \in Nat, n >= NumBuckets, NEW b \in Buckets
  PROVE  b \in PassedBy(h, n)
<1>1. /\ h \in Int /\ b \in Int /\ NumBuckets \in Int /\ 0 <= h /\ h < NumBuckets
      /\ 0 <= b /\ b < NumBuckets
  BY RingConstants
<1> DEFINE i == IF b > h THEN b - h ELSE b - h + NumBuckets
<1>2. i \in 1..n /\ h + i \in 0..(2 * NumBuckets - 1)
  BY <1>1
<1>3. (h + i) % NumBuckets = IF h + i < NumBuckets THEN h + i ELSE (h + i) - NumBuckets
  BY <1>2, Rounds
<1>4. (h + i) % NumBuckets = b
  BY <1>1, <1>3
<1> QED BY <1>2, <1>4 DEF PassedBy

\* Whoever looks at the ring, at whatever time, leaves it as true as it was.
LEMMA AdvanceKeeps ==
  ASSUME NEW ring, NEW es, NEW k, RingAt(ring, es, k), NEW t \in Nat, ring.headTime <= t
  PROVE  /\ RingAt(Advance(ring, t), es, t \div BucketDuration)
         /\ Advance(ring, t).headTime <= t
<1> DEFINE n == (t - ring.headTime) \div BucketDuration
           K == t \div BucketDuration
<1>1. /\ k \in Nat /\ ring.headTime = k * BucketDuration /\ ring.headTime \in Nat
      /\ ring.head \in Buckets /\ ring.bucket \in [Buckets -> Nat]
      /\ es \in Seq(Nat) /\ \A i \in DOMAIN es : es[i] \div BucketDuration <= k
      /\ \A age \in Buckets :
           ring.bucket[Place(ring.head, age)] = Cardinality(InPeriod(es, k - age))
  BY DEF RingAt
<1>2. n = K - k
  <2>1. BucketDuration \in Nat \ {0} /\ k \in Int /\ t \in Int
    BY <1>1, RingConstants
  <2>2. (t - k * BucketDuration) \div BucketDuration = (t \div BucketDuration) - k
    BY <2>1, QuotientMoves
  <2>3. n = (t - k * BucketDuration) \div BucketDuration
    BY <1>1
  <2> QED BY <2>2, <2>3
<1>3. K \in Nat /\ K * BucketDuration <= t
  BY RingConstants, QuotientBelow
<1>4. k <= K
  <2>1. (k * BucketDuration) \div BucketDuration = k
    BY <1>1, RingConstants, QuotientExact
  <2>2. /\ ring.headTime \in Int /\ t \in Int /\ ring.headTime <= t
        /\ BucketDuration \in Nat \ {0}
    BY <1>1, RingConstants
  <2>3. ring.headTime \div BucketDuration <= t \div BucketDuration
    BY <2>2, QuotientMonotone
  <2>4. ring.headTime \div BucketDuration = k
    BY <1>1, <2>1
  <2> QED BY <2>3, <2>4
<1>5. n \in Nat
  BY <1>1, <1>2, <1>3, <1>4
<1>6. ring.headTime + n * BucketDuration = K * BucketDuration /\ K * BucketDuration \in Nat
  <2>1. BucketDuration \in Int /\ k \in Int /\ K \in Int
    BY <1>1, <1>3, RingConstants
  <2>2. k * BucketDuration + (K - k) * BucketDuration = K * BucketDuration
    BY <2>1, Z3
  <2>3. K * BucketDuration \in Nat
    BY <1>3, RingConstants, Z3
  <2> HIDE DEF n, K
  <2> QED BY <1>1, <1>2, <2>2, <2>3
<1>7. CASE n = 0
  <2>1. Advance(ring, t) = ring
    BY <1>7 DEF Advance
  <2>2. K = k
    BY <1>1, <1>2, <1>3, <1>7
  <2> HIDE DEF n, K
  <2>3. RingAt(Advance(ring, t), es, K) /\ Advance(ring, t).headTime <= t
    BY <2>1, <2>2
  <2> QED BY <2>3 DEF K
<1>8. CASE n # 0
  <2> DEFINE bucket == [i \in Buckets |-> IF i \in PassedBy(ring.head, n) THEN 0 ELSE ring.bucket[i]]
             head == IF n >= NumBuckets THEN 0 ELSE MovedBy(ring.head, n)
  <2>1. Advance(ring, t) = [bucket |-> bucket, head |-> head,
                            headTime |-> ring.headTime + n * BucketDuration]
    BY <1>8 DEF Advance, PassedBy, MovedBy
  <2> HIDE DEF n, K
  <2>2. bucket \in [Buckets -> Nat]
    BY <1>1
  <2>3. /\ head \in Buckets
        /\ \A age \in Buckets : bucket[Place(head, age)] = Cardinality(InPeriod(es, K - age))
    <3>1. CASE n >= NumBuckets
      <4>1. head = 0 /\ head \in Buckets
        BY <3>1, RingConstants
      <4>2. ASSUME NEW age \in Buckets
            PROVE  bucket[Place(head, age)] = Cardinality(InPeriod(es, K - age))
        <5>1. Place(head, age) \in Buckets
          BY <4>1, PlaceIs
        <5>2. Place(head, age) \in PassedBy(ring.head, n)
          BY <1>1, <1>5, <3>1, <5>1, PassesAll
        <5>3. bucket[Place(head, age)] = 0
          BY <5>1, <5>2
        <5>4. K - age \in Int /\ K - age > k
          BY <1>1, <1>2, <1>3, <3>1, RingConstants
        <5> QED BY <5>3, <5>4, NothingYet
      <4> QED BY <4>1, <4>2
    <3>2. CASE ~ (n >= NumBuckets)
      <4>1. n \in 1..(NumBuckets - 1) /\ head = MovedBy(ring.head, n)
        BY <1>5, <1>8, <3>2, RingConstants
      <4>2. head \in Buckets
        BY <1>1, <4>1, RingConstants, PassesSome
      <4>3. ASSUME NEW age \in Buckets
            PROVE  bucket[Place(head, age)] = Cardinality(InPeriod(es, K - age))
        <5>1. Place(head, age) \in Buckets
          BY <4>2, PlaceIs
        <5>2. age \in Nat
          BY RingConstants
        <5>3. CASE age < n
          <6>1. Place(head, age) \in PassedBy(ring.head, n)
            BY <1>1, <4>1, <5>3, PassesSome
          <6>2. bucket[Place(head, age)] = 0
            BY <5>1, <6>1
          <6>3. K - age \in Int /\ K - age > k
            BY <1>1, <1>2, <1>3, <5>2, <5>3
          <6> QED BY <6>2, <6>3, NothingYet
        <5>4. CASE age >= n
          <6>1. /\ Place(head, age) \notin PassedBy(ring.head, n)
                /\ age - n \in Buckets
                /\ Place(head, age) = Place(ring.head, age - n)
            BY <1>1, <4>1, <5>4, PassesSome
          <6>2. bucket[Place(head, age)] = ring.bucket[Place(ring.head, age - n)]
            BY <5>1, <6>1
          <6>3. k - (age - n) = K - age
            BY <1>1, <1>2, <1>3, <5>2
          <6> QED BY <1>1, <6>1, <6>2, <6>3
        <5> QED BY <1>5, <5>2, <5>3, <5>4
      <4> QED BY <4>2, <4>3
    <3> QED BY <3>1, <3>2
  <2> DEFINE moved == Advance(ring, t)
  <2>4. /\ moved.bucket = bucket /\ moved.head = head /\ moved.headTime = K * BucketDuration
        /\ moved \in [bucket : [Buckets -> Nat], head : Buckets, headTime : Nat]
    <3> HIDE DEF bucket, head
    <3> QED BY <1>6, <2>1, <2>2, <2>3
  <2> HIDE DEF bucket, head, moved
  <2>5. \A i \in DOMAIN es : es[i] \div BucketDuration <= K
    <3>1. ASSUME NEW i \in DOMAIN es PROVE es[i] \div BucketDuration <= K
      <4>1. es[i] \in Nat /\ es[i] \div BucketDuration <= k
        BY <1>1
      <4>2. es[i] \div BucketDuration \in Nat
        BY <4>1, RingConstants, QuotientBelow
      <4> QED BY <1>1, <1>3, <1>4, <4>1, <4>2
    <3> QED BY <3>1
  <2>6. RingAt(moved, es, K)
    BY <1>1, <1>3, <2>3, <2>4, <2>5 DEF RingAt
  <2>7. moved.headTime <= t
    BY <1>3, <2>4
  <2> QED BY <2>6, <2>7 DEF moved, K
<1> QED BY <1>7, <1>8

\* A response is counted in the bucket of its period.
LEMMA AddKeeps ==
  ASSUME NEW ring, NEW es, NEW k, RingAt(ring, es, k), NEW t \in Nat, ring.headTime <= t
  PROVE  /\ RingAt(AfterAdd(ring, t), Append(es, t), t \div BucketDuration)
         /\ AfterAdd(ring, t).headTime <= t
<1> DEFINE moved == Advance(ring, t)
           K == t \div BucketDuration
           added == AfterAdd(ring, t)
           fs == Append(es, t)
<1>1. RingAt(moved, es, K) /\ moved.headTime <= t
  BY AdvanceKeeps
<1>2. K \in Nat
  BY RingConstants, QuotientBelow
<1>3. added = [moved EXCEPT !.bucket[moved.head] = @ + 1]
  BY DEF AfterAdd
<1> HIDE DEF moved, added
<1>4. /\ moved \in [bucket : [Buckets -> Nat], head : Buckets, headTime : Nat]
      /\ moved.headTime = K * BucketDuration
      /\ es \in Seq(Nat) /\ \A i \in DOMAIN es : es[i] \div BucketDuration <= K
      /\ \A age \in Buckets :
           moved.bucket[Place(moved.head, age)] = Cardinality(InPeriod(es, K - age))
  BY <1>1 DEF RingAt
<1>5. /\ added.head = moved.head /\ added.headTime = moved.headTime
      /\ added.bucket = [moved.bucket EXCEPT ![moved.head] = @ + 1]
      /\ added \in [bucket : [Buckets -> Nat], head : Buckets, headTime : Nat]
  <2> DEFINE b == [moved.bucket EXCEPT ![moved.head] = moved.bucket[moved.head] + 1]
  <2>1. added = [moved EXCEPT !.bucket = b]
    BY <1>3, <1>4
  <2>2. moved.bucket \in [Buckets -> Nat] /\ moved.head \in Buckets
    BY <1>4
  <2>3. b \in [Buckets -> Nat] /\ b = [moved.bucket EXCEPT ![moved.head] = @ + 1]
    BY <2>2
  <2> HIDE DEF b
  <2>4. added.bucket = b /\ added.head = moved.head /\ added.headTime = moved.headTime
    BY <1>4, <2>1
  <2>5. added \in [bucket : [Buckets -> Nat], head : Buckets, headTime : Nat]
    BY <1>4, <2>1, <2>3
  <2> QED BY <2>3, <2>4, <2>5
<1>6. /\ fs \in Seq(Nat) /\ Len(fs) = Len(es) + 1 /\ Len(es) \in Nat
      /\ DOMAIN fs = DOMAIN es \cup {Len(es) + 1} /\ Len(es) + 1 \notin DOMAIN es
      /\ fs[Len(es) + 1] = t /\ \A i \in DOMAIN es : fs[i] = es[i]
  BY <1>4
<1>7. \A i \in DOMAIN fs : fs[i] \div BucketDuration <= K
  <2>1. t \div BucketDuration <= K
    BY <1>2
  <2> QED BY <1>4, <1>6, <2>1
<1>8. ASSUME NEW age \in Buckets
      PROVE  added.bucket[Place(added.head, age)] = Cardinality(InPeriod(fs, K - age))
  <2>1. age \in Nat /\ moved.head \in Buckets /\ moved.head \in Int /\ NumBuckets \in Int
        /\ 0 <= age /\ age < NumBuckets /\ 0 <= moved.head /\ moved.head < NumBuckets
    BY <1>4, RingConstants
  <2>2. /\ Place(moved.head, age) \in Buckets
        /\ Place(moved.head, age) = moved.head <=> age = 0
    BY <2>1, PlaceIs
  <2>3. CASE age = 0
    <3>1. K - age = K
      BY <1>2, <2>3
    <3>2. InPeriod(fs, K) = InPeriod(es, K) \cup {Len(es) + 1}
      <4> HIDE DEF fs
      <4> QED BY <1>6 DEF InPeriod
    <3>3. Len(es) + 1 \notin InPeriod(es, K)
      BY <1>6 DEF InPeriod
    <3>4. IsFiniteSet(InPeriod(es, K)) /\ Cardinality(InPeriod(es, K)) \in Nat
      BY <1>4, PeriodFacts
    <3>5. Cardinality(InPeriod(fs, K)) = Cardinality(InPeriod(es, K)) + 1
      BY <3>2, <3>3, <3>4, FS_AddElement
    <3>6. moved.bucket[moved.head] = Cardinality(InPeriod(es, K))
      BY <1>4, <2>2, <2>3, <3>1
    <3>7. added.bucket[moved.head] = moved.bucket[moved.head] + 1
      BY <1>4, <1>5
    <3> QED BY <1>5, <2>2, <2>3, <3>1, <3>5, <3>6, <3>7
  <2>4. CASE age # 0
    <3>1. K - age # K
      BY <1>2, <2>1, <2>4
    <3>2. InPeriod(fs, K - age) = InPeriod(es, K - age)
      <4> HIDE DEF fs
      <4>1. fs[Len(es) + 1] \div BucketDuration # K - age
        BY <1>6, <3>1
      <4> QED BY <1>6, <4>1 DEF InPeriod
    <3>3. added.bucket[Place(moved.head, age)] = moved.bucket[Place(moved.head, age)]
      BY <1>4, <1>5, <2>2, <2>4
    <3> QED BY <1>4, <1>5, <3>2, <3>3
  <2> QED BY <2>3, <2>4
<1>9. RingAt(added, fs, K)
  <2> HIDE DEF fs, K
  <2> QED BY <1>2, <1>4, <1>5, <1>6, <1>7, <1>8 DEF RingAt
<1> QED BY <1>1, <1>5, <1>9 DEF added, moved

\* A window of n buckets counts what came in the last n periods.
Newest(es, n, k) == {i \in DOMAIN es : es[i] \div BucketDuration + n > k}

LEMMA SumOfSequence ==
  ASSUME NEW f, NEW n \in Nat, DOMAIN f = 1..n
  PROVE  FoldSeq(LAMBDA a, b : a + b, 0, f) = Sum(f, 1..n)
BY DEF FoldSeq, FoldFunction, FoldFunctionOnSet, MapThenFoldSet, Sum, MapThenSumSet

LEMMA WindowCounts ==
  ASSUME NEW ring, NEW es, NEW k, RingAt(ring, es, k), NEW n \in 0..NumBuckets
  PROVE  FoldSeq(LAMBDA a, b : a + b, 0, Scanned(ring, n)) = Cardinality(Newest(es, n, k))
<1> DEFINE f == Scanned(ring, n)
           T == Newest(es, n, k)
           place == [i \in T |-> k - (es[i] \div BucketDuration) + 1]
<1>1. n \in Nat /\ n <= NumBuckets /\ NumBuckets \in Nat /\ k \in Nat
  BY RingConstants DEF RingAt
<1>2. DOMAIN f = 1..n
  BY DEF Scanned
<1>3. es \in Seq(Nat) /\ DOMAIN es = 1..Len(es) /\ Len(es) \in Nat
      /\ \A i \in DOMAIN es : es[i] \div BucketDuration <= k
  BY DEF RingAt
<1>4. \A i \in DOMAIN es : es[i] \div BucketDuration \in Nat
  <2>1. \A i \in DOMAIN es : es[i] \in Nat
    BY <1>3
  <2> QED BY <2>1, RingConstants, QuotientBelow
<1>5. IsFiniteSet(1..n) /\ IsFiniteSet(T)
  <2>1. IsFiniteSet(1..n) /\ IsFiniteSet(1..Len(es))
    BY <1>1, <1>3, FS_Interval
  <2>2. T \subseteq 1..Len(es)
    BY <1>3 DEF Newest
  <2> QED BY <2>1, <2>2, FS_Subset
<1>6. place \in [T -> 1..n]
  <2>1. ASSUME NEW i \in T PROVE k - (es[i] \div BucketDuration) + 1 \in 1..n
    <3>1. i \in DOMAIN es /\ es[i] \div BucketDuration + n > k
      BY DEF Newest
    <3>2. es[i] \div BucketDuration <= k /\ es[i] \div BucketDuration \in Nat
      BY <1>3, <1>4, <3>1
    <3> QED BY <1>1, <3>1, <3>2
  <2> QED BY <2>1
<1>7. \A j \in 1..n : f[j] = Cardinality({i \in T : place[i] = j})
  <2>1. ASSUME NEW j \in 1..n PROVE f[j] = Cardinality({i \in T : place[i] = j})
    <3>1. j \in Int /\ 1 <= j /\ j <= n
      BY <1>1
    <3>2. j - 1 \in Buckets
      BY <1>1, <3>1, RingConstants
    <3>3. f[j] = ring.bucket[Place(ring.head, j - 1)]
      BY DEF Scanned, Place
    <3>4. f[j] = Cardinality(InPeriod(es, k - (j - 1)))
      BY <3>2, <3>3 DEF RingAt
    <3>5. \A i \in DOMAIN es :
            i \in InPeriod(es, k - (j - 1)) <=> i \in T /\ place[i] = j
      <4>1. ASSUME NEW i \in DOMAIN es
            PROVE  i \in InPeriod(es, k - (j - 1)) <=> i \in T /\ place[i] = j
        <5> DEFINE q == es[i] \div BucketDuration
        <5>1. q \in Nat
          BY <1>4
        <5>2. i \in InPeriod(es, k - (j - 1)) <=> q = k - (j - 1)
          BY DEF InPeriod
        <5>3. i \in T <=> q + n > k
          BY DEF Newest
        <5>4. i \in T => place[i] = k - q + 1
          OBVIOUS
        <5> HIDE DEF q, T, place
        <5> QED BY <1>1, <3>1, <5>1, <5>2, <5>3, <5>4
      <4> QED BY <4>1
    <3>6. InPeriod(es, k - (j - 1)) = {i \in T : place[i] = j}
      <4>1. InPeriod(es, k - (j - 1)) \subseteq DOMAIN es /\ T \subseteq DOMAIN es
        BY DEF InPeriod, Newest
      <4> HIDE DEF T, place
      <4> QED BY <3>5, <4>1
    <3> QED BY <3>4, <3>6
  <2> QED BY <2>1
<1>8. Sum(f, 1..n) = Cardinality(T)
  <2> HIDE DEF f, T, place
  <2> QED BY <1>5, <1>6, <1>7, SumOfCounts
<1>9. FoldSeq(LAMBDA a, b : a + b, 0, f) = Sum(f, 1..n)
  <2> HIDE DEF f
  <2> QED BY <1>1, <1>2, SumOfSequence
<1> QED BY <1>8, <1>9

-----------------------------------------------------------------------------
(* Windows. *)

\* The inductive invariant: the ring was last moved for a response, and by then it had
\* counted all that came.
WindowInv ==
  /\ now \in Nat
  /\ requestStats.headTime <= now
  /\ \E k \in Nat : RingAt(requestStats, ended, k)

LEMMA WindowStart == SInit => WindowInv
<1> SUFFICES ASSUME SInit PROVE WindowInv
  OBVIOUS
<1>1. requestStats = NewRing /\ ended = <<>> /\ now = 0
  BY DEF SInit
<1>2. NewRing.headTime = 0
  BY DEF NewRing
<1> QED BY <1>1, <1>2, RingStart DEF WindowInv

\* Only an answer that is counted moves the ring.
LEMMA OnlyCounting ==
  ASSUME [SNext]_sVars
  PROVE  \/ UNCHANGED <<requestStats, ended, now>>
         \/ /\ now' \in now..MaxTime
            /\ requestStats' = AfterAdd(requestStats, now')
            /\ ended' = Append(ended, now')
<1>1. CASE Proxy
  BY <1>1 DEF Proxy, RegisterController, StoreTracker, StoreModeInfo, AddRequest, WriteRequest,
              ReadRequestFails, Release, CloseWorker, CloseOnce, CloseItsController,
              CloseSocket, HandlerCloses, statsVars
<1>2. CASE ProcessResponse
  BY <1>2 DEF ProcessResponse, statsVars
<1>3. CASE ReadAnswerFails \/ ForwardAnswer \/ CloseWorker("runner")
  BY <1>3 DEF ReadAnswerFails, ForwardAnswer, CloseWorker, CloseOnce, CloseItsController,
              CloseSocket, statsVars
<1>4. CASE ReadRequest \/ \E r \in Requests \cup {Unsolicited} : ReadAnswer(r)
  BY <1>4 DEF ReadRequest, ReadAnswer, statsVars
<1>5. CASE CloseWorker("closer")
  BY <1>5 DEF CloseWorker, CloseOnce, CloseItsController, CloseSocket, statsVars
<1>6. CASE CloseInBackground \/ DisconnectWorker \/ DisconnectController
           \/ \E side \in {"worker", "controller"} : ConnectionFails(side)
  BY <1>6 DEF CloseInBackground, DisconnectWorker, DisconnectController, ConnectionFails,
              statsVars
<1>7. CASE UNCHANGED sVars
  BY <1>7 DEF sVars, statsVars
<1> QED BY <1>1, <1>2, <1>3, <1>4, <1>5, <1>6, <1>7 DEF SNext, Runner

LEMMA WindowStep == WindowInv /\ [SNext]_sVars => WindowInv'
<1> SUFFICES ASSUME WindowInv, [SNext]_sVars PROVE WindowInv'
  OBVIOUS
<1>1. CASE UNCHANGED <<requestStats, ended, now>>
  BY <1>1 DEF WindowInv
<1>2. ASSUME now' \in now..MaxTime, requestStats' = AfterAdd(requestStats, now'),
             ended' = Append(ended, now')
      PROVE  WindowInv'
  <2>1. now \in Nat /\ requestStats.headTime <= now
    BY DEF WindowInv
  <2>2. PICK k \in Nat : RingAt(requestStats, ended, k)
    BY DEF WindowInv
  <2>3. requestStats.headTime \in Nat
    BY <2>2 DEF RingAt
  <2>4. now' \in Nat /\ requestStats.headTime <= now'
    BY <1>2, <2>1, <2>3, SessionAssumption
  <2>5. /\ RingAt(AfterAdd(requestStats, now'), Append(ended, now'), now' \div BucketDuration)
        /\ AfterAdd(requestStats, now').headTime <= now'
    BY <2>2, <2>4, AddKeeps
  <2>6. now' \div BucketDuration \in Nat
    BY <2>5 DEF RingAt
  <2>7. RingAt(requestStats', ended', now' \div BucketDuration)
    BY <1>2, <2>5
  <2>8. requestStats'.headTime <= now'
    BY <1>2, <2>5
  <2>9. \E m \in Nat : RingAt(requestStats', ended', m)
    BY <2>6, <2>7
  <2> QED BY <2>4, <2>8, <2>9 DEF WindowInv, RingAt
<1> QED BY <1>1, <1>2, OnlyCounting

LEMMA WindowTold == WindowInv => WindowExact
<1> SUFFICES ASSUME WindowInv,
                    NEW s \in now..MaxTime, NEW t \in s..MaxTime, NEW n \in 0..NumBuckets
             PROVE  WindowSum(Advance(requestStats, s), t, n) =
                      Cardinality(Newest(ended, n, t \div BucketDuration))
  BY DEF WindowExact, Newest
<1>1. PICK k \in Nat : RingAt(requestStats, ended, k)
  BY DEF WindowInv
<1>2. now \in Nat /\ requestStats.headTime <= now /\ requestStats.headTime \in Nat
  BY <1>1 DEF WindowInv, RingAt
<1>3. s \in Nat /\ t \in Nat /\ s <= t /\ requestStats.headTime <= s
  BY <1>2, SessionAssumption
<1> DEFINE once == Advance(requestStats, s)
           twice == Advance(once, t)
<1>4. RingAt(once, ended, s \div BucketDuration) /\ once.headTime <= s
  BY <1>1, <1>3, AdvanceKeeps
<1> HIDE DEF once
<1>5. once.headTime \in Nat
  BY <1>4 DEF RingAt
<1>6. once.headTime <= t
  BY <1>3, <1>4, <1>5
<1>7. RingAt(twice, ended, t \div BucketDuration)
  BY <1>3, <1>4, <1>6, AdvanceKeeps
<1> HIDE DEF twice
<1>8. FoldSeq(LAMBDA a, b : a + b, 0, Scanned(twice, n)) =
        Cardinality(Newest(ended, n, t \div BucketDuration))
  BY <1>7, WindowCounts
<1> QED BY <1>8 DEF WindowSum, twice, once

\* The windows the API reads from Worker.requestStats (CountDurationCollector.GetWindows) are
\* exact, for any length and number of buckets, however long the ring was not used and
\* whether or not somebody has just looked at it.
THEOREM WindowsAreExact == SSpec => []WindowExact
<1>1. SSpec => []WindowInv
  BY WindowStart, WindowStep, PTL DEF SSpec
<1> QED BY <1>1, WindowTold, PTL
=============================================================================
