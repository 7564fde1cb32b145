--------------------------------- MODULE WsProofs -------------------------------
(***************************************************************************)
(* Theorems about the two halves of a websocket connection: the write side *)
(* (WsConn) and the loop that finds a dead peer (WsTimeout), which share   *)
(* nothing but the end of the connection.                                  *)
(***************************************************************************)
EXTENDS WsConn, WsTimeout, SequenceTheorems, TLAPS

-----------------------------------------------------------------------------
(***************************************************************************)
(* Theorems about WsConn, for every set of callers and of closers, every   *)
(* program of calls and every capacity of the queue.                       *)
(*                                                                         *)
(* The history "sent" is the axis of the argument.  It falls in two: what  *)
(* the writer has taken, and the rest, which is the queue.  The peer has   *)
(* the messages of the first part, up to the one the writer has in hand or *)
(* the first that failed; the buffers of the second part are untouched.    *)
(***************************************************************************)

\* How many messages the writer has taken out of the queue.
Taken == Len(sent) - Len(writerCh)

\* The queue is the rest of what was sent.
QueueIsRest ==
  /\ Taken >= 0
  /\ \A i \in 1..Len(writerCh) : writerCh[i] = sent[Taken + i]

\* The writer has the last message it took in hand; a flush cannot fail.
WriterHasLast ==
  /\ writer.pc \in {"writing", "responding"} => Taken >= 1 /\ writer.msg = sent[Taken]
  /\ writer.pc = "writing" => IsPayload(writer.msg)
  /\ writer.pc = "responding" /\ writer.err # "nil" => IsPayload(writer.msg)

\* Where a caller is in its program.
CallersKnowPlace ==
  \A c \in Callers :
    /\ caller[c].pc # "ready" => caller[c].call <= Len(Program[c])
    /\ caller[c].pc = "waiting" =>
         /\ KindOf(Current(c)) # "forward"
         /\ \E i \in DOMAIN sent : sent[i] = Current(c)

\* A call that has returned, or that waits for its result.
Underway(m) ==
  \/ m[2] < caller[m[1]].call
  \/ m[2] = caller[m[1]].call /\ caller[m[1]].pc = "waiting"

\* A message is sent once, by the call that it is named for.
SentOnce ==
  /\ \A i \in DOMAIN sent : Underway(sent[i])
  /\ \A i \in DOMAIN sent, j \in DOMAIN sent : sent[i] = sent[j] => i = j

\* What the peer has got was taken, and is not in the writer's hand any more.
WrittenWasTaken ==
  /\ \A k \in DOMAIN written : \E i \in 1..Taken :
       written[k] = sent[i] /\ IsPayload(sent[i]) /\ (writer.pc = "writing" => i # Taken)
  /\ \A k \in DOMAIN written, l \in DOMAIN written : written[k] = written[l] => k = l

\* The messages before the i-th that was sent have reached the peer, by its l-th.
ReachedBefore(i, l) ==
  \A j \in 1..(i - 1) : IsPayload(sent[j]) => \E k \in 1..l : written[k] = sent[j]

\* As long as nothing failed, the peer has got all that was taken before the message in
\* the writer's hand, and that one, too, when its result is about to be told.
NothingMissing ==
  /\ writer.pc = "select" => ReachedBefore(Taken + 1, Len(written))
  /\ writer.pc \in {"writing", "responding"} => ReachedBefore(Taken, Len(written))
  /\ writer.pc = "responding" /\ writer.err = "nil" => ReachedBefore(Taken + 1, Len(written))

InOrder ==
  \A i \in DOMAIN sent, l \in DOMAIN written : written[l] = sent[i] => ReachedBefore(i, l - 1)

\* Who is told about a flush is told so when all before it is written.
FlushAnswered ==
  /\ \A m \in Messages :
       /\ respChan[m].value # "empty" => respChan[m].closed
       /\ respChan[m].closed => Underway(m)
  /\ \A i \in DOMAIN sent :
       KindOf(sent[i]) = "flush" /\ (respChan[sent[i]].closed \/ result[sent[i]] = "nil")
         => ReachedBefore(i, Len(written))

\* A buffer is not put back before its call, nor while it is queued or being written.
BuffersKept ==
  /\ \A m \in Messages : putBack[m] = 1 =>
       \/ m[2] < caller[m[1]].call
       \/ \E i \in DOMAIN sent : sent[i] = m
  /\ \A i \in DOMAIN sent : i > Taken \/ (i = Taken /\ writer.pc = "writing") => putBack[sent[i]] = 0

\* A result belongs to a call that has returned.
ResultsOfPast == \A m \in Messages : result[m] # "none" => m[2] < caller[m[1]].call

\* A Close that has returned has waited for the writer.
CloseWaited == \A x \in Closers : closing[x] = "done" => writer.pc = "done"

\* The inductive invariant.
WsInv ==
  /\ WTypeOK
  /\ CallersKnowPlace /\ SentOnce
  /\ QueueIsRest /\ WriterHasLast
  /\ WrittenWasTaken /\ NothingMissing /\ InOrder
  /\ FlushAnswered /\ ResultsOfPast
  /\ BuffersKept
  /\ CloseWaited

-----------------------------------------------------------------------------
(* Messages and sequences. *)

\* A message names its caller and the call.
LEMMA MessageFacts ==
  /\ \A m \in Messages : m[1] \in Callers /\ m[2] \in 1..Len(Program[m[1]]) /\ m = <<m[1], m[2]>>
  /\ \A c \in Callers, n \in Nat \ {0} : n <= Len(Program[c]) => <<c, n>> \in Messages
  /\ \A c \in Callers : Len(Program[c]) \in Nat
<1>1. \A c \in Callers : Len(Program[c]) \in Nat
  BY WsConnAssumption
<1>2. ASSUME NEW m \in Messages
      PROVE  m[1] \in Callers /\ m[2] \in 1..Len(Program[m[1]]) /\ m = <<m[1], m[2]>>
  <2>1. PICK c \in Callers : m \in {c} \X (1..Len(Program[c]))
    BY DEF Messages
  <2> QED
    BY <2>1
<1>3. ASSUME NEW c \in Callers, NEW n \in Nat \ {0}, n <= Len(Program[c])
      PROVE  <<c, n>> \in Messages
  <2>1. <<c, n>> \in {c} \X (1..Len(Program[c]))
    BY <1>1, <1>3
  <2> QED
    BY <2>1 DEF Messages
<1> QED
  BY <1>1, <1>2, <1>3

LEMMA AppendFacts ==
  ASSUME NEW S, NEW s \in Seq(S), NEW e \in S
  PROVE  /\ Append(s, e) \in Seq(S)
         /\ Len(Append(s, e)) = Len(s) + 1
         /\ \A i \in 1..Len(s) : Append(s, e)[i] = s[i]
         /\ Append(s, e)[Len(s) + 1] = e
  OBVIOUS

LEMMA TailFacts ==
  ASSUME NEW S, NEW s \in Seq(S), s # <<>>
  PROVE  /\ Len(s) > 0
         /\ Head(s) = s[1] /\ Head(s) \in S
         /\ Tail(s) \in Seq(S)
         /\ Len(Tail(s)) = Len(s) - 1
         /\ \A i \in 1..(Len(s) - 1) : Tail(s)[i] = s[i + 1]
  OBVIOUS

\* The call a caller is in is a message, if its program has one at that place.
LEMMA CurrentFacts ==
  ASSUME WTypeOK, NEW c \in Callers
  PROVE  /\ Current(c)[1] = c /\ Current(c)[2] = caller[c].call
         /\ caller[c].call \in Nat \ {0}
         /\ caller[c].call <= Len(Program[c]) => Current(c) \in Messages
BY MessageFacts DEF WTypeOK, Current

\* The states of a caller, and what a call returns.
CallerStates == [pc : {"ready", "sending", "waiting"}, call : Nat \ {0}]
Results == {"none", "nil", "writeError", "closed", "cancelled"}

\* What a call that returns changes.
ReturnEffect(c, res) ==
  LET m == Current(c)
  IN  /\ m \in Messages /\ caller[c].call <= Len(Program[c])
      /\ caller'[c] = [pc |-> "ready", call |-> caller[c].call + 1]
      /\ \A d \in Callers : d # c => caller'[d] = caller[d]
      /\ result'[m] = res
      /\ \A n \in Messages : n # m => result'[n] = result[n] /\ putBack'[n] = putBack[n]
      /\ putBack'[m] = IF res # "nil" /\ PutsBack(m) THEN putBack[m] + 1 ELSE putBack[m]
      /\ caller' \in [Callers -> CallerStates]
      /\ result' \in [Messages -> Results]
      /\ putBack' = [n \in Messages |-> putBack'[n]]

LEMMA ReturnDoes ==
  ASSUME WTypeOK, NEW c \in Callers, caller[c].call <= Len(Program[c]),
         NEW res \in Results, Return(c, res)
  PROVE  ReturnEffect(c, res)
<1>1. Current(c) \in Messages
  BY CurrentFacts
<1>2. /\ caller'[c] = [pc |-> "ready", call |-> caller[c].call + 1]
      /\ \A d \in Callers : d # c => caller'[d] = caller[d]
  BY DEF WTypeOK, Return
<1>3. /\ result'[Current(c)] = res
      /\ \A n \in Messages : n # Current(c) => result'[n] = result[n]
  BY <1>1 DEF WTypeOK, Return
<1>4. /\ \A n \in Messages : n # Current(c) => putBack'[n] = putBack[n]
      /\ putBack'[Current(c)] =
           IF res # "nil" /\ PutsBack(Current(c)) THEN putBack[Current(c)] + 1
           ELSE putBack[Current(c)]
  BY <1>1 DEF WTypeOK, Return
<1>5. caller' \in [Callers -> CallerStates]
  BY DEF WTypeOK, Return, CallerStates
<1>6. result' \in [Messages -> Results]
  BY <1>1 DEF WTypeOK, Return, Results
<1>7. putBack' = [n \in Messages |-> putBack'[n]]
  BY <1>1 DEF WTypeOK, Return
<1> QED
  BY <1>1, <1>2, <1>3, <1>4, <1>5, <1>6, <1>7 DEF ReturnEffect

\* The buffer of a call that has not been sent was not put back.
LEMMA CurrentBufferKept ==
  ASSUME WsInv, NEW c \in Callers, Current(c) \in Messages, caller[c].pc # "waiting"
  PROVE  /\ putBack[Current(c)] = 0
         /\ \A i \in DOMAIN sent : sent[i] # Current(c)
<1>1. ~ Underway(Current(c)) /\ ~ (Current(c)[2] < caller[Current(c)[1]].call)
  BY CurrentFacts DEF WsInv, Underway
<1>2. \A i \in DOMAIN sent : sent[i] # Current(c)
  BY <1>1 DEF WsInv, SentOnce
<1>3. putBack[Current(c)] \in 0..1
  BY DEF WsInv, WTypeOK
<1> QED
  BY <1>1, <1>2, <1>3 DEF WsInv, BuffersKept

\* Where the calls return, and with what.  A call that forwards a reader does not wait.
LEMMA CallReturns ==
  ASSUME WsInv, NEW c \in Callers,
         Call(c) \/ GiveUpSending(c) \/ ReceiveResult(c) \/ GiveUpWaiting(c),
         caller'[c].pc # "sending"
  PROVE  \E res \in {"nil", "writeError", "closed", "cancelled"} :
           /\ ReturnEffect(c, res)
           /\ res # "nil" /\ PutsBack(Current(c)) => putBack[Current(c)] = 0
           /\ caller[c].pc # "waiting" => res # "nil"
           /\ res = "nil" => respChan[Current(c)].closed
           /\ UNCHANGED <<cancelled, writerCh, sent, writer, written, respChan>>
<1>0. WTypeOK
  BY DEF WsInv
<1>1. caller[c].call <= Len(Program[c]) /\ Current(c) \in Messages
  <2>1. CASE caller[c].pc = "ready"
    BY <2>1, <1>0, CurrentFacts DEF Call, GiveUpSending, ReceiveResult, GiveUpWaiting
  <2>2. CASE caller[c].pc # "ready"
    BY <2>2, <1>0, CurrentFacts DEF WsInv, CallersKnowPlace
  <2> QED
    BY <2>1, <2>2
<1>2. caller[c].pc # "waiting" => putBack[Current(c)] = 0
  BY <1>1, CurrentBufferKept
<1>3. caller[c].pc = "waiting" => ~ PutsBack(Current(c))
  BY DEF WsInv, CallersKnowPlace, PutsBack
<1>4. \A res \in Results : Return(c, res) => ReturnEffect(c, res)
  BY <1>0, <1>1, ReturnDoes
<1> USE DEF Results
<1>5. CASE Call(c)
  <2>1. closed
    <3>1. caller[c] \in [pc : {"ready", "sending", "waiting"}, call : Nat \ {0}]
      BY <1>0 DEF WTypeOK
    <3> QED
      BY <1>5, <1>0 DEF Call, WTypeOK
  <2> QED
    BY <1>5, <2>1, <1>2, <1>4 DEF Call, queueVars, writerVars
<1>6. CASE GiveUpSending(c)
  BY <1>6, <1>2, <1>4 DEF GiveUpSending, queueVars, writerVars
<1>7. CASE ReceiveResult(c)
  <2>1. /\ respChan[Current(c)] \in [value : {"empty", "nil", "writeError"}, closed : BOOLEAN]
        /\ respChan[Current(c)].value # "empty" => respChan[Current(c)].closed
    BY <1>0, <1>1 DEF WTypeOK, WsInv, FlushAnswered
  <2> QED
    BY <1>7, <2>1, <1>3, <1>4 DEF ReceiveResult, queueVars, writerVars
<1>8. CASE GiveUpWaiting(c)
  BY <1>8, <1>3, <1>4 DEF GiveUpWaiting, queueVars, writerVars
<1> QED
  BY <1>5, <1>6, <1>7, <1>8

\* A call that goes on past the check of closed.
LEMMA CallPasses ==
  ASSUME WsInv, NEW c \in Callers,
         Call(c) \/ GiveUpSending(c) \/ ReceiveResult(c) \/ GiveUpWaiting(c),
         caller'[c].pc = "sending"
  PROVE  /\ caller[c].pc = "ready" /\ caller[c].call <= Len(Program[c])
         /\ caller' = [caller EXCEPT ![c].pc = "sending"]
         /\ UNCHANGED <<result, putBack, cancelled, writerCh, sent, writer, written, respChan>>
<1>1. ASSUME NEW res, Return(c, res) PROVE FALSE
  BY <1>1 DEF WsInv, WTypeOK, Return
<1> QED
  BY <1>1, Zenon DEF Call, GiveUpSending, ReceiveResult, GiveUpWaiting, queueVars, writerVars

\* What Enqueue changes: the message enters the history and the queue, and the caller
\* waits for its result or returns.
EnqueueEffect(c) ==
  LET m == Current(c)
  IN  /\ m \in Messages /\ caller[c].call <= Len(Program[c])
      /\ \A i \in DOMAIN sent : sent[i] # m
      /\ putBack[m] = 0 /\ ~ respChan[m].closed /\ result[m] # "nil"
      /\ Len(writerCh) < QueueSize
      /\ sent' = Append(sent, m) /\ writerCh' = Append(writerCh, m)
      /\ \A d \in Callers : d # c => caller'[d] = caller[d]
      /\ putBack' = putBack
      /\ \/ /\ Waits(m) /\ caller'[c] = [pc |-> "waiting", call |-> caller[c].call]
            /\ result' = result
         \/ /\ ~ Waits(m) /\ caller'[c] = [pc |-> "ready", call |-> caller[c].call + 1]
            /\ result' = [result EXCEPT ![m] = "nil"]
      /\ caller' \in [Callers -> CallerStates]
      /\ UNCHANGED <<cancelled, writer, written, respChan>>

LEMMA EnqueueDoes ==
  ASSUME WsInv, NEW c \in Callers, Enqueue(c)
  PROVE  EnqueueEffect(c)
<1>0. WTypeOK /\ caller[c].pc = "sending"
  BY DEF WsInv, Enqueue
<1>1. Current(c) \in Messages /\ caller[c].call <= Len(Program[c])
  BY <1>0, CurrentFacts DEF WsInv, CallersKnowPlace
<1>2. putBack[Current(c)] = 0 /\ \A i \in DOMAIN sent : sent[i] # Current(c)
  BY <1>0, <1>1, CurrentBufferKept
<1>3. ~ Underway(Current(c)) /\ ~ (Current(c)[2] < caller[Current(c)[1]].call)
  BY <1>0, CurrentFacts DEF Underway
<1>4. ~ respChan[Current(c)].closed /\ result[Current(c)] # "nil"
  BY <1>1, <1>3 DEF WsInv, FlushAnswered, ResultsOfPast
<1>5. CASE Waits(Current(c))
  <2>1. caller' = [caller EXCEPT ![c].pc = "waiting"] /\ result' = result /\ putBack' = putBack
    BY <1>5 DEF Enqueue
  <2>2. /\ caller'[c] = [pc |-> "waiting", call |-> caller[c].call]
        /\ \A d \in Callers : d # c => caller'[d] = caller[d]
    BY <2>1, <1>0 DEF WTypeOK
  <2>3. caller' \in [Callers -> CallerStates]
    <3>1. caller \in [Callers -> CallerStates] /\ caller[c] \in CallerStates
      <4>1. caller \in [Callers -> CallerStates]
        BY <1>0 DEF WTypeOK, CallerStates
      <4> QED
        BY <4>1
    <3>2. [pc |-> "waiting", call |-> caller[c].call] \in CallerStates
      BY <3>1 DEF CallerStates
    <3>3. DOMAIN caller' = Callers /\ caller' = [d \in Callers |-> caller'[d]]
      BY <2>1, <3>1
    <3>4. \A d \in Callers : caller'[d] \in CallerStates
      BY <2>2, <3>1, <3>2
    <3> QED
      BY <3>3, <3>4
  <2> QED
    BY <1>1, <1>2, <1>4, <1>5, <2>1, <2>2, <2>3 DEF Enqueue, EnqueueEffect, writerVars
<1>6. CASE ~ Waits(Current(c))
  <2>1. Return(c, "nil")
    BY <1>6 DEF Enqueue
  <2>2. /\ caller'[c] = [pc |-> "ready", call |-> caller[c].call + 1]
        /\ \A d \in Callers : d # c => caller'[d] = caller[d]
        /\ caller' \in [Callers -> CallerStates]
    BY <2>1, <1>0, <1>1, ReturnDoes DEF ReturnEffect, Results
  <2>3. result' = [result EXCEPT ![Current(c)] = "nil"]
    BY <2>1 DEF Return
  <2>4. putBack' = putBack
    BY <2>1, <1>0 DEF Return, WTypeOK
  <2> QED
    BY <1>1, <1>2, <1>4, <1>6, <2>2, <2>3, <2>4 DEF Enqueue, EnqueueEffect, writerVars
<1> QED
  BY <1>5, <1>6

\* The calls leave alone what closing and the writer are about.
LEMMA CallFrame ==
  ASSUME NEW c \in Callers, Call(c) \/ GiveUpSending(c) \/ ReceiveResult(c) \/ GiveUpWaiting(c)
  PROVE  /\ UNCHANGED <<closed, ctxDone, connClosed, closing, timeoutLoop>>
         /\ UNCHANGED <<writerCh, sent, writer, written, cancelled, respChan>>
BY DEF Call, GiveUpSending, ReceiveResult, GiveUpWaiting, closeVars, queueVars, writerVars

\* Every step keeps the types.
LEMMA TypePreserved ==
  ASSUME WsInv, [WNext]_wVars
  PROVE  WTypeOK'
<1>a. /\ caller \in [Callers -> CallerStates] /\ result \in [Messages -> Results]
      /\ putBack \in [Messages -> 0..1]
  BY DEF WsInv, WTypeOK, CallerStates, Results
<1>b. writer.pc \in {"writing", "responding"} => writer.msg \in Messages
  BY DEF WsInv, WTypeOK, WriterHasLast, QueueIsRest, Taken
<1>c. writer.pc = "writing" => putBack[writer.msg] = 0
  BY DEF WsInv, WTypeOK, WriterHasLast, QueueIsRest, Taken, BuffersKept
<1>1. ASSUME NEW c \in Callers, Enqueue(c) PROVE WTypeOK'
  <2>1. EnqueueEffect(c)
    BY <1>1, EnqueueDoes
  <2>2. /\ sent' \in Seq(Messages) /\ writerCh' \in Seq(Messages)
        /\ Len(writerCh') = Len(writerCh) + 1
    BY <2>1, AppendFacts DEF EnqueueEffect, WsInv, WTypeOK
  <2>3. \A d \in Callers : caller'[d].call <= Len(Program[d]) + 1
    <3>1. \A d \in Callers : Len(Program[d]) \in Nat /\ caller[d].call <= Len(Program[d]) + 1
      BY MessageFacts DEF WsInv, WTypeOK
    <3>2. \A d \in Callers : d # c => caller'[d] = caller[d]
      BY <2>1 DEF EnqueueEffect
    <3>3. /\ caller[c].call <= Len(Program[c])
          /\ caller'[c].call = caller[c].call \/ caller'[c].call = caller[c].call + 1
      BY <2>1 DEF EnqueueEffect
    <3> QED
      BY <3>1, <3>2, <3>3, <1>a DEF CallerStates
  <2>4. result' \in [Messages -> Results]
    BY <2>1, <1>a DEF EnqueueEffect, Results
  <2>5. Len(writerCh') <= QueueSize
    BY <2>1, <2>2, WsConnAssumption DEF EnqueueEffect, WsInv, WTypeOK
  <2> QED
    BY <1>1, <2>1, <2>2, <2>3, <2>4, <2>5 DEF WsInv, WTypeOK, EnqueueEffect, CallerStates,
       Results, Enqueue, closeVars
<1>2. ASSUME NEW c \in Callers, CancelCaller(c) PROVE WTypeOK'
  BY <1>2 DEF CancelCaller, WsInv, WTypeOK, queueVars, writerVars, closeVars
<1>3. ASSUME NEW c \in Callers, Call(c) \/ GiveUpSending(c) \/ ReceiveResult(c) \/ GiveUpWaiting(c)
      PROVE  WTypeOK'
  <2>1. CASE caller'[c].pc = "sending"
    <3>1. caller' \in [Callers -> CallerStates] /\ \A d \in Callers : caller'[d].call = caller[d].call
      BY <1>3, <2>1, <1>a, CallPasses DEF CallerStates
    <3> QED
      BY <1>3, <2>1, <3>1, CallPasses, CallFrame DEF WsInv, WTypeOK, CallerStates, closeVars
  <2>2. CASE caller'[c].pc # "sending"
    <3>1. PICK res \in {"nil", "writeError", "closed", "cancelled"} :
            /\ ReturnEffect(c, res)
            /\ res # "nil" /\ PutsBack(Current(c)) => putBack[Current(c)] = 0
            /\ UNCHANGED <<cancelled, writerCh, sent, writer, written, respChan>>
      BY <1>3, <2>2, CallReturns
    <3>2. \A n \in Messages : putBack'[n] \in 0..1
      BY <3>1, <1>a DEF ReturnEffect
    <3>3. putBack' \in [Messages -> 0..1]
      BY <3>1, <3>2 DEF ReturnEffect
    <3>4. \A d \in Callers : caller'[d].call <= Len(Program[d]) + 1
      <4>1. \A d \in Callers : Len(Program[d]) \in Nat /\ caller[d].call <= Len(Program[d]) + 1
        BY MessageFacts DEF WsInv, WTypeOK
      <4>2. /\ caller[c].call <= Len(Program[c]) /\ caller'[c].call = caller[c].call + 1
            /\ \A d \in Callers : d # c => caller'[d] = caller[d]
        BY <3>1 DEF ReturnEffect
      <4>3. caller[c].call \in Nat
        BY <1>a DEF CallerStates
      <4> QED
        BY <4>1, <4>2, <4>3
    <3> QED
      BY <1>3, <3>1, <3>3, <3>4, CallFrame DEF WsInv, WTypeOK, ReturnEffect, CallerStates,
         Results, closeVars
  <2> QED
    BY <2>1, <2>2
<1>4. CASE TakeMessage
  <2>1. writerCh' \in Seq(Messages) /\ Len(writerCh') = Len(writerCh) - 1 /\ Head(writerCh) \in Messages
    BY <1>4, TailFacts DEF TakeMessage, WsInv, WTypeOK
  <2> QED
    BY <1>4, <2>1, WsConnAssumption DEF TakeMessage, WsInv, WTypeOK, closeVars
<1>5. CASE SeeDone
  BY <1>5 DEF SeeDone, WsInv, WTypeOK, queueVars, writerVars, closeVars
<1>6. CASE Respond
  <2>1. respChan' \in [Messages -> [value : {"empty", "nil", "writeError"}, closed : BOOLEAN]]
    <3>1. /\ writer.msg \in Messages /\ writer.err \in {"nil", "writeError"}
          /\ respChan \in [Messages -> [value : {"empty", "nil", "writeError"}, closed : BOOLEAN]]
      BY <1>6, <1>b DEF Respond, WsInv, WTypeOK
    <3>2. \/ respChan' = [respChan EXCEPT ![writer.msg] = [value |-> writer.err, closed |-> TRUE]]
          \/ respChan' = [respChan EXCEPT ![writer.msg].closed = TRUE]
          \/ respChan' = respChan
      BY <1>6, Zenon DEF Respond
    <3>3. CASE respChan' = [respChan EXCEPT ![writer.msg] = [value |-> writer.err, closed |-> TRUE]]
      <4>1. [value |-> writer.err, closed |-> TRUE]
              \in [value : {"empty", "nil", "writeError"}, closed : BOOLEAN]
        BY <3>1
      <4> QED
        BY <3>1, <3>3, <4>1, Zenon
    <3>4. CASE respChan' = [respChan EXCEPT ![writer.msg].closed = TRUE]
      BY <3>1, <3>4
    <3> QED
      BY <3>1, <3>2, <3>3, <3>4
  <2> QED
    BY <1>6, <2>1 DEF Respond, AfterMessage, WsInv, WTypeOK, queueVars, closeVars
<1>7. CASE WriteSucceeds
  <2>1. written' \in Seq(Messages) /\ putBack' \in [Messages -> 0..1]
    BY <1>7, <1>b, <1>c, <1>a DEF WriteSucceeds, WsInv, WTypeOK
  <2> QED
    BY <1>7, <2>1 DEF WriteSucceeds, WsInv, WTypeOK, queueVars, closeVars
<1>8. CASE WriteFails
  <2>1. putBack' \in [Messages -> 0..1]
    BY <1>8, <1>b, <1>c, <1>a DEF WriteFails
  <2> QED
    BY <1>8, <2>1 DEF WriteFails, WsInv, WTypeOK, queueVars, closeVars
<1>9. ASSUME NEW x \in Closers \cup {Writer}, BeginClose(x) PROVE WTypeOK'
  BY <1>9 DEF BeginClose, WsInv, WTypeOK, queueVars, writerVars, closeVars
<1>10. ASSUME NEW x \in Closers \cup {Writer}, Cancel(x) PROVE WTypeOK'
  BY <1>10 DEF Cancel, WsInv, WTypeOK, queueVars, writerVars, closeVars
<1>11. ASSUME NEW x \in Closers \cup {Writer}, CloseConn(x) PROVE WTypeOK'
  BY <1>11 DEF CloseConn, WsInv, WTypeOK, queueVars, writerVars, closeVars
<1>12. ASSUME NEW x \in Closers \cup {Writer}, EndClose(x) PROVE WTypeOK'
  BY <1>12 DEF EndClose, WsInv, WTypeOK, queueVars, writerVars, closeVars
<1>13. CASE EndTimeoutLoop
  BY <1>13 DEF EndTimeoutLoop, WsInv, WTypeOK, queueVars, writerVars, closeVars
<1>14. CASE UNCHANGED wVars
  BY <1>14 DEF wVars, WsInv, WTypeOK, queueVars, writerVars, closeVars
<1> QED
  BY <1>1, <1>2, <1>3, <1>4, <1>5, <1>6, <1>7, <1>8, <1>9, <1>10, <1>11, <1>12, <1>13,
     <1>14
  DEF WNext, CallerSteps, WriterSteps, CloseSteps

-----------------------------------------------------------------------------
(* The queue and what the peer gets. *)

\* The lengths.
LEMMA Lengths ==
  ASSUME WsInv
  PROVE  /\ sent \in Seq(Messages) /\ writerCh \in Seq(Messages) /\ written \in Seq(Messages)
         /\ Len(sent) \in Nat /\ Len(writerCh) \in Nat /\ Len(written) \in Nat
         /\ Taken \in Nat /\ Taken <= Len(sent) /\ Taken + Len(writerCh) = Len(sent)
         /\ DOMAIN sent = 1..Len(sent) /\ DOMAIN written = 1..Len(written)
BY DEF WsInv, WTypeOK, QueueIsRest, Taken

\* A message enters at the end of the history and of the queue.
HistoryGrows ==
  /\ Len(sent') = Len(sent) + 1 /\ DOMAIN sent' = 1..(Len(sent) + 1)
  /\ \A i \in 1..Len(sent) : sent'[i] = sent[i]
  /\ Len(writerCh') = Len(writerCh) + 1
  /\ \A i \in 1..Len(writerCh) : writerCh'[i] = writerCh[i]
  /\ writerCh'[Len(writerCh) + 1] = sent'[Len(sent) + 1]
  /\ Taken' = Taken
  /\ UNCHANGED <<writer, written>>

\* The writer takes the next message of the history.
NextIsTaken ==
  /\ writer.pc = "select"
  /\ Taken' = Taken + 1 /\ Taken < Len(sent)
  /\ Len(writerCh') = Len(writerCh) - 1 /\ Len(writerCh) > 0
  /\ \A i \in 1..Len(writerCh') : writerCh'[i] = writerCh[i + 1]
  /\ writer' = [pc |-> IF IsPayload(sent[Taken + 1]) THEN "writing" ELSE "responding",
                msg |-> sent[Taken + 1], err |-> "nil"]
  /\ UNCHANGED <<sent, written>>

\* The peer gets the message in the writer's hand.
LastIsWritten ==
  /\ writer.pc = "writing" /\ writer' = [writer EXCEPT !.pc = "responding"]
  /\ Taken' = Taken /\ Taken >= 1 /\ IsPayload(sent[Taken])
  /\ Len(written') = Len(written) + 1 /\ DOMAIN written' = 1..(Len(written) + 1)
  /\ \A k \in 1..Len(written) : written'[k] = written[k]
  /\ written'[Len(written) + 1] = sent[Taken]
  /\ UNCHANGED <<sent, writerCh>>

\* Nothing moves, or the writer goes on after a success, fails, or ends.
NothingMoves ==
  /\ UNCHANGED <<sent, writerCh, written>>
  /\ \/ writer' = writer
     \/ writer'.pc \in {"closing", "done"}
     \/ writer.pc = "responding" /\ writer.err = "nil" /\ writer'.pc = "select"
     \/ writer.pc = "writing" /\ writer' = [writer EXCEPT !.pc = "responding", !.err = "writeError"]

LEMMA EnqueueGrows ==
  ASSUME WsInv, NEW c \in Callers, EnqueueEffect(c)
  PROVE  HistoryGrows /\ sent'[Len(sent) + 1] = Current(c)
<1>1. /\ Len(sent') = Len(sent) + 1 /\ DOMAIN sent' = 1..(Len(sent) + 1)
      /\ \A i \in 1..Len(sent) : sent'[i] = sent[i]
      /\ sent'[Len(sent) + 1] = Current(c)
  BY Lengths, AppendFacts DEF EnqueueEffect
<1>2. /\ Len(writerCh') = Len(writerCh) + 1
      /\ \A i \in 1..Len(writerCh) : writerCh'[i] = writerCh[i]
      /\ writerCh'[Len(writerCh) + 1] = Current(c)
  BY Lengths, AppendFacts DEF EnqueueEffect
<1>3. Taken' = Taken
  BY <1>1, <1>2, Lengths DEF Taken
<1> QED
  BY <1>1, <1>2, <1>3 DEF HistoryGrows, EnqueueEffect

LEMMA TakeMessageTakes ==
  ASSUME WsInv, TakeMessage
  PROVE  NextIsTaken
<1>1. /\ writerCh # <<>> /\ writerCh' = Tail(writerCh) /\ UNCHANGED <<sent, written>>
  BY DEF TakeMessage
<1>2. /\ Len(writerCh) > 0 /\ Head(writerCh) = writerCh[1]
      /\ Len(writerCh') = Len(writerCh) - 1
      /\ \A i \in 1..(Len(writerCh) - 1) : writerCh'[i] = writerCh[i + 1]
  BY <1>1, Lengths, TailFacts
<1>3. Head(writerCh) = sent[Taken + 1]
  BY <1>2, Lengths DEF WsInv, QueueIsRest
<1>4. Taken' = Taken + 1 /\ Taken < Len(sent)
  BY <1>1, <1>2, Lengths DEF Taken
<1> QED
  BY <1>1, <1>2, <1>3, <1>4 DEF TakeMessage, NextIsTaken, IsPayload

LEMMA WriteSucceedsWrites ==
  ASSUME WsInv, WriteSucceeds
  PROVE  LastIsWritten
<1>1. writer.msg = sent[Taken] /\ Taken >= 1 /\ IsPayload(sent[Taken])
  BY DEF WsInv, WriterHasLast, WriteSucceeds
<1>2. sent[Taken] \in Messages
  BY <1>1, Lengths
<1>3. written' = Append(written, sent[Taken]) /\ UNCHANGED <<sent, writerCh>>
  BY <1>1 DEF WriteSucceeds, queueVars
<1>4. /\ Len(written') = Len(written) + 1 /\ DOMAIN written' = 1..(Len(written) + 1)
      /\ \A k \in 1..Len(written) : written'[k] = written[k]
      /\ written'[Len(written) + 1] = sent[Taken]
  BY <1>2, <1>3, Lengths, AppendFacts
<1>5. Taken' = Taken
  BY <1>3 DEF Taken
<1> QED
  BY <1>1, <1>3, <1>4, <1>5 DEF WriteSucceeds, LastIsWritten

\* What a step does to the history, the queue, the writer and the peer's messages.
LEMMA QueueSteps ==
  ASSUME WsInv, [WNext]_wVars
  PROVE  HistoryGrows \/ NextIsTaken \/ LastIsWritten \/ NothingMoves
<1>a. writer \in [pc : {"select", "writing", "responding", "closing", "done"},
                 msg : Messages \cup {NoMessage}, err : {"nil", "writeError"}]
  BY DEF WsInv, WTypeOK
<1>1. ASSUME NEW c \in Callers, Enqueue(c)
      PROVE  HistoryGrows \/ NextIsTaken \/ LastIsWritten \/ NothingMoves
  BY <1>1, EnqueueDoes, EnqueueGrows
<1>2. ASSUME NEW c \in Callers, Call(c) \/ GiveUpSending(c) \/ ReceiveResult(c) \/ GiveUpWaiting(c) \/ CancelCaller(c)
      PROVE  HistoryGrows \/ NextIsTaken \/ LastIsWritten \/ NothingMoves
  BY <1>2, CallFrame DEF NothingMoves, CancelCaller, queueVars, writerVars
<1>3. CASE TakeMessage
  BY <1>3, TakeMessageTakes
<1>4. CASE SeeDone
  BY <1>4, <1>a DEF SeeDone, NothingMoves, AfterMessage, queueVars, writerVars
<1>5. CASE Respond
  BY <1>5, <1>a DEF Respond, NothingMoves, AfterMessage, queueVars, writerVars
<1>6. CASE WriteSucceeds
  BY <1>6, WriteSucceedsWrites
<1>7. CASE WriteFails
  BY <1>7, <1>a DEF WriteFails, NothingMoves, AfterMessage, queueVars, writerVars
<1>8. ASSUME NEW x \in Closers \cup {Writer}, EndClose(x)
      PROVE  HistoryGrows \/ NextIsTaken \/ LastIsWritten \/ NothingMoves
  BY <1>8, <1>a DEF EndClose, NothingMoves, AfterMessage, queueVars, writerVars
<1>9. ASSUME NEW x \in Closers \cup {Writer}, BeginClose(x) \/ Cancel(x) \/ CloseConn(x)
      PROVE  HistoryGrows \/ NextIsTaken \/ LastIsWritten \/ NothingMoves
  BY <1>9, <1>a DEF BeginClose, Cancel, CloseConn, NothingMoves, AfterMessage, queueVars,
     writerVars
<1>10. CASE EndTimeoutLoop
  BY <1>10, <1>a DEF EndTimeoutLoop, NothingMoves, AfterMessage, queueVars, writerVars
<1>11. CASE UNCHANGED wVars
  BY <1>11, <1>a DEF wVars, NothingMoves, AfterMessage, queueVars, writerVars
<1> QED
  BY <1>1, <1>2, <1>3, <1>4, <1>5, <1>6, <1>7, <1>8, <1>9, <1>10, <1>11
  DEF WNext, CallerSteps, WriterSteps, CloseSteps

-----------------------------------------------------------------------------
(* The callers. *)

\* A call goes on past the check of closed.
Passes(c) ==
  /\ caller[c].pc = "ready" /\ caller'[c].pc = "sending"
  /\ caller'[c].call = caller[c].call /\ caller[c].call <= Len(Program[c])
  /\ \A d \in Callers : d # c => caller'[d] = caller[d]
  /\ UNCHANGED <<result, putBack, sent, writerCh, writer, written, respChan>>

\* A call returns with res; when its buffer is put back, it was not sent.
Returns(c, res) ==
  /\ ReturnEffect(c, res) /\ res # "none"
  /\ res # "nil" /\ PutsBack(Current(c)) =>
       putBack[Current(c)] = 0 /\ \A i \in DOMAIN sent : sent[i] # Current(c)
  /\ res = "nil" => respChan[Current(c)].closed
  /\ UNCHANGED <<sent, writerCh, writer, written, respChan>>

\* A call goes on or returns.
LEMMA CallMoves ==
  ASSUME WsInv, NEW c \in Callers,
         Call(c) \/ GiveUpSending(c) \/ ReceiveResult(c) \/ GiveUpWaiting(c)
  PROVE  Passes(c) \/ \E res \in Results : Returns(c, res)
<1>a. caller \in [Callers -> CallerStates]
  BY DEF WsInv, WTypeOK, CallerStates
<1>1. CASE caller'[c].pc = "sending"
  <2>1. /\ caller[c].pc = "ready" /\ caller[c].call <= Len(Program[c])
        /\ caller' = [caller EXCEPT ![c].pc = "sending"]
        /\ UNCHANGED <<result, putBack, sent, writerCh, writer, written, respChan>>
    BY <1>1, CallPasses
  <2> QED
    BY <2>1, <1>a DEF Passes, CallerStates
<1>2. CASE caller'[c].pc # "sending"
  <2>1. PICK res \in {"nil", "writeError", "closed", "cancelled"} :
          /\ ReturnEffect(c, res)
          /\ res # "nil" /\ PutsBack(Current(c)) => putBack[Current(c)] = 0
          /\ res = "nil" => respChan[Current(c)].closed
          /\ UNCHANGED <<writerCh, sent, writer, written, respChan>>
    BY <1>2, CallReturns
  <2>2. PutsBack(Current(c)) => \A i \in DOMAIN sent : sent[i] # Current(c)
    <3>1. PutsBack(Current(c)) => caller[c].pc # "waiting"
      BY DEF WsInv, CallersKnowPlace, PutsBack
    <3>2. Current(c) \in Messages
      BY <2>1 DEF ReturnEffect
    <3> QED
      BY <3>1, <3>2, CurrentBufferKept
  <2>3. Returns(c, res)
    BY <2>1, <2>2 DEF Returns
  <2> QED
    BY <2>3 DEF Results
<1> QED
  BY <1>1, <1>2

\* What a step does to the callers.
LEMMA CallerMoves ==
  ASSUME WsInv, [WNext]_wVars
 
      PROVE   \/ \E c \in Callers : Passes(c) \/ EnqueueEffect(c) \/ \E res \in Results : Returns(c, res)
         \/ UNCHANGED <<caller, result, sent>>
<1>1. ASSUME NEW c \in Callers,
             Call(c) \/ GiveUpSending(c) \/ ReceiveResult(c) \/ GiveUpWaiting(c)
      PROVE  Passes(c) \/ \E res \in Results : Returns(c, res)
  BY <1>1, CallMoves
<1>2. ASSUME NEW c \in Callers, Enqueue(c) PROVE EnqueueEffect(c)
  BY <1>2, EnqueueDoes
<1>3. ASSUME NEW c \in Callers, CancelCaller(c) PROVE UNCHANGED <<caller, result, sent>>
  BY <1>3 DEF CancelCaller, queueVars
<1>4. CASE WriterSteps \/ WriteSucceeds \/ WriteFails \/ EndTimeoutLoop \/ UNCHANGED wVars
  BY <1>4 DEF WriterSteps, TakeMessage, SeeDone, Respond, WriteSucceeds, WriteFails,
     EndTimeoutLoop,
     queueVars, wVars
<1>5. ASSUME NEW x \in Closers \cup {Writer}, BeginClose(x) \/ CloseSteps(x)
      PROVE  UNCHANGED <<caller, result, sent>>
  BY <1>5 DEF CloseSteps, BeginClose, Cancel, CloseConn, EndClose, queueVars
<1> QED
  BY <1>1, <1>2, <1>3, <1>4, <1>5, Zenon DEF WNext, CallerSteps

\* A caller goes forward.
Forward ==
  \A c \in Callers :
    \/ caller'[c] = caller[c]
    \/ caller'[c].call = caller[c].call + 1
    \/ caller'[c].call = caller[c].call /\ caller[c].pc # "waiting"

\* What has returned has returned, and what is underway stays so.
LEMMA PastStays ==
  ASSUME WsInv, [WNext]_wVars, NEW m \in Messages
  PROVE  /\ m[2] < caller[m[1]].call => m[2] < caller'[m[1]].call
         /\ Underway(m) => Underway(m)'
<1>1. \A c \in Callers : caller[c].call \in Nat /\ caller'[c].call \in Nat
  BY TypePreserved DEF WsInv, WTypeOK
<1>2. m[1] \in Callers /\ m[2] \in Nat
  BY MessageFacts
<1>3. Forward
  <2>1. ASSUME NEW c \in Callers, Passes(c) PROVE Forward
    BY <2>1 DEF Passes, Forward
  <2>2. ASSUME NEW c \in Callers, EnqueueEffect(c) PROVE Forward
    <3>1. caller[c].pc # "waiting" \/ caller'[c].call = caller[c].call + 1
      <4>1. \A i \in DOMAIN sent : sent[i] # Current(c)
        BY <2>2 DEF EnqueueEffect
      <4> QED
        BY <4>1 DEF WsInv, CallersKnowPlace
    <3>2. \A d \in Callers : d # c => caller'[d] = caller[d]
      BY <2>2 DEF EnqueueEffect
    <3>3. caller'[c].call = caller[c].call \/ caller'[c].call = caller[c].call + 1
      BY <2>2 DEF EnqueueEffect
    <3> QED
      BY <3>1, <3>2, <3>3 DEF Forward
  <2>3. ASSUME NEW c \in Callers, NEW res \in Results, Returns(c, res) PROVE Forward
    BY <2>3 DEF Returns, ReturnEffect, Forward
  <2>4. CASE UNCHANGED <<caller, result, sent>>
    BY <2>4 DEF Forward
  <2> QED
    BY <2>1, <2>2, <2>3, <2>4, CallerMoves
<1> QED
  BY <1>1, <1>2, <1>3 DEF Forward, Underway

\* A message is sent once.
LEMMA SentOncePreserved ==
  ASSUME WsInv, [WNext]_wVars
  PROVE  SentOnce'
<1>1. /\ \A i \in DOMAIN sent : sent[i] \in Messages /\ Underway(sent[i])
      /\ \A i \in DOMAIN sent, j \in DOMAIN sent : sent[i] = sent[j] => i = j
      /\ Len(sent) \in Nat /\ DOMAIN sent = 1..Len(sent)
  BY Lengths DEF WsInv, SentOnce
<1>2. \A i \in DOMAIN sent : Underway(sent[i])'
  <2>1. ASSUME NEW i \in DOMAIN sent, sent' = sent PROVE Underway(sent[i])'
    BY <1>1, <2>1, PastStays DEF Underway
  <2>2. ASSUME NEW i \in DOMAIN sent, HistoryGrows PROVE Underway(sent[i])'
    <3>1. sent'[i] = sent[i]
      BY <1>1, <2>2 DEF HistoryGrows
    <3> QED
      BY <1>1, <3>1, PastStays DEF Underway
  <2> QED
    BY <2>1, <2>2, QueueSteps DEF NextIsTaken, LastIsWritten, NothingMoves
<1>3. ASSUME NEW c \in Callers, EnqueueEffect(c) PROVE SentOnce'
  <2>1. /\ HistoryGrows /\ sent'[Len(sent) + 1] = Current(c)
        /\ \A i \in DOMAIN sent : sent[i] # Current(c)
    BY <1>3, EnqueueGrows DEF EnqueueEffect
  <2>2. ASSUME NEW i \in DOMAIN sent', i = Len(sent) + 1 PROVE Underway(sent[i])'
    <3>1. /\ Current(c)[1] = c /\ Current(c)[2] = caller[c].call /\ caller[c].call \in Nat \ {0}
      BY CurrentFacts DEF WsInv
    <3>2. \/ caller'[c] = [pc |-> "waiting", call |-> caller[c].call]
          \/ caller'[c] = [pc |-> "ready", call |-> caller[c].call + 1]
      BY <1>3 DEF EnqueueEffect
    <3> QED
      BY <3>1, <3>2, <2>1, <2>2 DEF Underway
  <2>3. \A i \in DOMAIN sent' : i \in DOMAIN sent \/ i = Len(sent) + 1
    BY <1>1, <2>1 DEF HistoryGrows
  <2> QED
    BY <1>1, <1>2, <2>1, <2>2, <2>3 DEF SentOnce, HistoryGrows
<1>4. CASE sent' = sent
  BY <1>1, <1>2, <1>4 DEF SentOnce
<1> QED
  BY <1>3, <1>4, CallerMoves DEF Passes, Returns

\* A caller keeps its place.
LEMMA CallersKnowPlacePreserved ==
  ASSUME WsInv, [WNext]_wVars
  PROVE  CallersKnowPlace'
<1>1. /\ CallersKnowPlace /\ Len(sent) \in Nat /\ DOMAIN sent = 1..Len(sent)
      /\ caller \in [Callers -> CallerStates]
  BY Lengths DEF WsInv, WTypeOK, CallerStates
<1>2. \A i \in DOMAIN sent : i \in DOMAIN sent' /\ sent'[i] = sent[i]
  BY <1>1, QueueSteps DEF HistoryGrows, NextIsTaken, LastIsWritten, NothingMoves
<1>3. ASSUME NEW d \in Callers, caller'[d] = caller[d]
      PROVE  /\ caller'[d].pc # "ready" => caller'[d].call <= Len(Program[d])
             /\ caller'[d].pc = "waiting" =>
                  KindOf(Current(d)') # "forward" /\ \E i \in DOMAIN sent' : sent'[i] = Current(d)'
  <2>1. Current(d)' = Current(d)
    BY <1>3 DEF Current
  <2> QED
    BY <1>1, <1>2, <1>3, <2>1 DEF CallersKnowPlace
<1>4. ASSUME NEW c \in Callers, Passes(c) PROVE CallersKnowPlace'
  BY <1>3, <1>4 DEF Passes, CallersKnowPlace
<1>5. ASSUME NEW c \in Callers, EnqueueEffect(c) PROVE CallersKnowPlace'
  <2>1. sent'[Len(sent) + 1] = Current(c) /\ Len(sent) + 1 \in DOMAIN sent'
    BY <1>1, <1>5, EnqueueGrows DEF HistoryGrows
  <2>2. /\ caller'[c].pc # "ready" => caller'[c].call <= Len(Program[c])
        /\ caller'[c].pc = "waiting" => Waits(Current(c)) /\ Current(c)' = Current(c)
    BY <1>5 DEF EnqueueEffect, Current
  <2>3. Waits(Current(c)) => KindOf(Current(c)) # "forward"
    BY DEF Waits
  <2>4. \A d \in Callers : d # c => caller'[d] = caller[d]
    BY <1>5 DEF EnqueueEffect
  <2> QED
    BY <1>3, <2>1, <2>2, <2>3, <2>4 DEF CallersKnowPlace
<1>6. ASSUME NEW c \in Callers, NEW res \in Results, Returns(c, res) PROVE CallersKnowPlace'
  BY <1>3, <1>6 DEF Returns, ReturnEffect, CallersKnowPlace
<1>7. CASE UNCHANGED <<caller, result, sent>>
  BY <1>3, <1>7 DEF CallersKnowPlace
<1> QED
  BY <1>4, <1>5, <1>6, <1>7, CallerMoves

\* A result belongs to a call that has returned.
LEMMA ResultsOfPastPreserved ==
  ASSUME WsInv, [WNext]_wVars
  PROVE  ResultsOfPast'
<1>1. ASSUME NEW m \in Messages, result'[m] = result[m] \/ result[m] # "none", result'[m] # "none"
      PROVE  m[2] < caller'[m[1]].call
  BY <1>1, PastStays DEF WsInv, ResultsOfPast
<1>2. ASSUME NEW c \in Callers, caller'[c].call = caller[c].call + 1
      PROVE  Current(c)[2] < caller'[Current(c)[1]].call
  BY <1>2, CurrentFacts DEF WsInv
<1>3. ASSUME NEW c \in Callers, Passes(c) PROVE ResultsOfPast'
  BY <1>1, <1>3 DEF Passes, ResultsOfPast
<1>4. ASSUME NEW c \in Callers, EnqueueEffect(c) PROVE ResultsOfPast'
  <2>1. CASE result' = result
    BY <1>1, <2>1 DEF ResultsOfPast
  <2>2. CASE result' # result
    <3>1. caller'[c].call = caller[c].call + 1 /\ result' = [result EXCEPT ![Current(c)] = "nil"]
      BY <1>4, <2>2 DEF EnqueueEffect
    <3>2. \A m \in Messages : m # Current(c) => result'[m] = result[m]
      BY <3>1 DEF WsInv, WTypeOK
    <3> QED
      BY <1>1, <1>2, <3>1, <3>2 DEF ResultsOfPast
  <2> QED
    BY <2>1, <2>2
<1>5. ASSUME NEW c \in Callers, NEW res \in Results, Returns(c, res) PROVE ResultsOfPast'
  <2>1. /\ caller'[c].call = caller[c].call + 1
        /\ \A m \in Messages : m # Current(c) => result'[m] = result[m]
    BY <1>5 DEF Returns, ReturnEffect
  <2> QED
    BY <1>1, <1>2, <2>1 DEF ResultsOfPast
<1>6. CASE UNCHANGED <<caller, result, sent>>
  BY <1>1, <1>6 DEF ResultsOfPast
<1> QED
  BY <1>3, <1>4, <1>5, <1>6, CallerMoves

-----------------------------------------------------------------------------
(* The queue, the writer and the peer. *)

\* What had reached the peer before has still reached it.
LEMMA ReachedStays ==
  ASSUME WsInv, HistoryGrows \/ NextIsTaken \/ LastIsWritten \/ NothingMoves,
         NEW i \in 1..(Len(sent) + 1), NEW l \in 0..Len(written), ReachedBefore(i, l)
  PROVE  ReachedBefore(i, l)'
<1>1. Len(sent) \in Nat /\ Len(written) \in Nat
  BY Lengths
<1>2. \A j \in 1..(i - 1) : sent'[j] = sent[j]
  BY <1>1 DEF HistoryGrows, NextIsTaken, LastIsWritten, NothingMoves
<1>3. \A k \in 1..l : written'[k] = written[k]
  BY <1>1 DEF HistoryGrows, NextIsTaken, LastIsWritten, NothingMoves
<1> QED
  BY <1>2, <1>3 DEF ReachedBefore

\* The queue stays the rest of the history.
LEMMA QueueIsRestPreserved ==
  ASSUME WsInv, [WNext]_wVars
  PROVE  QueueIsRest'
<1>1. /\ Taken \in Nat /\ Len(writerCh) \in Nat /\ Len(sent) = Taken + Len(writerCh)
      /\ \A i \in 1..Len(writerCh) : writerCh[i] = sent[Taken + i]
  BY Lengths DEF WsInv, QueueIsRest
<1>2. CASE HistoryGrows
  <2>1. \A i \in 1..Len(writerCh) : writerCh'[i] = sent'[Taken + i]
    BY <1>1, <1>2 DEF HistoryGrows
  <2> QED
    BY <1>1, <1>2, <2>1 DEF HistoryGrows, QueueIsRest
<1>3. CASE NextIsTaken
  <2>1. \A i \in 1..(Len(writerCh) - 1) : writerCh'[i] = sent[Taken + 1 + i]
    <3>1. Len(writerCh') = Len(writerCh) - 1 /\ \A i \in 1..Len(writerCh') : writerCh'[i] = writerCh[i + 1]
      BY <1>3 DEF NextIsTaken
    <3>2. \A i \in 1..(Len(writerCh) - 1) : i + 1 \in 1..Len(writerCh) /\ Taken + (i + 1) = Taken + 1 + i
      BY <1>1
    <3> QED
      BY <1>1, <3>1, <3>2
  <2>2. Taken' = Taken + 1 /\ Len(writerCh') = Len(writerCh) - 1 /\ sent' = sent
    BY <1>3 DEF NextIsTaken
  <2> QED
    BY <1>1, <2>1, <2>2 DEF QueueIsRest
<1>4. CASE LastIsWritten \/ NothingMoves
  BY <1>1, <1>4 DEF LastIsWritten, NothingMoves, QueueIsRest, Taken
<1> QED
  BY <1>2, <1>3, <1>4, QueueSteps

\* The writer's message is the last it took.
LEMMA WriterHasLastPreserved ==
  ASSUME WsInv, [WNext]_wVars
  PROVE  WriterHasLast'
<1>1. /\ Taken \in Nat /\ Len(sent) \in Nat /\ Taken <= Len(sent)
      /\ writer \in [pc : {"select", "writing", "responding", "closing", "done"},
                     msg : Messages \cup {NoMessage}, err : {"nil", "writeError"}]
  BY Lengths DEF WsInv, WTypeOK
<1>2. WriterHasLast
  BY DEF WsInv
<1>3. CASE HistoryGrows
  BY <1>1, <1>2, <1>3 DEF HistoryGrows, WriterHasLast
<1>4. CASE NextIsTaken
  BY <1>1, <1>4 DEF NextIsTaken, WriterHasLast
<1>5. CASE LastIsWritten
  BY <1>1, <1>2, <1>5 DEF LastIsWritten, WriterHasLast
<1>6. CASE NothingMoves
  BY <1>1, <1>2, <1>6 DEF NothingMoves, WriterHasLast, Taken
<1> QED
  BY <1>3, <1>4, <1>5, <1>6, QueueSteps

\* What the peer has got was taken, each message once.
LEMMA WrittenWasTakenPreserved ==
  ASSUME WsInv, [WNext]_wVars
  PROVE  WrittenWasTaken'
<1>1. /\ Taken \in Nat /\ Len(sent) \in Nat /\ Taken <= Len(sent) /\ Len(written) \in Nat
      /\ DOMAIN sent = 1..Len(sent) /\ DOMAIN written = 1..Len(written)
  BY Lengths
<1>2. WrittenWasTaken /\ \A i \in DOMAIN sent, j \in DOMAIN sent : sent[i] = sent[j] => i = j
  BY DEF WsInv, SentOnce
<1>3. CASE HistoryGrows
  BY <1>1, <1>2, <1>3 DEF HistoryGrows, WrittenWasTaken
<1>4. CASE NextIsTaken
  <2>1. \A k \in DOMAIN written : \E i \in 1..Taken : written[k] = sent[i] /\ IsPayload(sent[i])
    BY <1>2 DEF WrittenWasTaken
  <2>2. \A i \in 1..Taken : i \in 1..Taken' /\ i # Taken'
    BY <1>1, <1>4 DEF NextIsTaken
  <2>3. UNCHANGED <<sent, written>>
    BY <1>4 DEF NextIsTaken
  <2> QED
    BY <1>2, <2>1, <2>2, <2>3 DEF WrittenWasTaken
<1>5. CASE LastIsWritten
  <2>1. \A k \in 1..Len(written) : \E i \in 1..Taken :
          written[k] = sent[i] /\ IsPayload(sent[i]) /\ i # Taken
    BY <1>1, <1>2, <1>5 DEF LastIsWritten, WrittenWasTaken
  <2>2. \A k \in 1..Len(written) : written[k] # sent[Taken]
    BY <1>1, <1>2, <1>5, <2>1 DEF LastIsWritten
  <2>3. /\ Taken \in 1..Taken /\ IsPayload(sent[Taken]) /\ Taken' = Taken /\ sent' = sent
        /\ DOMAIN written' = 1..(Len(written) + 1)
        /\ \A k \in 1..Len(written) : written'[k] = written[k]
        /\ written'[Len(written) + 1] = sent[Taken]
        /\ writer'.pc # "writing"
    <3>1. writer'.pc = "responding"
      BY <1>5 DEF LastIsWritten, WsInv, WTypeOK
    <3> QED
      BY <1>1, <1>5, <3>1 DEF LastIsWritten
  <2>4. ASSUME NEW k \in DOMAIN written'
        PROVE  \E i \in 1..Taken' : written'[k] = sent'[i] /\ IsPayload(sent'[i])
    <3>1. CASE k \in 1..Len(written)
      BY <3>1, <2>1, <2>3
    <3>2. CASE k = Len(written) + 1
      BY <3>2, <2>3
    <3> QED
      BY <3>1, <3>2, <2>3, <2>4, <1>1
  <2>5. ASSUME NEW k \in DOMAIN written', NEW l \in DOMAIN written', written'[k] = written'[l]
        PROVE  k = l
    <3>1. CASE k \in 1..Len(written) /\ l \in 1..Len(written)
      BY <3>1, <2>3, <2>5, <1>1, <1>2 DEF WrittenWasTaken
    <3>2. CASE k = Len(written) + 1 \/ l = Len(written) + 1
      BY <3>2, <2>2, <2>3, <2>5, <1>1
    <3> QED
      BY <3>1, <3>2, <2>3, <2>5, <1>1
  <2> QED
    BY <2>3, <2>4, <2>5 DEF WrittenWasTaken
<1>6. CASE NothingMoves
  <2>1. writer'.pc = "writing" => writer.pc = "writing"
    BY <1>6 DEF NothingMoves, WsInv, WTypeOK
  <2> QED
    BY <1>2, <1>6, <2>1 DEF NothingMoves, WrittenWasTaken, Taken
<1> QED
  BY <1>3, <1>4, <1>5, <1>6, QueueSteps

\* Nothing that was taken is missing until something fails.
LEMMA NothingMissingPreserved ==
  ASSUME WsInv, [WNext]_wVars
  PROVE  NothingMissing'
<1>1. /\ Taken \in Nat /\ Len(sent) \in Nat /\ Taken <= Len(sent) /\ Len(written) \in Nat
      /\ writer \in [pc : {"select", "writing", "responding", "closing", "done"},
                     msg : Messages \cup {NoMessage}, err : {"nil", "writeError"}]
      /\ writer.pc \in {"writing", "responding"} => Taken >= 1
  BY Lengths DEF WsInv, WTypeOK, WriterHasLast
<1>2. NothingMissing
  BY DEF WsInv
<1>3. CASE HistoryGrows
  <2>1. Taken' = Taken /\ writer' = writer /\ written' = written
    BY <1>3 DEF HistoryGrows
  <2>2. /\ ReachedBefore(Taken + 1, Len(written)) => ReachedBefore(Taken + 1, Len(written))'
        /\ Taken >= 1 /\ ReachedBefore(Taken, Len(written)) => ReachedBefore(Taken, Len(written))'
    BY <1>1, <1>3, <2>1, ReachedStays
  <2> QED
    BY <1>1, <1>2, <2>1, <2>2 DEF NothingMissing
<1>4. CASE NextIsTaken
  <2>1. ReachedBefore(Taken + 1, Len(written))
    BY <1>2, <1>4 DEF NextIsTaken, NothingMissing
  <2>2. /\ Taken' = Taken + 1 /\ sent' = sent /\ written' = written
        /\ writer'.pc = IF IsPayload(sent[Taken + 1]) THEN "writing" ELSE "responding"
    BY <1>4 DEF NextIsTaken
  <2>3. \A j \in 1..Taken : IsPayload(sent[j]) => \E k \in 1..Len(written) : written[k] = sent[j]
    BY <1>1, <2>1 DEF ReachedBefore
  <2>4. \A j \in 1..(Taken' - 1) :
          IsPayload(sent'[j]) => \E k \in 1..Len(written') : written'[k] = sent'[j]
    <3>1. Taken' - 1 = Taken
      BY <1>1, <2>2
    <3> QED
      BY <2>2, <2>3, <3>1
  <2>5. writer'.pc = "responding" =>
          \A j \in 1..(Taken' + 1 - 1) :
            IsPayload(sent'[j]) => \E k \in 1..Len(written') : written'[k] = sent'[j]
    <3>1. \A j \in 1..(Taken' + 1 - 1) : j \in 1..Taken \/ j = Taken + 1
      BY <1>1, <2>2
    <3> QED
      BY <2>2, <2>3, <3>1
  <2> QED
    BY <2>2, <2>4, <2>5 DEF NothingMissing, ReachedBefore
<1>5. CASE LastIsWritten
  <2>1. ReachedBefore(Taken, Len(written))
    BY <1>2, <1>5 DEF LastIsWritten, NothingMissing
  <2>2. /\ writer'.pc = "responding" /\ Taken' = Taken /\ sent' = sent
        /\ Len(written') = Len(written) + 1
        /\ \A k \in 1..Len(written) : written'[k] = written[k]
        /\ written'[Len(written) + 1] = sent[Taken]
    BY <1>1, <1>5 DEF LastIsWritten
  <2>3. \A j \in 1..(Taken - 1) : IsPayload(sent[j]) => \E k \in 1..Len(written') : written'[k] = sent[j]
    <3>1. \A j \in 1..(Taken - 1) : IsPayload(sent[j]) => \E k \in 1..Len(written) : written[k] = sent[j]
      BY <2>1 DEF ReachedBefore
    <3>2. \A k \in 1..Len(written) : k \in 1..Len(written')
      BY <1>1, <2>2
    <3> QED
      BY <2>2, <3>1, <3>2
  <2>4. \E k \in 1..Len(written') : written'[k] = sent[Taken]
    BY <1>1, <2>2
  <2>5. \A j \in 1..(Taken + 1 - 1) : j \in 1..(Taken - 1) \/ j = Taken
    BY <1>1
  <2>6. \A j \in 1..(Taken' - 1) : IsPayload(sent'[j]) => \E k \in 1..Len(written') : written'[k] = sent'[j]
    BY <2>2, <2>3
  <2>7. \A j \in 1..(Taken' + 1 - 1) :
          IsPayload(sent'[j]) => \E k \in 1..Len(written') : written'[k] = sent'[j]
    BY <2>2, <2>3, <2>4, <2>5
  <2>8. writer'.pc = "responding"
    BY <2>2
  <2> QED
    BY <1>1, <2>2, <2>6, <2>7, <2>8 DEF NothingMissing, ReachedBefore
<1>6. CASE NothingMoves
  <2>1. Taken' = Taken /\ sent' = sent /\ written' = written
    BY <1>6 DEF NothingMoves, Taken
  <2>2. \/ writer' = writer
        \/ writer'.pc \in {"closing", "done"}
        \/ writer.pc = "responding" /\ writer.err = "nil" /\ writer'.pc = "select"
        \/ writer.pc = "writing" /\ writer'.pc = "responding" /\ writer'.err = "writeError"
    BY <1>1, <1>6 DEF NothingMoves
  <2> QED
    BY <1>2, <2>1, <2>2 DEF NothingMissing, ReachedBefore
<1> QED
  BY <1>3, <1>4, <1>5, <1>6, QueueSteps

\* The order is kept: what is written next comes after all that was taken before it.
LEMMA InOrderPreserved ==
  ASSUME WsInv, [WNext]_wVars
  PROVE  InOrder'
<1>1. /\ Taken \in Nat /\ Len(sent) \in Nat /\ Taken <= Len(sent) /\ Len(written) \in Nat
      /\ DOMAIN sent = 1..Len(sent) /\ DOMAIN written = 1..Len(written)
  BY Lengths
<1>2. /\ InOrder /\ \A i \in DOMAIN sent, j \in DOMAIN sent : sent[i] = sent[j] => i = j
      /\ \A k \in DOMAIN written : \E i \in 1..Taken : written[k] = sent[i]
  BY DEF WsInv, SentOnce, WrittenWasTaken
<1>3. ASSUME NEW i \in DOMAIN sent, NEW l \in DOMAIN written, written[l] = sent[i],
             HistoryGrows \/ NextIsTaken \/ LastIsWritten \/ NothingMoves
      PROVE  ReachedBefore(i, l - 1)'
  <2>1. ReachedBefore(i, l - 1)
    BY <1>2, <1>3 DEF InOrder
  <2>2. i \in 1..(Len(sent) + 1) /\ l - 1 \in 0..Len(written)
    BY <1>1
  <2> QED
    BY <1>3, <2>1, <2>2, ReachedStays
<1>4. CASE HistoryGrows
  <2> SUFFICES ASSUME NEW i \in DOMAIN sent', NEW l \in DOMAIN written', written'[l] = sent'[i]
               PROVE  ReachedBefore(i, l - 1)'
    BY DEF InOrder
  <2>1. l \in DOMAIN written /\ written'[l] = written[l]
    BY <1>4 DEF HistoryGrows
  <2>2. \A j \in DOMAIN sent' : sent'[j] = sent'[i] => j = i
    BY SentOncePreserved, <1>1, <1>4 DEF SentOnce
  <2>3. PICK j \in 1..Taken : written[l] = sent[j]
    BY <1>2, <2>1
  <2>4. j \in DOMAIN sent /\ j \in DOMAIN sent' /\ sent'[j] = sent[j]
    BY <1>1, <1>4, <2>3 DEF HistoryGrows
  <2>5. j = i
    BY <2>1, <2>2, <2>3, <2>4
  <2> QED
    BY <1>3, <1>4, <2>1, <2>3, <2>4, <2>5
<1>5. CASE LastIsWritten
  <2> SUFFICES ASSUME NEW i \in DOMAIN sent', NEW l \in DOMAIN written', written'[l] = sent'[i]
               PROVE  ReachedBefore(i, l - 1)'
    BY DEF InOrder
  <2>1. CASE l \in 1..Len(written)
    BY <1>1, <1>3, <1>5, <2>1 DEF LastIsWritten
  <2>2. CASE l = Len(written) + 1
    <3>1. i = Taken /\ i \in 1..(Len(sent) + 1)
      BY <1>1, <1>2, <1>5, <2>2 DEF LastIsWritten
    <3>2. ReachedBefore(i, Len(written))
      BY <1>5, <3>1 DEF LastIsWritten, WsInv, NothingMissing
    <3>3. Len(written) \in 0..Len(written) /\ l - 1 = Len(written)
      BY <1>1, <2>2
    <3>4. ReachedBefore(i, Len(written))'
      BY <1>1, <1>5, <3>1, <3>2 DEF LastIsWritten, ReachedBefore
    <3> QED
      BY <1>1, <1>5, <3>3, <3>2, <3>1, ReachedStays
  <2> QED
    BY <1>1, <1>5, <2>1, <2>2 DEF LastIsWritten
<1>6. CASE NextIsTaken \/ NothingMoves
  BY <1>3, <1>6 DEF NextIsTaken, NothingMoves, InOrder
<1> QED
  BY <1>4, <1>5, <1>6, QueueSteps

\* What had reached the peer by now has reached it by then.
LEMMA ReachedByThen ==
  ASSUME WsInv, [WNext]_wVars, NEW i \in DOMAIN sent, ReachedBefore(i, Len(written))
  PROVE  ReachedBefore(i, Len(written))'
<1>1. /\ Len(sent) \in Nat /\ Len(written) \in Nat /\ DOMAIN sent = 1..Len(sent)
      /\ Len(written') \in Nat /\ Len(written) <= Len(written')
  BY Lengths, QueueSteps DEF HistoryGrows, NextIsTaken, LastIsWritten, NothingMoves
<1>2. ASSUME NEW l \in 0..Len(written), l = Len(written) PROVE ReachedBefore(i, l)'
  BY <1>1, <1>2, ReachedStays, QueueSteps
<1>3. \A l \in 0..Len(written) : l = Len(written) =>
        \A j \in 1..(i - 1) : IsPayload(sent'[j]) => \E k \in 1..l : written'[k] = sent'[j]
  BY <1>2 DEF ReachedBefore
<1>4. \A j \in 1..(i - 1) : IsPayload(sent'[j]) => \E k \in 1..Len(written) : written'[k] = sent'[j]
  BY <1>1, <1>3
<1>5. \A k \in 1..Len(written) : k \in 1..Len(written')
  BY <1>1
<1> QED
  BY <1>4, <1>5 DEF ReachedBefore

\* What Respond changes: the writer's message is answered, with its error or with nothing.
RespondEffect ==
  /\ writer.pc = "responding" /\ Waits(writer.msg) /\ writer.msg \in Messages
  /\ \A m \in Messages : m # writer.msg => respChan'[m] = respChan[m]
  /\ respChan'[writer.msg].closed
  /\ UNCHANGED <<caller, result, sent, putBack>>

LEMMA ResponseSteps ==
  ASSUME WsInv, [WNext]_wVars
  PROVE  respChan' = respChan \/ RespondEffect
<1>1. ASSUME Respond PROVE respChan' = respChan \/ RespondEffect
  <2>1. /\ writer.pc = "responding" /\ writer.msg \in Messages
        /\ respChan \in [Messages -> [value : {"empty", "nil", "writeError"}, closed : BOOLEAN]]
    BY <1>1, Lengths DEF Respond, WsInv, WTypeOK, WriterHasLast
  <2>2. CASE ~ Waits(writer.msg)
    BY <1>1, <2>2 DEF Respond
  <2>3. CASE Waits(writer.msg)
    <3>1. \/ respChan' = [respChan EXCEPT ![writer.msg] = [value |-> writer.err, closed |-> TRUE]]
          \/ respChan' = [respChan EXCEPT ![writer.msg].closed = TRUE]
      BY <1>1, <2>3, Zenon DEF Respond
    <3>2. UNCHANGED <<caller, result, sent, putBack>>
      BY <1>1 DEF Respond, queueVars
    <3>3. /\ \A m \in Messages : m # writer.msg => respChan'[m] = respChan[m]
          /\ respChan'[writer.msg].closed
      BY <2>1, <3>1
    <3> QED
      BY <2>1, <2>3, <3>2, <3>3 DEF RespondEffect
  <2> QED
    BY <2>2, <2>3
<1>2. ASSUME NEW c \in Callers, CallerSteps(c) \/ CancelCaller(c) PROVE respChan' = respChan
  BY <1>2 DEF CallerSteps, Call, Enqueue, GiveUpSending, ReceiveResult, GiveUpWaiting,
     CancelCaller
<1>3. CASE TakeMessage \/ SeeDone \/ WriteSucceeds \/ WriteFails \/ EndTimeoutLoop \/ UNCHANGED wVars
  BY <1>3 DEF TakeMessage, SeeDone, WriteSucceeds, WriteFails, EndTimeoutLoop, wVars
<1>4. ASSUME NEW x \in Closers \cup {Writer}, BeginClose(x) \/ CloseSteps(x)
      PROVE  respChan' = respChan
  BY <1>4 DEF CloseSteps, BeginClose, Cancel, CloseConn, EndClose
<1> QED
  BY <1>1, <1>2, <1>3, <1>4, Zenon DEF WNext, WriterSteps

\* What is told of a flush stays true.
LEMMA FlushAnsweredPreserved ==
  ASSUME WsInv, [WNext]_wVars
  PROVE  FlushAnswered'
<1>1. /\ Len(sent) \in Nat /\ DOMAIN sent = 1..Len(sent) /\ Taken \in Nat /\ Taken <= Len(sent)
      /\ \A i \in DOMAIN sent : sent[i] \in Messages
  BY Lengths
<1>2. \A m \in Messages : /\ respChan[m].value # "empty" => respChan[m].closed
                          /\ respChan[m].closed => Underway(m)
  BY DEF WsInv, FlushAnswered
<1>3. ASSUME NEW m \in Messages
      PROVE  /\ respChan'[m].value # "empty" => respChan'[m].closed
             /\ respChan'[m].closed => Underway(m)'
  <2>1. CASE respChan'[m] = respChan[m]
    BY <1>2, <2>1, PastStays DEF Underway
  <2>2. CASE RespondEffect /\ m = writer.msg
    <3>1. m = sent[Taken] /\ Taken \in DOMAIN sent
      BY <2>2, <1>1 DEF RespondEffect, WsInv, WriterHasLast
    <3>2. Underway(m)
      BY <3>1 DEF WsInv, SentOnce
    <3> QED
      BY <2>2, <3>2, PastStays DEF RespondEffect, Underway
  <2> QED
    BY <2>1, <2>2, ResponseSteps DEF RespondEffect
<1>4. ASSUME NEW i \in DOMAIN sent, KindOf(sent[i]) = "flush",
             respChan[sent[i]].closed \/ result[sent[i]] = "nil"
      PROVE  ReachedBefore(i, Len(written))'
  BY <1>4, ReachedByThen DEF WsInv, FlushAnswered
<1>5. ASSUME NEW i \in DOMAIN sent, KindOf(sent[i]) = "flush",
             respChan'[sent[i]].closed, ~ respChan[sent[i]].closed
      PROVE  ReachedBefore(i, Len(written))'
  <2>1. RespondEffect /\ sent[i] = writer.msg
    BY <1>1, <1>5, ResponseSteps DEF RespondEffect
  <2>2. writer.msg = sent[Taken] /\ Taken \in DOMAIN sent /\ writer.pc = "responding"
    BY <1>1, <2>1 DEF RespondEffect, WsInv, WriterHasLast
  <2>3. i = Taken
    BY <2>1, <2>2 DEF WsInv, SentOnce
  <2>4. ReachedBefore(i, Len(written))
    BY <2>2, <2>3 DEF WsInv, NothingMissing
  <2> QED
    BY <2>4, ReachedByThen
<1>6. ASSUME NEW i \in DOMAIN sent, KindOf(sent[i]) = "flush",
             result'[sent[i]] = "nil", result[sent[i]] # "nil"
      PROVE  respChan[sent[i]].closed
  <2>1. ASSUME NEW c \in Callers, EnqueueEffect(c) PROVE FALSE
    <3>1. result' = result \/ result' = [result EXCEPT ![Current(c)] = "nil"]
      BY <2>1 DEF EnqueueEffect
    <3>2. sent[i] # Current(c) /\ sent[i] \in Messages
      BY <1>1, <2>1 DEF EnqueueEffect
    <3> QED
      BY <3>1, <3>2, <1>6 DEF WsInv, WTypeOK
  <2>2. ASSUME NEW c \in Callers, NEW res \in Results, Returns(c, res)
        PROVE  respChan[sent[i]].closed
    <3>1. \A n \in Messages : n # Current(c) => result'[n] = result[n]
      BY <2>2 DEF Returns, ReturnEffect
    <3>2. sent[i] = Current(c)
      BY <1>1, <1>6, <3>1
    <3>3. result'[Current(c)] = res /\ (res = "nil" => respChan[Current(c)].closed)
      BY <2>2 DEF Returns, ReturnEffect
    <3> QED
      BY <1>6, <3>2, <3>3
  <2> QED
    BY <1>6, <2>1, <2>2, CallerMoves DEF Passes
<1>7. ASSUME NEW i \in DOMAIN sent, KindOf(sent[i]) = "flush",
             respChan'[sent[i]].closed \/ result'[sent[i]] = "nil"
      PROVE  ReachedBefore(i, Len(written))'
  <2>1. CASE respChan[sent[i]].closed \/ result[sent[i]] = "nil"
    BY <1>4, <1>7, <2>1
  <2>2. CASE ~ respChan[sent[i]].closed /\ result[sent[i]] # "nil"
    BY <1>5, <1>6, <1>7, <2>2
  <2> QED
    BY <2>1, <2>2
<1>8. ASSUME NEW c \in Callers, EnqueueEffect(c)
      PROVE  ~ (KindOf(Current(c)) = "flush" /\ (respChan'[Current(c)].closed
                                                 \/ result'[Current(c)] = "nil"))
  <2>1. /\ ~ respChan'[Current(c)].closed /\ result[Current(c)] # "nil"
        /\ Waits(Current(c)) => result' = result
    BY <1>8 DEF EnqueueEffect
  <2> QED
    BY <2>1 DEF Waits
<1>9. ASSUME NEW i \in DOMAIN sent', KindOf(sent'[i]) = "flush",
             respChan'[sent'[i]].closed \/ result'[sent'[i]] = "nil"
      PROVE  ReachedBefore(i, Len(written))'
  <2>1. CASE sent' = sent
    BY <1>7, <1>9, <2>1
  <2>2. ASSUME NEW c \in Callers, EnqueueEffect(c)
      PROVE  i \in DOMAIN sent /\ sent'[i] = sent[i]
    <3>1. HistoryGrows /\ sent'[Len(sent) + 1] = Current(c)
      BY <2>2, EnqueueGrows
    <3>2. i # Len(sent) + 1
      BY <1>8, <1>9, <2>2, <3>1
    <3> QED
      BY <1>1, <3>1, <3>2 DEF HistoryGrows
  <2>3. i \in DOMAIN sent /\ sent'[i] = sent[i]
    BY <1>1, <2>1, <2>2, CallerMoves DEF Passes, Returns
  <2> QED
    BY <1>7, <1>9, <2>3
<1> QED
  BY <1>3, <1>9 DEF FlushAnswered

\* A buffer is put back by a call that fails before it is queued, or by the writer that
\* has written it.
LEMMA BufferSteps ==
  ASSUME WsInv, [WNext]_wVars
  PROVE  \/ putBack' = putBack
         \/ \E c \in Callers, res \in Results : Returns(c, res)
         \/ /\ writer.pc = "writing" /\ writer'.pc = "responding"
            /\ UNCHANGED <<caller, sent, writerCh>>
            /\ \A m \in Messages : m # sent[Taken] => putBack'[m] = putBack[m]
<1>1. CASE WriteSucceeds \/ WriteFails
  <2>1. /\ writer.pc = "writing" /\ writer.msg = sent[Taken] /\ sent[Taken] \in Messages
        /\ putBack' = [putBack EXCEPT ![writer.msg] = @ + 1]
        /\ UNCHANGED <<caller, sent, writerCh>>
    BY <1>1, Lengths DEF WriteSucceeds, WriteFails, WsInv, WriterHasLast, queueVars
  <2>2. writer'.pc = "responding"
    BY <1>1 DEF WriteSucceeds, WriteFails, WsInv, WTypeOK
  <2>3. \A m \in Messages : m # sent[Taken] => putBack'[m] = putBack[m]
    BY <2>1 DEF WsInv, WTypeOK
  <2> QED
    BY <2>1, <2>2, <2>3
<1>2. ASSUME NEW c \in Callers, EnqueueEffect(c) \/ Passes(c) PROVE putBack' = putBack
  BY <1>2 DEF EnqueueEffect, Passes
<1>3. ASSUME NEW c \in Callers, CallerSteps(c)
      PROVE  putBack' = putBack \/ \E res \in Results : Returns(c, res)
  BY <1>2, <1>3, CallMoves, EnqueueDoes DEF CallerSteps
<1>4. CASE TakeMessage \/ SeeDone \/ Respond \/ EndTimeoutLoop \/ UNCHANGED wVars
  BY <1>4 DEF TakeMessage, SeeDone, Respond, EndTimeoutLoop, wVars
<1>5. ASSUME NEW x \in Closers \cup {Writer}, BeginClose(x) \/ CloseSteps(x)
      PROVE  putBack' = putBack
  BY <1>5 DEF CloseSteps, BeginClose, Cancel, CloseConn, EndClose
<1>6. ASSUME NEW c \in Callers, CancelCaller(c) PROVE putBack' = putBack
  BY <1>6 DEF CancelCaller
<1> QED
  BY <1>1, <1>3, <1>4, <1>5, <1>6, Zenon DEF WNext, WriterSteps

\* Buffers that are queued or being written are kept.
LEMMA BuffersKeptPreserved ==
  ASSUME WsInv, [WNext]_wVars
  PROVE  BuffersKept'
<1>1. /\ Len(sent) \in Nat /\ DOMAIN sent = 1..Len(sent) /\ Taken \in Nat /\ Taken <= Len(sent)
      /\ \A i \in DOMAIN sent : sent[i] \in Messages
      /\ \A i \in DOMAIN sent, j \in DOMAIN sent : sent[i] = sent[j] => i = j
      /\ \A i \in DOMAIN sent : i > Taken \/ (i = Taken /\ writer.pc = "writing") => putBack[sent[i]] = 0
  BY Lengths DEF WsInv, SentOnce, BuffersKept
<1>2. \A i \in DOMAIN sent : i \in DOMAIN sent' /\ sent'[i] = sent[i]
  BY <1>1, QueueSteps DEF HistoryGrows, NextIsTaken, LastIsWritten, NothingMoves
<1>3. ASSUME NEW m \in Messages, putBack[m] = 1
      PROVE  m[2] < caller'[m[1]].call \/ \E i \in DOMAIN sent' : sent'[i] = m
  BY <1>2, <1>3, PastStays DEF WsInv, BuffersKept
<1>4. ASSUME NEW m \in Messages, putBack'[m] = 1, putBack[m] # 1
      PROVE  m[2] < caller'[m[1]].call \/ \E i \in DOMAIN sent' : sent'[i] = m
  <2>1. ASSUME NEW c \in Callers, NEW res \in Results, Returns(c, res)
        PROVE  m[2] < caller'[m[1]].call
    <3>1. m = Current(c) /\ caller'[c].call = caller[c].call + 1
      BY <1>4, <2>1 DEF Returns, ReturnEffect
    <3> QED
      BY <3>1, CurrentFacts DEF WsInv
  <2>2. CASE /\ writer.pc = "writing"
             /\ \A n \in Messages : n # sent[Taken] => putBack'[n] = putBack[n]
    <3>1. m = sent[Taken] /\ Taken \in DOMAIN sent
      BY <1>1, <1>4, <2>2 DEF WsInv, WriterHasLast
    <3> QED
      BY <1>2, <3>1
  <2> QED
    BY <1>4, <2>1, <2>2, BufferSteps
<1>5. \A i \in DOMAIN sent : i > Taken' \/ (i = Taken' /\ writer'.pc = "writing") => putBack'[sent[i]] = 0
  <2>1. \/ Taken' = Taken /\ (writer'.pc = "writing" => writer.pc = "writing")
        \/ Taken' = Taken + 1 /\ writer.pc = "select"
    <3>1. CASE LastIsWritten
      BY <3>1 DEF LastIsWritten, WsInv, WTypeOK
    <3>2. CASE NothingMoves
      BY <3>2 DEF NothingMoves, WsInv, WTypeOK, Taken
    <3> QED
      BY <3>1, <3>2, QueueSteps DEF HistoryGrows, NextIsTaken
  <2>2. CASE putBack' = putBack
    BY <1>1, <2>1, <2>2
  <2>3. ASSUME NEW c \in Callers, NEW res \in Results, Returns(c, res),
               NEW i \in DOMAIN sent, putBack'[sent[i]] # putBack[sent[i]]
        PROVE  FALSE
    <3>1. sent[i] = Current(c) /\ res # "nil" /\ PutsBack(Current(c))
      BY <1>1, <2>3 DEF Returns, ReturnEffect
    <3> QED
      BY <2>3, <3>1 DEF Returns
  <2>4. ASSUME NEW c \in Callers, NEW res \in Results, Returns(c, res)
        PROVE  \A i \in DOMAIN sent : putBack'[sent[i]] = putBack[sent[i]]
    BY <2>3, <2>4
  <2>5. CASE \E c \in Callers, res \in Results : Returns(c, res)
    BY <1>1, <2>1, <2>4, <2>5
  <2>6. CASE /\ writer.pc = "writing" /\ writer'.pc = "responding"
             /\ \A m \in Messages : m # sent[Taken] => putBack'[m] = putBack[m]
    <3>1. Taken \in DOMAIN sent /\ Taken' = Taken
      BY <1>1, <2>1, <2>6 DEF WsInv, WriterHasLast
    <3>2. \A i \in DOMAIN sent : i > Taken => sent[i] # sent[Taken]
      BY <1>1, <3>1
    <3> QED
      BY <1>1, <2>6, <3>1, <3>2
  <2> QED
    BY <2>2, <2>5, <2>6, BufferSteps
<1>6. ASSUME NEW c \in Callers, EnqueueEffect(c)
      PROVE  /\ \A i \in DOMAIN sent' : i \in DOMAIN sent \/ sent'[i] = Current(c)
             /\ putBack'[Current(c)] = 0
  BY <1>1, <1>6, EnqueueGrows DEF EnqueueEffect, HistoryGrows
<1>7. ASSUME NEW i \in DOMAIN sent', i > Taken' \/ (i = Taken' /\ writer'.pc = "writing")
      PROVE  putBack'[sent'[i]] = 0
  <2>1. CASE i \in DOMAIN sent
    BY <1>2, <1>5, <1>7, <2>1
  <2>2. CASE i \notin DOMAIN sent
    BY <1>6, <2>2, CallerMoves DEF Passes, Returns
  <2> QED
    BY <2>1, <2>2
<1> QED
  BY <1>3, <1>4, <1>7 DEF BuffersKept

\* A writer that has ended stays ended, and a Close that returns has waited for it.
LEMMA CloseWaitedPreserved ==
  ASSUME WsInv, [WNext]_wVars
  PROVE  CloseWaited'
<1>1. /\ WTypeOK /\ CloseWaited /\ \A x \in Closers : x # Writer
  BY WsConnAssumption DEF WsInv
<1>2. writer.pc = "done" => writer'.pc = "done"
  <2>1. CASE HistoryGrows
    BY <2>1 DEF HistoryGrows
  <2>2. ASSUME NEW c \in Callers, CallerSteps(c) \/ CancelCaller(c)
        PROVE  writer' = writer
    BY <2>2 DEF CallerSteps, Call, Enqueue, GiveUpSending, ReceiveResult, GiveUpWaiting,
       CancelCaller,
       writerVars
  <2>3. ASSUME NEW x \in Closers \cup {Writer}, BeginClose(x) \/ CloseSteps(x), writer.pc = "done"
        PROVE  writer'.pc = "done"
    BY <1>1, <2>3 DEF CloseSteps, BeginClose, Cancel, CloseConn, EndClose, writerVars, WTypeOK
  <2>4. CASE WriterSteps \/ WriteSucceeds \/ WriteFails
    BY <2>4 DEF WriterSteps, TakeMessage, SeeDone, Respond, WriteSucceeds, WriteFails
  <2>5. CASE EndTimeoutLoop \/ UNCHANGED wVars
    BY <2>5 DEF EndTimeoutLoop, wVars, writerVars
  <2> QED
    BY <2>2, <2>3, <2>4, <2>5 DEF WNext
<1>3. ASSUME NEW x \in Closers, closing'[x] = "done"
      PROVE  closing[x] = "done" \/ writer.pc = "done"
  <2>1. ASSUME NEW y \in Closers \cup {Writer}, BeginClose(y) \/ CloseSteps(y)
        PROVE  closing[x] = "done" \/ writer.pc = "done"
    BY <1>1, <1>3, <2>1 DEF CloseSteps, BeginClose, Cancel, CloseConn, EndClose, Joined,
       WTypeOK
  <2>2. ASSUME NEW c \in Callers, CallerSteps(c) \/ CancelCaller(c)
        PROVE  closing' = closing
    BY <2>2 DEF CallerSteps, Call, Enqueue, GiveUpSending, ReceiveResult, GiveUpWaiting,
       CancelCaller,
       closeVars
  <2>3. WriterSteps \/ WriteSucceeds \/ WriteFails => closing' = closing
    BY DEF WriterSteps, TakeMessage, SeeDone, Respond, WriteSucceeds, WriteFails, closeVars
  <2>4. EndTimeoutLoop \/ UNCHANGED wVars => closing' = closing
    BY DEF EndTimeoutLoop, wVars, closeVars
  <2> QED
    BY <1>3, <2>1, <2>2, <2>3, <2>4 DEF WNext
<1> QED
  BY <1>1, <1>2, <1>3 DEF CloseWaited

-----------------------------------------------------------------------------
(* The theorems. *)

LEMMA InvHoldsInitially ==
  ASSUME WInit
  PROVE  WsInv
<1>1. \A c \in Callers : Len(Program[c]) \in Nat
  BY MessageFacts
<1>2. WTypeOK
  <2>1. QueueSize \in Nat /\ 0 \in 0..1
    BY WsConnAssumption
  <2>2. NoMessage \in Messages \cup {NoMessage} /\ 1 \in Nat \ {0}
    OBVIOUS
  <2>3. writerCh \in Seq(Messages) /\ sent \in Seq(Messages) /\ written \in Seq(Messages)
        /\ Len(writerCh) = 0
    BY DEF WInit
  <2>4. \A c \in Callers : caller[c].call <= Len(Program[c]) + 1
    <3>1. \A c \in Callers : caller[c].call = 1
      BY DEF WInit
    <3>2. ASSUME NEW c \in Callers PROVE 1 <= Len(Program[c]) + 1
      <4>1. Len(Program[c]) \in Nat
        BY <1>1
      <4> QED
        BY <4>1
    <3> QED
      BY <3>1, <3>2
  <2>5. caller \in [Callers -> [pc : {"ready", "sending", "waiting"}, call : Nat \ {0}]]
    BY <2>2 DEF WInit
  <2>6. /\ writer \in [pc : {"select", "writing", "responding", "closing", "done"},
                       msg : Messages \cup {NoMessage}, err : {"nil", "writeError"}]
        /\ respChan \in [Messages -> [value : {"empty", "nil", "writeError"}, closed : BOOLEAN]]
    BY <2>2 DEF WInit
  <2>7. /\ result \in [Messages -> {"none", "nil", "writeError", "closed", "cancelled"}]
        /\ closing \in [Closers \cup {Writer} -> {"idle", "swapped", "cancelled", "joining", "done"}]
        /\ putBack \in [Messages -> 0..1]
        /\ cancelled \subseteq Callers
        /\ closed \in BOOLEAN /\ ctxDone \in BOOLEAN /\ connClosed \in BOOLEAN /\ timeoutLoop \in BOOLEAN
    BY <2>1 DEF WInit
  <2> QED
    BY <2>1, <2>3, <2>4, <2>5, <2>6, <2>7 DEF WTypeOK
<1>3. CallersKnowPlace /\ SentOnce /\ QueueIsRest /\ WriterHasLast
  BY DEF WInit, CallersKnowPlace, SentOnce, QueueIsRest, WriterHasLast, Taken
<1>4. WrittenWasTaken /\ NothingMissing /\ InOrder
  BY DEF WInit, WrittenWasTaken, NothingMissing, InOrder, ReachedBefore, Taken
<1>5. FlushAnswered /\ ResultsOfPast /\ BuffersKept /\ CloseWaited
  BY DEF WInit, FlushAnswered, ResultsOfPast, BuffersKept, CloseWaited
<1> QED
  BY <1>2, <1>3, <1>4, <1>5 DEF WsInv

LEMMA InvPreserved ==
  ASSUME WsInv, [WNext]_wVars
  PROVE  WsInv'
BY TypePreserved, CallersKnowPlacePreserved, SentOncePreserved, QueueIsRestPreserved,
   WriterHasLastPreserved, WrittenWasTakenPreserved, NothingMissingPreserved, InOrderPreserved,
   FlushAnsweredPreserved, ResultsOfPastPreserved, BuffersKeptPreserved, CloseWaitedPreserved
   DEF WsInv

\* writeAsyncFromReader, backgroundWriter and Close keep the inductive invariant, however
\* many goroutines write and close, and whatever is cancelled or fails.
THEOREM WsCorrect == WSpec => []WsInv
<1>1. WInit => WsInv
  BY InvHoldsInitially
<1>2. WsInv /\ [WNext]_wVars => WsInv'
  BY InvPreserved
<1> QED
  BY <1>1, <1>2, PTL DEF WSpec

\* The peer gets what entered writerCh, each message once, in order and without a gap; and
\* when Flush returns nil, all that was queued before it has been written.
THEOREM PeerGetsInOrder == WSpec => []WrittenInOrder
<1>1. WsInv => WrittenInOrder
  <2> SUFFICES ASSUME WsInv PROVE WrittenInOrder
    OBVIOUS
  <2>1. Taken \in Nat /\ Taken <= Len(sent) /\ Len(sent) \in Nat /\ DOMAIN sent = 1..Len(sent)
        /\ DOMAIN written = 1..Len(written) /\ Len(written) \in Nat
    BY Lengths
  <2>2. \A i \in 1..Taken : i \in DOMAIN sent
    BY <2>1
  <2>3. \A k \in DOMAIN written : \E i \in DOMAIN sent : written[k] = sent[i] /\ IsPayload(sent[i])
    BY <2>2 DEF WsInv, WrittenWasTaken
  <2>4. \A k \in DOMAIN written, l \in DOMAIN written : written[k] = written[l] => k = l
    BY DEF WsInv, WrittenWasTaken
  <2>5. \A i \in DOMAIN sent, l \in DOMAIN written : written[l] = sent[i] =>
          \A j \in 1..(i - 1) : IsPayload(sent[j]) => \E k \in 1..(l - 1) : written[k] = sent[j]
    BY DEF WsInv, InOrder, ReachedBefore
  <2>6. FlushMeansWritten
    BY <2>1 DEF WsInv, FlushAnswered, ReachedBefore, FlushMeansWritten
  <2> QED
    BY <2>3, <2>4, <2>5, <2>6 DEF WrittenInOrder
<1> QED
  BY <1>1, WsCorrect, PTL

\* No buffer goes back to its pool while the queue or the writer still has it, and none
\* goes back twice, whoever gives up first.
THEOREM BuffersAreKept == WSpec => []NoUseAfterPutBack
<1>1. WsInv => NoUseAfterPutBack
  <2> SUFFICES ASSUME WsInv PROVE NoUseAfterPutBack
    OBVIOUS
  <2>1. /\ Taken \in Nat /\ Len(writerCh) \in Nat /\ Taken + Len(writerCh) = Len(sent)
        /\ DOMAIN writerCh = 1..Len(writerCh) /\ DOMAIN sent = 1..Len(sent)
        /\ \A i \in 1..Len(writerCh) : writerCh[i] = sent[Taken + i]
    BY Lengths DEF WsInv, QueueIsRest
  <2>2. \A i \in DOMAIN writerCh : putBack[writerCh[i]] = 0
    <3>1. \A i \in DOMAIN writerCh : Taken + i \in DOMAIN sent /\ Taken + i > Taken
      BY <2>1
    <3> QED
      BY <2>1, <3>1 DEF WsInv, BuffersKept
  <2>3. writer.pc = "writing" => putBack[writer.msg] = 0
    BY <2>1 DEF WsInv, BuffersKept, WriterHasLast
  <2> QED
    BY <2>2, <2>3 DEF WsInv, NoUseAfterPutBack
<1> QED
  BY <1>1, WsCorrect, PTL

\* Nothing is written to the peer any more once a Close has returned.
THEOREM SilentAfterClose == WSpec => NothingAfterClose
<1>1. WsInv /\ [WNext]_wVars => [(\E x \in Closers : closing[x] = "done") => written' = written]_wVars
  <2> SUFFICES ASSUME WsInv, [WNext]_wVars, NEW x \in Closers, closing[x] = "done"
               PROVE  written' = written
    OBVIOUS
  <2>1. writer.pc = "done"
    BY DEF WsInv, CloseWaited
  <2> QED
    BY <2>1, QueueSteps DEF HistoryGrows, NextIsTaken, LastIsWritten, NothingMoves
<1> QED
  BY <1>1, WsCorrect, PTL DEF WSpec, NothingAfterClose

-----------------------------------------------------------------------------
(***************************************************************************)
(* Theorems about WsTimeout, for any settings, peers and clock.            *)
(*                                                                         *)
(* The inductive invariant says what the loop knows of the settings        *)
(* (Informed), what its timer is set for (TimerSet), and how far a peer    *)
(* that answers every ping is from its timeout (SignOfLifeInTime).         *)
(***************************************************************************)

PingValues == {NoPing} \cup {PingSettings(s) : s \in Settings}
DataValues == {0} \cup {s.dataTimeout : s \in Settings}

\* What TTypeOK leaves out of the records.
RecordsTyped ==
  /\ setter \in [pc : {"idle", "signalPing", "storeData", "signalData"}, data : DataValues]
  /\ loop \in [pc : {"loadPing", "loadData", "ping", "check", "select", "dead"},
               ping : PingValues, data : DataValues]

\* The reader is told of an error when the loop ends, and not before.
ErrorEndsLoop == loop.pc = "dead" <=> readErr # "none"

\* Settings the loop has not loaded are announced, or about to be.
Informed ==
  /\ loop.pc \in {"loadData", "ping", "check", "select"} =>
       loop.ping = ping \/ wakeCh \/ setter.pc = "signalPing"
  /\ loop.pc \in {"ping", "check", "select"} =>
       loop.data = dataTimeout \/ wakeCh \/ setter.pc = "signalData"

\* Once the loop has looked, the next ping lies ahead; and it sleeps no longer than until
\* the first of the times at which it has something to do.
TimerSet ==
  /\ loop.pc = "check" /\ loop.ping.interval > 0 => now < lastPing + loop.ping.interval
  /\ loop.pc = "select" =>
       /\ now <= wakeAt
       /\ loop.ping.interval > 0 => wakeAt <= lastPing + loop.ping.interval
       /\ loop.ping.timeout > 0 => wakeAt <= LastSignOfLife + loop.ping.timeout
       /\ loop.data > 0 => wakeAt <= LastData + loop.data

\* Nothing is pinged before there are settings.
FirstSettings ==
  /\ reloads = 0 => ping = NoPing /\ loop.ping = NoPing /\ unanswered = {}
  /\ reloads > 0 => ping # NoPing

\* A healthy peer has time left to answer a ping before a timeout is over: the oldest one
\* that it has not answered, or one that is sent now.
AnswersBefore(timeout) ==
  timeout > 0 =>
    IF unanswered = {}
    THEN now + PongWithin < LastSignOfLife + timeout
    ELSE \E t \in unanswered : t + PongWithin < LastSignOfLife + timeout

SignOfLifeInTime ==
  /\ unanswered = {} => lastPing <= LastSignOfLife
  /\ healthy => \A t \in unanswered : now <= t + PongWithin
  /\ healthy /\ ~ shortened /\ loop.pc # "dead" =>
       AnswersBefore(ping.timeout) /\ AnswersBefore(loop.ping.timeout)

\* The inductive invariant.
TimeoutInv ==
  /\ TTypeOK /\ RecordsTyped /\ ErrorEndsLoop
  /\ Informed /\ TimerSet /\ FirstSettings /\ SignOfLifeInTime
  /\ HealthySurvives

-----------------------------------------------------------------------------
(* Settings and timers. *)

LEMMA PingValueFacts ==
  ASSUME NEW p \in PingValues
  PROVE  /\ p.interval \in Nat /\ p.timeout \in Nat
         /\ p.interval > 0 <=> p.timeout > 0
         /\ p.timeout > 0 => p.interval + PongWithin < p.timeout
         /\ p.timeout = 0 => p = NoPing
         /\ p = NoPing => p.timeout = 0
<1>1. CASE p = NoPing
  BY <1>1 DEF NoPing
<1>2. CASE \E s \in Settings : p = PingSettings(s)
  BY <1>2, TimeoutAssumption DEF PingSettings, NoPing
<1> QED
  BY <1>1, <1>2 DEF PingValues

LEMMA PingSettingsFacts ==
  ASSUME NEW s \in Settings
  PROVE  /\ PingSettings(s) \in PingValues
         /\ PingSettings(s).timeout > 0
         /\ s.dataTimeout \in DataValues
BY TimeoutAssumption DEF PingValues, DataValues, PingSettings

LEMMA DataValuesAreNat == DataValues \subseteq Nat
BY TimeoutAssumption DEF DataValues

LEMMA LatestIsMax ==
  ASSUME NEW a \in Nat, NEW b \in Nat
  PROVE  /\ TheLatest(a, b) \in Nat
         /\ TheLatest(a, b) >= a /\ TheLatest(a, b) >= b
         /\ \A n \in Nat : a <= n /\ b <= n => TheLatest(a, b) <= n
BY DEF TheLatest

\* The types of all variables in one place.
Typed == TTypeOK /\ RecordsTyped

LEMMA TypedFacts ==
  ASSUME Typed
  PROVE  /\ now \in Nat /\ lastPing \in Nat /\ lastData \in Nat /\ lastPong \in Nat
         /\ lastPing <= now /\ lastData <= now /\ lastPong <= now
         /\ LastSignOfLife \in Nat /\ LastSignOfLife <= now
         /\ ping \in PingValues /\ loop.ping \in PingValues
         /\ ping.interval \in Nat /\ ping.timeout \in Nat
         /\ loop.ping.interval \in Nat /\ loop.ping.timeout \in Nat
         /\ dataTimeout \in Nat /\ loop.data \in Nat
         /\ PongWithin \in Nat /\ unanswered \subseteq Nat
         /\ wakeAt \in Nat
<1>1. ping \in PingValues /\ loop.ping \in PingValues
  BY DEF Typed, TTypeOK, RecordsTyped, PingValues
<1>2. now \in Nat /\ lastPing \in Nat /\ lastData \in Nat /\ lastPong \in Nat
      /\ lastPing <= now /\ lastData <= now /\ lastPong <= now /\ unanswered \subseteq Nat
  BY TimeoutAssumption DEF Typed, TTypeOK
<1>3. dataTimeout \in DataValues /\ loop.data \in DataValues
  BY DEF Typed, TTypeOK, RecordsTyped, DataValues
<1>4. wakeAt \in Nat
  BY TimeoutAssumption DEF Typed, TTypeOK, IdleWake
<1>5. LastSignOfLife \in Nat /\ LastSignOfLife <= now
  BY <1>2, LatestIsMax DEF LastSignOfLife
<1> QED
  BY <1>1, <1>2, <1>3, <1>4, <1>5, PingValueFacts, DataValuesAreNat, TimeoutAssumption

\* The timer is set for a time ahead, and for none after the first that lies ahead.
LEMMA TimerAhead ==
  ASSUME Typed
  PROVE  /\ WakeUpTime \in 0..IdleWake
         /\ WakeUpTime > now
         /\ \A t \in {lastPing + loop.ping.interval, LastSignOfLife + loop.ping.timeout,
                      LastData + loop.data} : t > now => WakeUpTime <= t
<1> DEFINE times == {lastPing + loop.ping.interval, LastSignOfLife + loop.ping.timeout,
                     LastData + loop.data}
           S == {IdleWake} \cup {t \in times : t > now}
<1>1. IdleWake \in Nat /\ IdleWake > now
  BY TimeoutAssumption DEF Typed, TTypeOK, IdleWake
<1>2. times \subseteq Nat /\ now \in Nat
  BY TypedFacts DEF LastData
<1>3. TheEarliest(S) \in S /\ \A u \in S : TheEarliest(S) <= u
  <2>1. lastPing + loop.ping.interval \in Nat /\ LastSignOfLife + loop.ping.timeout \in Nat
        /\ LastData + loop.data \in Nat
    BY <1>2
  <2> HIDE DEF S
  <2>2. S = {IdleWake} \cup {t \in {lastPing + loop.ping.interval,
                 LastSignOfLife + loop.ping.timeout, LastData + loop.data} : t > now}
    BY DEF S
  <2> DEFINE a == lastPing + loop.ping.interval
             b == LastSignOfLife + loop.ping.timeout
             c == LastData + loop.data
  <2>3. a \in Nat /\ b \in Nat /\ c \in Nat
    BY <2>1
  <2>4. S = {IdleWake} \cup {t \in {a, b, c} : t > now}
    BY <2>2
  <2> HIDE DEF a, b, c
  <2>5. \E t \in S : \A u \in S : t <= u
    BY <1>1, <1>2, <2>3, <2>4
  <2> QED
    BY <2>5 DEF TheEarliest
<1>4. WakeUpTime = TheEarliest(S)
  BY DEF WakeUpTime
<1> HIDE DEF times
<1>5. IdleWake \in S /\ \A t \in times : t > now => t \in S
  OBVIOUS
<1>6. \A t \in S : t \in Nat /\ t > now
  BY <1>1, <1>2
<1> HIDE DEF S
<1>7. WakeUpTime \in Nat /\ WakeUpTime > now /\ WakeUpTime <= IdleWake
  BY <1>3, <1>4, <1>5, <1>6
<1>8. \A t \in times : t > now => WakeUpTime <= t
  BY <1>3, <1>4, <1>5
<1> QED
  BY <1>1, <1>7, <1>8 DEF times

-----------------------------------------------------------------------------
(* The parts of the invariant, one action at a time. *)

LEMMA TimeoutInit == TInit => TimeoutInv
<1> SUFFICES ASSUME TInit PROVE TimeoutInv
  OBVIOUS
<1>1. TTypeOK
  <2>1. IdleWake \in Nat
    BY TimeoutAssumption DEF IdleWake
  <2>2. /\ ping \in {NoPing} \cup {PingSettings(s) : s \in Settings}
        /\ dataTimeout \in {0} \cup {s.dataTimeout : s \in Settings}
    BY DEF TInit
  <2>3. wakeAt \in 0..IdleWake /\ reloads \in 0..(MaxReloads + 1) /\ now \in 0..MaxTime
    BY <2>1, TimeoutAssumption DEF TInit
  <2>4. lastPing \in 0..now /\ lastData \in 0..now /\ lastPong \in 0..now
        /\ unanswered \subseteq 0..now
    BY DEF TInit
  <2>5. /\ setter.pc \in {"idle", "signalPing", "storeData", "signalData"}
        /\ loop.pc \in {"loadPing", "loadData", "ping", "check", "select", "dead"}
        /\ loop.pc = "dead" => readErr # "none"
    BY DEF TInit
  <2> QED
    BY <2>2, <2>3, <2>4, <2>5 DEF TInit, TTypeOK
<1>2. RecordsTyped
  BY DEF TInit, RecordsTyped, PingValues, DataValues
<1>3. FirstSettings
  BY DEF TInit, FirstSettings
<1>4. ErrorEndsLoop /\ Informed /\ TimerSet /\ HealthySurvives
  BY DEF TInit, ErrorEndsLoop, Informed, TimerSet, HealthySurvives
<1>5. SignOfLifeInTime
  BY LatestIsMax DEF TInit, SignOfLifeInTime, AnswersBefore, NoPing, LastSignOfLife
<1> QED
  BY <1>1, <1>2, <1>3, <1>4, <1>5 DEF TimeoutInv

\* What an action leaves alone that the times are compared with.
TimesKept == UNCHANGED <<now, lastPing, lastData, lastPong, unanswered, healthy>>

LEMMA SignOfLifeKept ==
  ASSUME UNCHANGED <<lastData, lastPong>>
  PROVE  LastSignOfLife' = LastSignOfLife /\ LastData' = LastData
BY DEF LastSignOfLife, LastData, TheLatest

\* A longer timeout leaves no less time for an answer.
LEMMA LongerTimeout ==
  ASSUME Typed, NEW t \in Nat, NEW u \in Nat, 0 < t, t <= u, AnswersBefore(t)
  PROVE  AnswersBefore(u)
BY TypedFacts DEF AnswersBefore

LEMMA AnswersKept ==
  ASSUME TimesKept, NEW t, AnswersBefore(t)
  PROVE  AnswersBefore(t)'
BY DEF TimesKept, AnswersBefore, LastSignOfLife, TheLatest

LEMMA StorePingKeeps ==
  ASSUME TimeoutInv, StorePing
  PROVE  TimeoutInv'
<1> Typed
  BY DEF TimeoutInv, Typed
<1>1. PICK s \in Settings :
        /\ ping' = PingSettings(s)
        /\ shortened' = (shortened \/ PingSettings(s).timeout < ping.timeout)
        /\ setter' = [pc |-> "signalPing", data |-> s.dataTimeout]
  BY DEF StorePing
<1>2. /\ UNCHANGED <<now, dataTimeout, wakeCh, loop, wakeAt, lastPing, readErr>>
      /\ UNCHANGED <<healthy, lastData, lastPong, unanswered>>
      /\ reloads' = reloads + 1 /\ reloads <= MaxReloads /\ (reloads = 0 => lastData = now)
      /\ setter.pc = "idle"
  BY DEF StorePing, loopVars, peerVars
<1>3. TTypeOK'
  BY <1>1, <1>2, TimeoutAssumption DEF TimeoutInv, TTypeOK
<1>4. RecordsTyped'
  BY <1>1, <1>2, PingSettingsFacts DEF TimeoutInv, RecordsTyped
<1>5. ErrorEndsLoop' /\ HealthySurvives'
  BY <1>1, <1>2 DEF TimeoutInv, ErrorEndsLoop, HealthySurvives, TTypeOK
<1>6. Informed'
  BY <1>1, <1>2 DEF TimeoutInv, Informed
<1>7. TimerSet'
  BY <1>2, SignOfLifeKept DEF TimeoutInv, TimerSet
<1>8. reloads' > 0 /\ ping' # NoPing /\ reloads' # 0
  <2>1. PingSettings(s) \in PingValues /\ PingSettings(s).timeout > 0
    BY PingSettingsFacts
  <2> QED
    BY <1>1, <1>2, <2>1, PingValueFacts, TimeoutAssumption DEF TimeoutInv, TTypeOK, NoPing
<1>9. FirstSettings'
  BY <1>8 DEF FirstSettings
<1>10. SignOfLifeInTime'
  <2>1. /\ unanswered' = {} => lastPing' <= LastSignOfLife'
        /\ healthy' => \A t \in unanswered' : now' <= t + PongWithin
    BY <1>2, SignOfLifeKept DEF TimeoutInv, SignOfLifeInTime
  <2>2. ASSUME healthy', ~ shortened', loop'.pc # "dead"
        PROVE  AnswersBefore(ping.timeout)' /\ AnswersBefore(loop.ping.timeout)'
    <3>1. AnswersBefore(ping.timeout) /\ AnswersBefore(loop.ping.timeout)
      BY <2>2, <1>1, <1>2 DEF TimeoutInv, SignOfLifeInTime, TTypeOK
    <3> DEFINE new == PingSettings(s).timeout
    <3>2. new \in Nat /\ new > 0 /\ new >= ping.timeout /\ new > PongWithin
      <4>1. new \in Nat /\ new > 0 /\ PingSettings(s).interval + PongWithin < new
            /\ PingSettings(s).interval \in Nat
        BY PingSettingsFacts, PingValueFacts
      <4>2. ~ (new < ping.timeout)
        BY <2>2, <1>1
      <4> QED
        BY <4>1, <4>2, TypedFacts
    <3>3. AnswersBefore(new)
      <4>1. CASE ping.timeout > 0
        BY <4>1, <3>1, <3>2, TypedFacts, LongerTimeout
      <4>2. CASE ping.timeout = 0
        <5>1. ping = NoPing
          BY <4>2, PingValueFacts, TypedFacts
        <5>2. reloads = 0 /\ unanswered = {}
          BY <5>1, TimeoutAssumption DEF TimeoutInv, FirstSettings, TTypeOK
        <5>3. LastSignOfLife = now
          <6>1. lastData = now
            BY <5>2, <1>2
          <6> QED
            BY <6>1, TypedFacts DEF LastSignOfLife, TheLatest
        <5> QED
          BY <5>2, <5>3, <3>2, TypedFacts DEF AnswersBefore
      <4> QED
        BY <4>1, <4>2, TypedFacts
    <3>4. TimesKept
      BY <1>2 DEF TimesKept
    <3>5. \A t : AnswersBefore(t) => AnswersBefore(t)'
      BY <3>4, AnswersKept
    <3> QED
      BY <3>1, <3>3, <3>5, <1>1, <1>2 DEF AnswersBefore
  <2> QED
    BY <2>1, <2>2 DEF SignOfLifeInTime
<1> QED
  BY <1>3, <1>4, <1>5, <1>6, <1>7, <1>9, <1>10 DEF TimeoutInv

\* Whoever stands still in time, and loads no other settings than those in force.
LEMMA SignOfLifeSame ==
  ASSUME SignOfLifeInTime, TimesKept, ping' = ping, shortened' = shortened,
         loop'.ping \in {loop.ping, ping}, loop.pc = "dead" => loop'.pc = "dead"
  PROVE  SignOfLifeInTime'
<1>1. \A t : AnswersBefore(t) => AnswersBefore(t)'
  BY AnswersKept
<1>2. ASSUME healthy', ~ shortened', loop'.pc # "dead"
      PROVE  AnswersBefore(ping.timeout)' /\ AnswersBefore(loop.ping.timeout)'
  <2>1. AnswersBefore(ping.timeout) /\ AnswersBefore(loop.ping.timeout)
    BY <1>2 DEF SignOfLifeInTime, TimesKept
  <2>2. AnswersBefore(ping.timeout)' /\ (AnswersBefore(loop.ping.timeout) =>
          \A t : t = loop.ping.timeout => AnswersBefore(t)')
    BY <1>1, <2>1 DEF AnswersBefore
  <2> QED
    BY <1>1, <2>1, <2>2 DEF AnswersBefore
<1>3. /\ unanswered' = {} => lastPing' <= LastSignOfLife'
      /\ healthy' => \A t \in unanswered' : now' <= t + PongWithin
  BY SignOfLifeKept DEF SignOfLifeInTime, TimesKept
<1> QED
  BY <1>2, <1>3 DEF SignOfLifeInTime

LEMMA SetterKeeps ==
  ASSUME TimeoutInv, StoreData \/ Signal
  PROVE  TimeoutInv'
<1>1. /\ UNCHANGED <<now, ping, reloads, shortened, loop, wakeAt, lastPing, readErr>>
      /\ UNCHANGED <<healthy, lastData, lastPong, unanswered>>
  BY DEF StoreData, Signal, loopVars, peerVars
<1>2. /\ wakeCh' = wakeCh \/ wakeCh'
      /\ setter.pc = "signalPing" => wakeCh' /\ setter'.pc = "storeData"
      /\ setter.pc = "signalData" => wakeCh' /\ setter'.pc = "idle"
      /\ wakeCh => wakeCh'
      /\ dataTimeout' # dataTimeout => setter'.pc = "signalData"
      /\ wakeCh' \in BOOLEAN
  BY DEF StoreData, Signal, TimeoutInv, TTypeOK, RecordsTyped
<1>3. dataTimeout' \in DataValues /\ RecordsTyped'
  BY <1>1 DEF StoreData, Signal, TimeoutInv, TTypeOK, RecordsTyped, DataValues
<1>4. TTypeOK'
  BY <1>1, <1>2, <1>3 DEF TimeoutInv, TTypeOK, RecordsTyped, DataValues
<1>5. ErrorEndsLoop' /\ HealthySurvives' /\ FirstSettings'
  BY <1>1 DEF TimeoutInv, ErrorEndsLoop, HealthySurvives, FirstSettings
<1>6. Informed'
  BY <1>1, <1>2 DEF TimeoutInv, Informed
<1>7. TimerSet'
  BY <1>1, SignOfLifeKept DEF TimeoutInv, TimerSet
<1>8. SignOfLifeInTime'
  BY <1>1, SignOfLifeSame DEF TimesKept, TimeoutInv
<1> QED
  BY <1>3, <1>4, <1>5, <1>6, <1>7, <1>8 DEF TimeoutInv

-----------------------------------------------------------------------------
(* timeoutLoop *)

LEMMA LoadPingKeeps ==
  ASSUME TimeoutInv, LoadPing
  PROVE  TimeoutInv'
<1> loop \in [pc : {"loadPing", "loadData", "ping", "check", "select", "dead"},
              ping : PingValues, data : DataValues]
  BY DEF TimeoutInv, RecordsTyped
<1>1. /\ UNCHANGED <<now, ping, dataTimeout, setter, reloads, shortened, wakeCh>>
      /\ UNCHANGED <<wakeAt, lastPing, readErr, healthy, lastData, lastPong, unanswered>>
      /\ loop.pc = "loadPing" /\ loop'.pc = "loadData"
      /\ loop'.ping = ping /\ loop'.data = loop.data
  BY DEF LoadPing, setterVars, peerVars
<1>2. TTypeOK' /\ ErrorEndsLoop'
  BY <1>1 DEF TimeoutInv, TTypeOK, ErrorEndsLoop
<1>3. RecordsTyped'
  BY <1>1 DEF LoadPing, TimeoutInv, TTypeOK, RecordsTyped, PingValues
<1>4. FirstSettings' /\ HealthySurvives'
  BY <1>1 DEF TimeoutInv, FirstSettings, HealthySurvives
<1>5. Informed' /\ TimerSet'
  BY <1>1 DEF Informed, TimerSet
<1>6. SignOfLifeInTime'
  BY <1>1, SignOfLifeSame DEF TimesKept, TimeoutInv
<1> QED
  BY <1>2, <1>3, <1>4, <1>5, <1>6 DEF TimeoutInv

LEMMA LoadDataKeeps ==
  ASSUME TimeoutInv, LoadData
  PROVE  TimeoutInv'
<1> loop \in [pc : {"loadPing", "loadData", "ping", "check", "select", "dead"},
              ping : PingValues, data : DataValues]
  BY DEF TimeoutInv, RecordsTyped
<1>1. /\ UNCHANGED <<now, ping, dataTimeout, setter, reloads, shortened, wakeCh>>
      /\ UNCHANGED <<wakeAt, lastPing, readErr, healthy, lastData, lastPong, unanswered>>
      /\ loop.pc = "loadData" /\ loop'.pc = "ping"
      /\ loop'.ping = loop.ping /\ loop'.data = dataTimeout
  BY DEF LoadData, setterVars, peerVars
<1>2. TTypeOK' /\ ErrorEndsLoop'
  BY <1>1 DEF TimeoutInv, TTypeOK, ErrorEndsLoop
<1>3. RecordsTyped'
  BY <1>1 DEF LoadData, TimeoutInv, TTypeOK, RecordsTyped, DataValues
<1>4. FirstSettings' /\ HealthySurvives'
  BY <1>1 DEF TimeoutInv, FirstSettings, HealthySurvives
<1>5. Informed' /\ TimerSet'
  BY <1>1 DEF TimeoutInv, Informed, TimerSet
<1>6. SignOfLifeInTime'
  BY <1>1, SignOfLifeSame DEF TimesKept, TimeoutInv
<1> QED
  BY <1>2, <1>3, <1>4, <1>5, <1>6 DEF TimeoutInv

LEMMA SendPingKeeps ==
  ASSUME TimeoutInv, SendPing
  PROVE  TimeoutInv'
<1> loop \in [pc : {"loadPing", "loadData", "ping", "check", "select", "dead"},
              ping : PingValues, data : DataValues]
  BY DEF TimeoutInv, RecordsTyped
<1> Typed
  BY DEF TimeoutInv, Typed
<1>1. /\ UNCHANGED <<now, ping, dataTimeout, setter, reloads, shortened, wakeCh>>
      /\ UNCHANGED <<wakeAt, readErr, healthy, lastData, lastPong>>
      /\ loop.pc = "ping" /\ loop'.pc = "check"
      /\ loop'.ping = loop.ping /\ loop'.data = loop.data
  BY DEF SendPing, setterVars
<1>2. \/ /\ PingDue
         /\ lastPing' = now
         /\ unanswered' = unanswered \cup {now}
      \/ /\ ~ PingDue
         /\ UNCHANGED <<lastPing, unanswered>>
  BY DEF SendPing
<1>3. TTypeOK' /\ ErrorEndsLoop'
  <2>1. lastPing' \in 0..now' /\ unanswered' \subseteq 0..now'
    <3>1. lastPing \in 0..now /\ unanswered \subseteq 0..now /\ now \in 0..now
      BY TypedFacts DEF TimeoutInv, TTypeOK
    <3> QED
      BY <1>1, <1>2, <3>1
  <2> QED
    BY <1>1, <2>1 DEF TimeoutInv, TTypeOK, ErrorEndsLoop
<1>4. RecordsTyped'
  BY <1>1 DEF SendPing, TimeoutInv, TTypeOK, RecordsTyped
<1>5. FirstSettings' /\ HealthySurvives'
  <2>1. PingDue => reloads # 0
    BY DEF PingDue, TimeoutInv, FirstSettings, NoPing
  <2> QED
    BY <1>1, <1>2, <2>1 DEF TimeoutInv, FirstSettings, HealthySurvives
<1>6. Informed'
  BY <1>1 DEF TimeoutInv, Informed
<1>7. TimerSet'
  <2>1. loop.ping.interval > 0 => now' < lastPing' + loop.ping.interval
    BY <1>1, <1>2, TypedFacts DEF PingDue
  <2> QED
    BY <1>1, <2>1 DEF TimerSet
<1>8. SignOfLifeInTime'
  <2>1. CASE UNCHANGED <<lastPing, unanswered>>
    BY <1>1, <2>1, SignOfLifeSame DEF TimesKept, TimeoutInv
  <2>2. CASE unanswered' = unanswered \cup {now}
    <3>1. LastSignOfLife' = LastSignOfLife
      BY <1>1, SignOfLifeKept
    <3>2. ASSUME NEW t \in Nat, AnswersBefore(t)
          PROVE  AnswersBefore(t)'
      BY <1>1, <2>2, <3>1, <3>2, TypedFacts DEF AnswersBefore
    <3>3. healthy' => \A t \in unanswered' : now' <= t + PongWithin
      BY <1>1, <2>2, TypedFacts DEF TimeoutInv, SignOfLifeInTime
    <3>4. ASSUME healthy', ~ shortened'
          PROVE  AnswersBefore(ping.timeout)' /\ AnswersBefore(loop.ping.timeout)'
      <4>1. AnswersBefore(ping.timeout) /\ AnswersBefore(loop.ping.timeout)
        BY <1>1, <3>4 DEF TimeoutInv, SignOfLifeInTime
      <4> QED
        BY <1>1, <3>2, <4>1, TypedFacts DEF AnswersBefore
    <3>5. unanswered' # {}
      BY <2>2
    <3> QED
      BY <3>3, <3>4, <3>5 DEF SignOfLifeInTime
  <2> QED
    BY <1>2, <2>1, <2>2
<1> QED
  BY <1>3, <1>4, <1>5, <1>6, <1>7, <1>8 DEF TimeoutInv

LEMMA PingFailsKeeps ==
  ASSUME TimeoutInv, PingFails
  PROVE  TimeoutInv'
<1> loop \in [pc : {"loadPing", "loadData", "ping", "check", "select", "dead"},
              ping : PingValues, data : DataValues]
  BY DEF TimeoutInv, RecordsTyped
<1>1. /\ UNCHANGED <<now, ping, dataTimeout, setter, reloads, shortened, wakeCh>>
      /\ UNCHANGED <<wakeAt, lastPing, healthy, lastData, lastPong, unanswered>>
      /\ loop'.pc = "dead" /\ readErr' = "pingFailed"
      /\ loop'.ping = loop.ping /\ loop'.data = loop.data
  BY DEF PingFails, setterVars, peerVars
<1>2. TTypeOK' /\ ErrorEndsLoop'
  BY <1>1 DEF TimeoutInv, TTypeOK, ErrorEndsLoop
<1>3. RecordsTyped'
  BY <1>1 DEF PingFails, TimeoutInv, TTypeOK, RecordsTyped
<1>4. FirstSettings' /\ HealthySurvives'
  BY <1>1 DEF TimeoutInv, FirstSettings, HealthySurvives
<1>5. Informed' /\ TimerSet'
  BY <1>1 DEF Informed, TimerSet
<1>6. SignOfLifeInTime'
  BY <1>1, SignOfLifeSame DEF TimesKept, TimeoutInv
<1> QED
  BY <1>2, <1>3, <1>4, <1>5, <1>6 DEF TimeoutInv

\* The timeout that the loop has loaded is not over for a healthy peer.
LEMMA HealthyIsInTime ==
  ASSUME TimeoutInv, healthy, ~ shortened, loop.pc # "dead"
  PROVE  ~ Dead(loop.ping.timeout, LastSignOfLife)
<1> Typed
  BY DEF TimeoutInv, Typed
<1>1. AnswersBefore(loop.ping.timeout) /\ \A t \in unanswered : now <= t + PongWithin
  BY DEF TimeoutInv, SignOfLifeInTime
<1> QED
  BY <1>1, TypedFacts DEF AnswersBefore, Dead

LEMMA CheckTimeoutsKeeps ==
  ASSUME TimeoutInv, CheckTimeouts
  PROVE  TimeoutInv'
<1> loop \in [pc : {"loadPing", "loadData", "ping", "check", "select", "dead"},
              ping : PingValues, data : DataValues]
  BY DEF TimeoutInv, RecordsTyped
<1> Typed
  BY DEF TimeoutInv, Typed
<1> DEFINE pingOver == Dead(loop.ping.timeout, LastSignOfLife)
           dataOver == Dead(loop.data, LastData)
<1>1. /\ UNCHANGED <<now, ping, dataTimeout, setter, reloads, shortened, wakeCh>>
      /\ UNCHANGED <<lastPing, healthy, lastData, lastPong, unanswered>>
      /\ loop.pc = "check" /\ loop'.pc \in {"dead", "select"}
      /\ loop'.ping = loop.ping /\ loop'.data = loop.data
  BY DEF CheckTimeouts, setterVars, peerVars
<1>2. \/ /\ pingOver \/ dataOver
         /\ loop'.pc = "dead" /\ wakeAt' = wakeAt
         /\ readErr' = IF pingOver THEN "readTimeout" ELSE "dataTimeout"
      \/ /\ ~ pingOver /\ ~ dataOver
         /\ loop'.pc = "select" /\ wakeAt' = WakeUpTime
         /\ readErr' = readErr
  BY DEF CheckTimeouts
<1>3. RecordsTyped'
  BY <1>1 DEF CheckTimeouts, TimeoutInv, TTypeOK, RecordsTyped
<1>4. TTypeOK' /\ ErrorEndsLoop'
  <2>1. wakeAt' \in 0..IdleWake
    BY <1>2, TimerAhead DEF TimeoutInv, TTypeOK
  <2>2. readErr' \in {"none", "pingFailed", "readTimeout", "dataTimeout"}
        /\ (loop'.pc = "dead" <=> readErr' # "none")
    BY <1>1, <1>2 DEF TimeoutInv, TTypeOK, ErrorEndsLoop
  <2> QED
    BY <1>1, <2>1, <2>2 DEF TimeoutInv, TTypeOK, ErrorEndsLoop
<1>5. HealthySurvives'
  <2>1. healthy /\ ~ shortened => ~ pingOver
    BY <1>1, HealthyIsInTime
  <2> QED
    BY <1>1, <1>2, <2>1 DEF TimeoutInv, HealthySurvives
<1>6. FirstSettings' /\ Informed'
  BY <1>1 DEF TimeoutInv, FirstSettings, Informed
<1>7. TimerSet'
  <2>1. CASE loop'.pc = "dead"
    BY <2>1 DEF TimerSet
  <2>2. CASE loop'.pc = "select"
    <3>1. wakeAt' = WakeUpTime /\ ~ pingOver /\ ~ dataOver
      BY <1>2, <2>2
    <3>2. /\ loop.ping.interval > 0 => lastPing + loop.ping.interval > now
          /\ loop.ping.timeout > 0 => LastSignOfLife + loop.ping.timeout > now
          /\ loop.data > 0 => LastData + loop.data > now
      BY <1>1, <3>1, TypedFacts DEF Dead, TimeoutInv, TimerSet, LastData
    <3>3. /\ WakeUpTime > now
          /\ loop.ping.interval > 0 => WakeUpTime <= lastPing + loop.ping.interval
          /\ loop.ping.timeout > 0 => WakeUpTime <= LastSignOfLife + loop.ping.timeout
          /\ loop.data > 0 => WakeUpTime <= LastData + loop.data
      BY <3>2, TimerAhead
    <3>4. WakeUpTime \in Nat
      BY TimerAhead, TimeoutAssumption DEF IdleWake
    <3>5. LastSignOfLife' = LastSignOfLife /\ LastData' = LastData
      BY <1>1, SignOfLifeKept
    <3>6. now' <= wakeAt'
      BY <1>1, <3>1, <3>3, <3>4, TypedFacts
    <3> QED
      BY <1>1, <2>2, <3>1, <3>3, <3>5, <3>6 DEF TimerSet
  <2> QED
    BY <1>1, <2>1, <2>2
<1>8. SignOfLifeInTime'
  BY <1>1, SignOfLifeSame DEF TimesKept, TimeoutInv
<1> QED
  BY <1>3, <1>4, <1>5, <1>6, <1>7, <1>8 DEF TimeoutInv

LEMMA WakingKeeps ==
  ASSUME TimeoutInv, TimerFires \/ ReceiveWake
  PROVE  TimeoutInv'
<1> loop \in [pc : {"loadPing", "loadData", "ping", "check", "select", "dead"},
              ping : PingValues, data : DataValues]
  BY DEF TimeoutInv, RecordsTyped
<1>1. /\ UNCHANGED <<now, ping, dataTimeout, setter, reloads, shortened>>
      /\ UNCHANGED <<wakeAt, readErr, lastPing, healthy, lastData, lastPong, unanswered>>
      /\ loop.pc = "select" /\ loop'.pc = "loadPing"
      /\ loop'.ping = loop.ping /\ loop'.data = loop.data
      /\ wakeCh' \in {wakeCh, FALSE}
  BY DEF TimerFires, ReceiveWake, setterVars, peerVars
<1>2. TTypeOK' /\ ErrorEndsLoop'
  BY <1>1 DEF TimeoutInv, TTypeOK, ErrorEndsLoop
<1>3. RecordsTyped'
  BY <1>1 DEF TimerFires, ReceiveWake, TimeoutInv, TTypeOK, RecordsTyped
<1>4. FirstSettings' /\ HealthySurvives'
  BY <1>1 DEF TimeoutInv, FirstSettings, HealthySurvives
<1>5. Informed' /\ TimerSet'
  BY <1>1 DEF Informed, TimerSet
<1>6. SignOfLifeInTime'
  BY <1>1, SignOfLifeSame DEF TimesKept, TimeoutInv
<1> QED
  BY <1>2, <1>3, <1>4, <1>5, <1>6 DEF TimeoutInv

-----------------------------------------------------------------------------
(* The peer and time. *)

LEMMA MessageKeeps ==
  ASSUME TimeoutInv, Message
  PROVE  TimeoutInv'
<1> Typed
  BY DEF TimeoutInv, Typed
<1>1. /\ UNCHANGED <<now, ping, dataTimeout, setter, reloads, shortened, wakeCh, loop>>
      /\ UNCHANGED <<wakeAt, readErr, lastPing, healthy, lastPong, unanswered>>
      /\ lastData' = now
  BY DEF Message, setterVars, loopVars
<1>2. LastSignOfLife' \in Nat /\ LastSignOfLife' >= LastSignOfLife /\ LastData' >= LastData
  BY <1>1, TypedFacts DEF LastSignOfLife, LastData, TheLatest
<1>3. TTypeOK'
  BY <1>1, TypedFacts DEF TimeoutInv, TTypeOK
<1>4. RecordsTyped' /\ ErrorEndsLoop' /\ FirstSettings' /\ HealthySurvives' /\ Informed'
  BY <1>1 DEF TimeoutInv, RecordsTyped, ErrorEndsLoop, FirstSettings, HealthySurvives, Informed
<1>5. TimerSet'
  <2>1. LastData' = now /\ LastData \in Nat
    BY <1>1, TypedFacts DEF LastData
  <2> QED
    BY <1>1, <1>2, <2>1, TypedFacts DEF TimeoutInv, TimerSet
<1>6. SignOfLifeInTime'
  <2>1. ASSUME NEW t \in Nat, AnswersBefore(t)
        PROVE  AnswersBefore(t)'
    BY <1>1, <1>2, <2>1, TypedFacts DEF AnswersBefore
  <2>2. ASSUME healthy', ~ shortened', loop'.pc # "dead"
        PROVE  AnswersBefore(ping.timeout)' /\ AnswersBefore(loop.ping.timeout)'
    <3>1. AnswersBefore(ping.timeout) /\ AnswersBefore(loop.ping.timeout)
      BY <1>1, <2>2 DEF TimeoutInv, SignOfLifeInTime
    <3> QED
      BY <1>1, <2>1, <3>1, TypedFacts DEF AnswersBefore
  <2>3. /\ unanswered' = {} => lastPing' <= LastSignOfLife'
        /\ healthy' => \A t \in unanswered' : now' <= t + PongWithin
    BY <1>1, <1>2, TypedFacts DEF TimeoutInv, SignOfLifeInTime
  <2> QED
    BY <2>2, <2>3 DEF SignOfLifeInTime
<1> QED
  BY <1>3, <1>4, <1>5, <1>6 DEF TimeoutInv

LEMMA PongKeeps ==
  ASSUME TimeoutInv, Pong
  PROVE  TimeoutInv'
<1> Typed
  BY DEF TimeoutInv, Typed
<1>1. /\ UNCHANGED <<now, ping, dataTimeout, setter, reloads, shortened, wakeCh, loop>>
      /\ UNCHANGED <<wakeAt, readErr, lastPing, healthy, lastData>>
      /\ lastPong' = now /\ unanswered' \subseteq unanswered /\ unanswered # {}
  BY DEF Pong, setterVars, loopVars
<1>2. LastSignOfLife' = now /\ now >= LastSignOfLife /\ LastData' = LastData
  BY <1>1, TypedFacts DEF LastSignOfLife, LastData, TheLatest
<1>3. TTypeOK'
  <2>1. unanswered' \subseteq 0..now' /\ lastPong' \in 0..now'
    BY <1>1, TypedFacts DEF TimeoutInv, TTypeOK
  <2> QED
    BY <1>1, <2>1 DEF TimeoutInv, TTypeOK
<1>4. RecordsTyped' /\ ErrorEndsLoop' /\ HealthySurvives' /\ Informed'
  BY <1>1 DEF TimeoutInv, RecordsTyped, ErrorEndsLoop, HealthySurvives, Informed
<1>5. FirstSettings'
  BY <1>1 DEF TimeoutInv, FirstSettings
<1>6. TimerSet'
  BY <1>1, <1>2, TypedFacts DEF TimeoutInv, TimerSet
<1>7. SignOfLifeInTime'
  <2>1. \A t \in unanswered' : t \in Nat /\ t <= now
    BY <1>3, <1>1, TypedFacts DEF TTypeOK
  <2>2. ASSUME NEW t \in Nat, t > 0 => PongWithin < t
        PROVE  AnswersBefore(t)'
    BY <1>1, <1>2, <2>1, <2>2, TypedFacts DEF AnswersBefore
  <2>3. /\ ping.timeout > 0 => PongWithin < ping.timeout
        /\ loop.ping.timeout > 0 => PongWithin < loop.ping.timeout
    BY TypedFacts, PingValueFacts
  <2>4. AnswersBefore(ping.timeout)' /\ AnswersBefore(loop.ping.timeout)'
    BY <1>1, <2>2, <2>3, TypedFacts DEF AnswersBefore
  <2>5. /\ lastPing' <= LastSignOfLife'
        /\ healthy' => \A t \in unanswered' : now' <= t + PongWithin
    BY <1>1, <1>2, TypedFacts DEF TimeoutInv, SignOfLifeInTime
  <2> QED
    BY <2>4, <2>5 DEF SignOfLifeInTime
<1> QED
  BY <1>3, <1>4, <1>5, <1>6, <1>7 DEF TimeoutInv

\* The clock moves only while the loop sleeps under the settings in force.
LEMMA TickKeeps ==
  ASSUME TimeoutInv, Tick
  PROVE  TimeoutInv'
<1> Typed
  BY DEF TimeoutInv, Typed
<1>1. /\ UNCHANGED <<ping, dataTimeout, setter, reloads, shortened, wakeCh, loop>>
      /\ UNCHANGED <<wakeAt, readErr, lastPing, healthy, lastData, lastPong, unanswered>>
      /\ now' = now + 1 /\ now < MaxTime
      /\ loop.pc \in {"select", "dead"} /\ setter.pc = "idle"
      /\ loop.pc = "select" => now < wakeAt /\ ~ wakeCh
      /\ healthy => \A t \in unanswered : now < t + PongWithin
  BY DEF Tick, setterVars, loopVars, peerVars
<1>2. LastSignOfLife' = LastSignOfLife /\ LastData' = LastData
  BY <1>1, SignOfLifeKept
<1>3. TTypeOK'
  <2>1. now' \in 0..MaxTime
    BY <1>1, TypedFacts, TimeoutAssumption
  <2>2. 0..now \subseteq 0..now'
    BY <1>1, TypedFacts
  <2>3. lastPing' \in 0..now' /\ lastData' \in 0..now' /\ lastPong' \in 0..now'
        /\ unanswered' \subseteq 0..now'
    BY <1>1, <2>2 DEF TimeoutInv, TTypeOK
  <2> QED
    BY <1>1, <2>1, <2>3 DEF TimeoutInv, TTypeOK
<1>4. RecordsTyped' /\ ErrorEndsLoop' /\ HealthySurvives' /\ Informed'
  BY <1>1 DEF TimeoutInv, RecordsTyped, ErrorEndsLoop, HealthySurvives, Informed
<1>5. FirstSettings'
  BY <1>1 DEF TimeoutInv, FirstSettings
<1>6. TimerSet'
  BY <1>1, <1>2, TypedFacts DEF TimeoutInv, TimerSet
<1>7. SignOfLifeInTime'
  <2>1. healthy' => \A t \in unanswered' : now' <= t + PongWithin
    BY <1>1, TypedFacts
  <2>2. unanswered' = {} => lastPing' <= LastSignOfLife'
    BY <1>1, <1>2 DEF TimeoutInv, SignOfLifeInTime
  <2>3. ASSUME healthy', ~ shortened', loop'.pc # "dead"
        PROVE  AnswersBefore(ping.timeout)' /\ AnswersBefore(loop.ping.timeout)'
    <3>1. loop.pc = "select" /\ loop.ping = ping
      BY <1>1, <2>3 DEF TimeoutInv, Informed
    <3>2. AnswersBefore(ping.timeout)
      BY <1>1, <2>3 DEF TimeoutInv, SignOfLifeInTime
    <3>3. ASSUME unanswered = {}, ping.timeout > 0
          PROVE  now' + PongWithin < LastSignOfLife + ping.timeout
      <4>1. ping.interval > 0 /\ ping.interval + PongWithin < ping.timeout
        BY <3>3, TypedFacts, PingValueFacts
      <4>2. now' <= lastPing + ping.interval
        BY <1>1, <3>1, <4>1, TypedFacts DEF TimeoutInv, TimerSet
      <4>3. lastPing <= LastSignOfLife
        BY <3>3 DEF TimeoutInv, SignOfLifeInTime
      <4> QED
        BY <1>1, <4>1, <4>2, <4>3, TypedFacts
    <3>4. AnswersBefore(ping.timeout)'
      BY <1>1, <1>2, <3>2, <3>3 DEF AnswersBefore
    <3> QED
      BY <1>1, <3>1, <3>4 DEF AnswersBefore
  <2> QED
    BY <2>1, <2>2, <2>3 DEF SignOfLifeInTime
<1> QED
  BY <1>3, <1>4, <1>5, <1>6, <1>7 DEF TimeoutInv

-----------------------------------------------------------------------------
(* The theorems. *)

LEMMA TimeoutStep == TimeoutInv /\ [TNext]_tVars => TimeoutInv'
<1> SUFFICES ASSUME TimeoutInv, [TNext]_tVars PROVE TimeoutInv'
  OBVIOUS
<1>1. CASE StorePing
  BY <1>1, StorePingKeeps
<1>2. CASE StoreData \/ Signal
  BY <1>2, SetterKeeps
<1>3. CASE LoadPing
  BY <1>3, LoadPingKeeps
<1>4. CASE LoadData
  BY <1>4, LoadDataKeeps
<1>5. CASE SendPing
  BY <1>5, SendPingKeeps
<1>6. CASE PingFails
  BY <1>6, PingFailsKeeps
<1>7. CASE CheckTimeouts
  BY <1>7, CheckTimeoutsKeeps
<1>8. CASE TimerFires \/ ReceiveWake
  BY <1>8, WakingKeeps
<1>9. CASE Message
  BY <1>9, MessageKeeps
<1>10. CASE Pong
  BY <1>10, PongKeeps
<1>11. CASE Tick
  BY <1>11, TickKeeps
<1>12. CASE UNCHANGED tVars
  <2>1. /\ UNCHANGED <<now, ping, dataTimeout, setter, reloads, shortened, wakeCh, loop>>
        /\ UNCHANGED <<wakeAt, readErr, lastPing, healthy, lastData, lastPong, unanswered>>
    BY <1>12 DEF tVars, setterVars, loopVars, peerVars
  <2>2. SignOfLifeInTime'
    BY <2>1, SignOfLifeSame DEF TimesKept, TimeoutInv
  <2>3. TimerSet'
    BY <2>1, SignOfLifeKept DEF TimeoutInv, TimerSet
  <2> QED
    BY <2>1, <2>2, <2>3 DEF TimeoutInv, TTypeOK, RecordsTyped, ErrorEndsLoop, Informed,
                            FirstSettings, HealthySurvives
<1> QED
  BY <1>1, <1>2, <1>3, <1>4, <1>5, <1>6, <1>7, <1>8, <1>9, <1>10, <1>11, <1>12 DEF TNext

\* Whenever settings are replaced and whatever the peer does: timeoutLoop hears of new
\* settings, its timer is set for the next thing to do, and a peer that answers has time.
THEOREM TimeoutCorrect == TSpec => []TimeoutInv
BY TimeoutInit, TimeoutStep, PTL DEF TSpec

\* While timeoutLoop sleeps, no ping and no timeout of the settings in force is overdue.
THEOREM NothingIsOverdue == TSpec => []NothingOverdue
<1>1. TimeoutInv => NothingOverdue
  <2> SUFFICES ASSUME TimeoutInv PROVE NothingOverdue
    OBVIOUS
  <2> Typed
    BY DEF TimeoutInv, Typed
  <2>1. TTypeOK
    BY DEF TimeoutInv
  <2>2. ASSUME Settled
        PROVE  /\ ping.timeout > 0 => now <= TheLatest(lastData, lastPong) + ping.timeout
               /\ dataTimeout > 0 => now <= lastData + dataTimeout
               /\ ping.interval > 0 => now <= lastPing + ping.interval
    <3>1. loop.pc = "select" /\ loop.ping = ping /\ loop.data = dataTimeout
      BY <2>2 DEF TimeoutInv, Informed, Settled
    <3>2. /\ now <= wakeAt
          /\ ping.interval > 0 => wakeAt <= lastPing + ping.interval
          /\ ping.timeout > 0 => wakeAt <= LastSignOfLife + ping.timeout
          /\ dataTimeout > 0 => wakeAt <= lastData + dataTimeout
      BY <3>1 DEF TimeoutInv, TimerSet, LastData
    <3> QED
      BY <3>2, TypedFacts DEF LastSignOfLife
  <2> QED
    BY <2>1, <2>2 DEF NothingOverdue
<1> QED
  BY <1>1, TimeoutCorrect, PTL

\* timeoutLoop never takes a peer for dead that answers each ping within pongWait, through
\* any reloads that do not shorten the timeout.
THEOREM HealthyPeersSurvive == TSpec => []HealthySurvives
<1>1. TimeoutInv => HealthySurvives
  BY DEF TimeoutInv
<1> QED
  BY <1>1, TimeoutCorrect, PTL
================================================================================
