-------------------------------- MODULE WsConn --------------------------------
(***************************************************************************)
(* The write side of a websocket connection (libs/ws/wsconn.go): callers   *)
(* that hand messages to the background writer through a bounded channel,  *)
(* the writer, and the goroutines that close the connection.               *)
(*                                                                         *)
(* Each caller goroutine makes the calls of its Program one after the      *)
(* other.  A message is named by its caller and the number of the call.    *)
(***************************************************************************)
EXTENDS Naturals, Sequences

CONSTANTS
  Callers,      \* goroutines that write
  Program,      \* the calls of each
  Closers,      \* goroutines that close the connection
  Writer,       \* the background writer, which closes it, too
  QueueSize     \* capacity of writerCh

VARIABLES
  caller,       \* where each caller is, and in which call
  result,       \* what each call returned
  cancelled,    \* callers whose context is done
  writerCh,     \* Conn.writerCh
  writer,       \* where the background writer is, its message and its error
  respChan,     \* what was sent on a message's respChan, and whether it is closed
  closed,       \* Conn.closed
  ctxDone,      \* whether Conn.ctx is done
  connClosed,   \* whether the network connection is closed
  closing,      \* how far each goroutine is in closing
  timeoutLoop,  \* whether that goroutine runs
  sent,         \* history: the messages that were put in writerCh
  written,      \* history: the messages the peer got
  putBack       \* history: how often each message's buffer was put back

queueVars == <<writerCh, sent>>
writerVars == <<writer, written>>
closeVars == <<closed, ctxDone, connClosed, closing, timeoutLoop>>
wVars == <<caller, result, cancelled, queueVars, writerVars, respChan, closeVars, putBack>>

\* forward: WriteAsyncFromReader; write: a waiting write; flush: Flush
Kinds == {"forward", "write", "flush"}

ASSUME WsConnAssumption ==
  /\ Program \in [Callers -> Seq(Kinds)]
  /\ QueueSize \in Nat \ {0}
  /\ Writer \notin Closers

Messages == UNION {{c} \X (1..Len(Program[c])) : c \in Callers}
NoMessage == <<>>
KindOf(m) == Program[m[1]][m[2]]
Waits(m) == KindOf(m) \in {"write", "flush"}

Current(c) == <<c, caller[c].call>>

-----------------------------------------------------------------------------
(* writeAsyncFromReader *)

\* Wrong: whoever forwards or writes puts the buffer back when the call fails.
PutsBackOnError(m) == KindOf(m) # "flush"

\* Only who forwards a reader puts it back when the call fails.
PutsBack(m) == KindOf(m) = "forward"

Return(c, res) ==
  LET m == Current(c)
  IN  /\ caller' = [caller EXCEPT ![c] = [pc |-> "ready", call |-> @.call + 1]]
      /\ result' = [result EXCEPT ![m] = res]
      /\ putBack' = [putBack EXCEPT ![m] = IF res # "nil" /\ PutsBack(m) THEN @ + 1 ELSE @]

\* The check of closed.
Call(c) ==
  /\ caller[c].pc = "ready"
  /\ caller[c].call <= Len(Program[c])
  /\ IF closed THEN Return(c, "closed")
     ELSE /\ caller' = [caller EXCEPT ![c].pc = "sending"]
          /\ UNCHANGED <<result, putBack>>
  /\ UNCHANGED <<cancelled, queueVars, writerVars, respChan, closeVars>>

\* The first select.
Enqueue(c) ==
  /\ caller[c].pc = "sending"
  /\ Len(writerCh) < QueueSize
  /\ writerCh' = Append(writerCh, Current(c))
  /\ sent' = Append(sent, Current(c))
  /\ IF Waits(Current(c))
     THEN /\ caller' = [caller EXCEPT ![c].pc = "waiting"]
          /\ UNCHANGED <<result, putBack>>
     ELSE Return(c, "nil")
  /\ UNCHANGED <<cancelled, writerVars, respChan, closeVars>>

\* Wrong: does not look at the connection's context.
GiveUpSendingAlone(c) ==
  /\ caller[c].pc = "sending"
  /\ c \in cancelled
  /\ Return(c, "cancelled")
  /\ UNCHANGED <<cancelled, queueVars, writerVars, respChan, closeVars>>

GiveUpSending(c) ==
  /\ caller[c].pc = "sending"
  /\ \/ c \in cancelled /\ Return(c, "cancelled")
     \/ ctxDone /\ Return(c, "closed")
  /\ UNCHANGED <<cancelled, queueVars, writerVars, respChan, closeVars>>

\* The second select.  A closed channel yields nil.
ReceiveResult(c) ==
  LET chan == respChan[Current(c)]
  IN  /\ caller[c].pc = "waiting"
      /\ \/ chan.value # "empty" /\ Return(c, chan.value)
         \/ chan.value = "empty" /\ chan.closed /\ Return(c, "nil")
      /\ UNCHANGED <<cancelled, queueVars, writerVars, respChan, closeVars>>

\* Wrong: takes a connection that closes for one that has written everything.
GiveUpWaitingInPeace(c) ==
  /\ caller[c].pc = "waiting"
  /\ \/ c \in cancelled /\ Return(c, "cancelled")
     \/ ctxDone /\ Return(c, "nil")
  /\ UNCHANGED <<cancelled, queueVars, writerVars, respChan, closeVars>>

GiveUpWaiting(c) ==
  /\ caller[c].pc = "waiting"
  /\ \/ c \in cancelled /\ Return(c, "cancelled")
     \/ ctxDone /\ Return(c, "closed")
  /\ UNCHANGED <<cancelled, queueVars, writerVars, respChan, closeVars>>

CancelCaller(c) ==
  /\ c \notin cancelled
  /\ cancelled' = cancelled \cup {c}
  /\ UNCHANGED <<caller, result, queueVars, writerVars, respChan, closeVars, putBack>>

-----------------------------------------------------------------------------
(* backgroundWriter *)

\* A flush has nothing to write.
TakeMessage ==
  /\ writer.pc = "select"
  /\ writerCh # <<>>
  /\ writerCh' = Tail(writerCh)
  /\ writer' = [pc |-> IF KindOf(Head(writerCh)) = "flush" THEN "responding" ELSE "writing",
                msg |-> Head(writerCh), err |-> "nil"]
  /\ UNCHANGED <<caller, result, cancelled, sent, written, respChan, closeVars, putBack>>

SeeDone ==
  /\ writer.pc = "select"
  /\ ctxDone
  /\ writer' = [writer EXCEPT !.pc = "closing"]
  /\ UNCHANGED <<caller, result, cancelled, queueVars, written, respChan, closeVars, putBack>>

\* WriteMessage and Done.  A peer that does not read blocks the write until the
\* connection is closed.
WriteSucceeds ==
  /\ writer.pc = "writing"
  /\ ~ connClosed
  /\ writer' = [writer EXCEPT !.pc = "responding"]
  /\ written' = Append(written, writer.msg)
  /\ putBack' = [putBack EXCEPT ![writer.msg] = @ + 1]
  /\ UNCHANGED <<caller, result, cancelled, queueVars, respChan, closeVars>>

WriteFails ==
  /\ writer.pc = "writing"
  /\ writer' = [writer EXCEPT !.pc = "responding", !.err = "writeError"]
  /\ putBack' = [putBack EXCEPT ![writer.msg] = @ + 1]
  /\ UNCHANGED <<caller, result, cancelled, queueVars, written, respChan, closeVars>>

\* Wrong: goes on after an error.
NextMessage == "select"

AfterMessage == IF writer.err = "nil" THEN "select" ELSE "closing"

\* The result is sent, unless the caller's context is done and that case chosen.
Respond ==
  /\ writer.pc = "responding"
  /\ writer' = [pc |-> AfterMessage, msg |-> NoMessage, err |-> "nil"]
  /\ IF Waits(writer.msg)
     THEN \/ respChan' = [respChan EXCEPT ![writer.msg] = [value |-> writer.err, closed |-> TRUE]]
          \/ /\ writer.msg[1] \in cancelled
             /\ respChan' = [respChan EXCEPT ![writer.msg].closed = TRUE]
     ELSE UNCHANGED respChan
  /\ UNCHANGED <<caller, result, cancelled, queueVars, written, closeVars, putBack>>

-----------------------------------------------------------------------------
(* Close *)

\* The compare-and-swap of closed.
BeginClose(x) ==
  /\ closing[x] = "idle"
  /\ x = Writer => writer.pc = "closing"
  /\ closed' = TRUE
  /\ closing' = [closing EXCEPT ![x] = IF closed THEN "joining" ELSE "swapped"]
  /\ UNCHANGED <<caller, result, cancelled, queueVars, writerVars, respChan, ctxDone,
                 connClosed, timeoutLoop, putBack>>

Cancel(x) ==
  /\ closing[x] = "swapped"
  /\ ctxDone' = TRUE
  /\ closing' = [closing EXCEPT ![x] = "cancelled"]
  /\ UNCHANGED <<caller, result, cancelled, queueVars, writerVars, respChan, closed,
                 connClosed, timeoutLoop, putBack>>

\* The close message, which gives up after a second, and the close.
CloseConn(x) ==
  /\ closing[x] = "cancelled"
  /\ connClosed' = TRUE
  /\ closing' = [closing EXCEPT ![x] = "joining"]
  /\ UNCHANGED <<caller, result, cancelled, queueVars, writerVars, respChan, closed, ctxDone,
                 timeoutLoop, putBack>>

\* Wrong: nobody waits.
JoinedNever(x) == TRUE

\* Close waits for both goroutines, closeNormal does not.
Joined(x) == x = Writer \/ (writer.pc = "done" /\ ~ timeoutLoop)

EndClose(x) ==
  /\ closing[x] = "joining"
  /\ Joined(x)
  /\ closing' = [closing EXCEPT ![x] = "done"]
  /\ writer' = IF x = Writer THEN [writer EXCEPT !.pc = "done"] ELSE writer
  /\ UNCHANGED <<caller, result, cancelled, queueVars, written, respChan, closed, ctxDone,
                 connClosed, timeoutLoop, putBack>>

\* timeoutLoop returns when the context is done, and when it finds the peer dead.
EndTimeoutLoop ==
  /\ timeoutLoop
  /\ timeoutLoop' = FALSE
  /\ UNCHANGED <<caller, result, cancelled, queueVars, writerVars, respChan, closed, ctxDone,
                 connClosed, closing, putBack>>

-----------------------------------------------------------------------------
(* The specification. *)

WInit ==
  /\ caller = [c \in Callers |-> [pc |-> "ready", call |-> 1]]
  /\ result = [m \in Messages |-> "none"]
  /\ cancelled = {}
  /\ writerCh = <<>>
  /\ writer = [pc |-> "select", msg |-> NoMessage, err |-> "nil"]
  /\ respChan = [m \in Messages |-> [value |-> "empty", closed |-> FALSE]]
  /\ closed = FALSE
  /\ ctxDone = FALSE
  /\ connClosed = FALSE
  /\ closing = [x \in Closers \cup {Writer} |-> "idle"]
  /\ timeoutLoop = TRUE
  /\ sent = <<>>
  /\ written = <<>>
  /\ putBack = [m \in Messages |-> 0]

CallerSteps(c) ==
  \/ Call(c)
  \/ Enqueue(c)
  \/ GiveUpSending(c)
  \/ ReceiveResult(c)
  \/ GiveUpWaiting(c)

WriterSteps == TakeMessage \/ SeeDone \/ Respond

CloseSteps(x) == Cancel(x) \/ CloseConn(x) \/ EndClose(x)

WNext ==
  \/ \E c \in Callers : CallerSteps(c) \/ CancelCaller(c)
  \/ WriterSteps
  \/ WriteSucceeds
  \/ WriteFails
  \/ \E x \in Closers \cup {Writer} : BeginClose(x) \/ CloseSteps(x)
  \/ EndTimeoutLoop

WSpec == WInit /\ [][WNext]_wVars

\* Goroutines run; a blocked write fails once the connection is closed; the writer
\* closes when it ends.  Nothing is assumed of the peer, of the callers' contexts,
\* or that anybody closes.
FairWSpec ==
  /\ WSpec
  /\ \A c \in Callers : WF_wVars(CallerSteps(c))
  /\ WF_wVars(WriterSteps)
  /\ WF_wVars(connClosed /\ WriteFails)
  /\ WF_wVars(BeginClose(Writer))
  /\ \A x \in Closers \cup {Writer} : WF_wVars(CloseSteps(x))
  /\ WF_wVars(ctxDone /\ EndTimeoutLoop)

-----------------------------------------------------------------------------
(* Properties. *)

\* The types; a buffer is put back once at most.
WTypeOK ==
  /\ caller \in [Callers -> [pc : {"ready", "sending", "waiting"}, call : Nat \ {0}]]
  /\ \A c \in Callers : caller[c].call <= Len(Program[c]) + 1
  /\ result \in [Messages -> {"none", "nil", "writeError", "closed", "cancelled"}]
  /\ cancelled \subseteq Callers
  /\ writerCh \in Seq(Messages) /\ Len(writerCh) <= QueueSize
  /\ writer \in [pc : {"select", "writing", "responding", "closing", "done"},
                 msg : Messages \cup {NoMessage}, err : {"nil", "writeError"}]
  /\ respChan \in [Messages -> [value : {"empty", "nil", "writeError"}, closed : BOOLEAN]]
  /\ closed \in BOOLEAN /\ ctxDone \in BOOLEAN /\ connClosed \in BOOLEAN
  /\ closing \in [Closers \cup {Writer} -> {"idle", "swapped", "cancelled", "joining", "done"}]
  /\ timeoutLoop \in BOOLEAN
  /\ sent \in Seq(Messages) /\ written \in Seq(Messages)
  /\ putBack \in [Messages -> 0..1]

\* A flush is no message to the peer.
IsPayload(m) == KindOf(m) # "flush"

\* When Flush returns without an error, every message that was queued before it
\* has been written, also when its context ends or the connection closes just then.
FlushMeansWritten ==
  \A i \in DOMAIN sent :
    KindOf(sent[i]) = "flush" /\ result[sent[i]] = "nil" =>
      \A j \in 1..(i - 1) : IsPayload(sent[j]) => \E k \in DOMAIN written : written[k] = sent[j]

\* The peer gets the messages that entered the queue, each once and in that order: before
\* a message it has got all that were queued before it, so that none comes after one that
\* failed; and a Flush that succeeded tells the truth.
WrittenInOrder ==
  /\ \A k \in DOMAIN written : \E i \in DOMAIN sent : written[k] = sent[i] /\ IsPayload(sent[i])
  /\ \A k \in DOMAIN written, l \in DOMAIN written : written[k] = written[l] => k = l
  /\ \A i \in DOMAIN sent, l \in DOMAIN written : written[l] = sent[i] =>
       \A j \in 1..(i - 1) : IsPayload(sent[j]) => \E k \in 1..(l - 1) : written[k] = sent[j]
  /\ FlushMeansWritten

\* A buffer that is queued or being written has not been put back, so that no other
\* connection writes into it; the types hold, and none is put back twice.
NoUseAfterPutBack ==
  /\ WTypeOK
  /\ \A i \in DOMAIN writerCh : putBack[writerCh[i]] = 0
  /\ writer.pc = "writing" => putBack[writer.msg] = 0

\* Nothing is written any more once a Close has returned.
NothingAfterClose ==
  [][(\E x \in Closers : closing[x] = "done") => written' = written]_wVars

\* Closing ends everything: Close returns, whoever else closes, whatever the peer
\* does and however many messages are queued; and every caller that waits for room
\* in the queue or for its result is let go.
ClosingEnds ==
  /\ \A x \in Closers : closing[x] # "idle" ~> closing[x] = "done"
  /\ \A c \in Callers : ctxDone /\ caller[c].pc # "ready" ~> caller[c].pc = "ready"
=============================================================================
