----------------------------- MODULE WorkerLease -----------------------------
(***************************************************************************)
(* What the worker selector promises to the rest of the program, without   *)
(* queues, counters, scores or rate limits.                                *)
(*                                                                         *)
(* Every worker of every device is a slot.  A slot is held by the worker   *)
(* connection that announced it last, and is free, leased to a controller, *)
(* away (its connection has left) or unknown.  Only a free slot is ever    *)
(* granted, only the connection that holds a slot can take it away, only   *)
(* slots that are away are forgotten, and a device goes only when none of  *)
(* its slots is leased.                                                    *)
(***************************************************************************)
CONSTANTS
  DeviceIDs,    \* devices
  WorkerIDs,    \* worker ids, unique within a device
  Workers,      \* worker connections
  DeviceOf,     \* the device of a connection
  IDOf,         \* the worker id of a connection
  NoWorker      \* the holder of an unknown slot

VARIABLE lease  \* slot -> [state, worker]

Slots == DeviceIDs \X WorkerIDs
SlotOf(c) == <<DeviceOf[c], IDOf[c]>>
Unknown == [state |-> "unknown", worker |-> NoWorker]
Leases == [state : {"free", "leased", "away"}, worker : Workers] \cup {Unknown}

Init == lease = [s \in Slots |-> Unknown]

\* A connection announces its worker, whoever held the slot before.
Announce(c) ==
  lease' = [lease EXCEPT ![SlotOf(c)] = [state |-> "free", worker |-> c]]

\* The connection that holds a slot leaves, and whatever lease there was ends.
Leave(c) ==
  /\ lease[SlotOf(c)].worker = c
  /\ lease' = [lease EXCEPT ![SlotOf(c)] = [state |-> "away", worker |-> c]]

\* A free slot is handed to a controller.
Grant(s) ==
  /\ lease[s].state = "free"
  /\ lease' = [lease EXCEPT ![s] = [state |-> "leased", worker |-> lease[s].worker]]

\* Slots that have been away for long are forgotten.
Forget(S) ==
  /\ \A s \in S : lease[s].state = "away"
  /\ lease' = [s \in Slots |-> IF s \in S THEN Unknown ELSE lease[s]]

\* A device with no leased slot is dropped with all its slots.
Drop(d) ==
  /\ \A s \in Slots : s[1] = d => lease[s].state # "leased"
  /\ lease' = [s \in Slots |-> IF s[1] = d THEN Unknown ELSE lease[s]]

Next ==
  \/ \E c \in Workers : Announce(c) \/ Leave(c)
  \/ \E s \in Slots : Grant(s)
  \/ \E S \in SUBSET Slots : Forget(S)
  \/ \E d \in DeviceIDs : Drop(d)

Spec == Init /\ [][Next]_lease
=============================================================================
