---------------------------- MODULE SelectorAudit ----------------------------
(***************************************************************************)
(* Selector with an auditor: a history variable that remembers every       *)
(* selection the selector ever made of a device, and the order in which    *)
(* its workers announced themselves.  The selector's own history is pruned *)
(* and its queue is edited in place; the properties compare both with what *)
(* really happened.                                                        *)
(***************************************************************************)
EXTENDS Selector

CONSTANT MaxGrants    \* bound: selections remembered for one device

VARIABLES
  granted,            \* device -> times of its selections, oldest first
  arrivals,           \* device -> its worker ids, latest announcement last
  earlier             \* device -> how many of its selections other settings allowed

auditVars == <<devices, rateLimit, now, granted, arrivals, earlier>>

AuditInit ==
  /\ Init
  /\ granted = [d \in DeviceIDs |-> <<>>]
  /\ arrivals = [d \in DeviceIDs |-> <<>>]
  /\ earlier = [d \in DeviceIDs |-> 0]

\* A device that is dropped starts over.
Forget(f) == [d \in DeviceIDs |-> IF d \in DOMAIN devices' THEN f[d] ELSE <<>>]

AuditNext ==
  \/ \E requested \in RequestedWeights, d \in DeviceIDs :
       /\ Len(granted[d]) < MaxGrants
       /\ SelectWorker(requested, d)
       /\ granted' = [granted EXCEPT ![d] = Append(@, now)]
       /\ UNCHANGED <<arrivals, earlier>>
  \/ \E c \in Workers :
       /\ SetWorkerAvailable(c)
       /\ arrivals' = [arrivals EXCEPT
                         ![DeviceOf[c]] = Append(RemoveFirst(@, IDOf[c]), IDOf[c])]
       /\ UNCHANGED <<granted, earlier>>
  \/ /\ Upkeep
     /\ \A c \in Workers : ~ SetWorkerAvailable(c)
     /\ granted' = Forget(granted)
     /\ arrivals' = Forget(arrivals)
     /\ earlier' = [d \in DeviceIDs |->
                      IF rateLimit' = rateLimit /\ d \in DOMAIN devices' THEN earlier[d]
                      ELSE Len(granted'[d])]

AuditSpec == AuditInit /\ [][AuditNext]_auditVars

-----------------------------------------------------------------------------

\* The selections of a device in the window that ends at time t.
InWindow(d, t) ==
  {i \in DOMAIN granted[d] : granted[d][i] > t - rateLimit.Duration /\ granted[d][i] <= t}

\* The rate limit is exact.  While settings stay as they are, no window of the
\* configured duration holds more selections of one device than MaxSelections,
\* however the device's workers come and go and however often its history was
\* pruned.  And whatever reloads came before, no device is held back that has room
\* left in the current window of the current settings.
RateLimitIsExact ==
  /\ rateLimit.Enabled =>
       \A d \in DeviceIDs : \A t \in 1..now :
         Cardinality(InWindow(d, t) \cap (earlier[d] + 1)..Len(granted[d]))
           <= rateLimit.MaxSelections
  /\ \A d \in DOMAIN devices :
       /\ Candidate(devices[d])
       /\ Cardinality(InWindow(d, now)) < rateLimit.MaxSelections
       => d \in Eligible(devices, rateLimit, now)

\* The worker handed out is the one that has waited longest on its device: a
\* worker that reconnected goes behind the others.
LongestWaitingFirst ==
  [][\A d \in DOMAIN devices : \A id \in Seen(devices[d]) :
       (\E requested \in RequestedWeights : SelectWorker(requested, d))
         /\ id \in Assigned(devices'[d]) \ Assigned(devices[d]) =>
         \A i, j \in DOMAIN arrivals[d] :
           arrivals[d][i] = id /\ j < i =>
             arrivals[d][j] \notin Range(devices[d].availableWorkers)]_auditVars
=============================================================================
