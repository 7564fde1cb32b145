------------------------------ MODULE MCSelector ------------------------------
(***************************************************************************)
(* Two small instances of the selector in one, told apart by a constant    *)
(* choice of the initial state: the load of two phones without a rate      *)
(* limit, and the audit of one phone with limits that are reloaded.        *)
(***************************************************************************)
EXTENDS SelectorAudit

CONSTANTS phoneA, phoneB, w1, w2, a1, a1again, a2, b1,
          LoadTime    \* bound: the clock of the first instance

VARIABLE study

\* Worker a1 of phone A may reconnect as a1again.
MCWorkers == {a1, a1again, a2, b1}
MCDeviceOf == [c \in MCWorkers |-> IF c = b1 THEN phoneB ELSE phoneA]
MCIDOf == [c \in MCWorkers |-> IF c = a2 THEN w2 ELSE w1]

Unlimited == [Enabled |-> FALSE, MaxSelections |-> 0, Duration |-> 0]
OneInTwo == [Enabled |-> TRUE, MaxSelections |-> 1, Duration |-> 2]
TwoInThree == [Enabled |-> TRUE, MaxSelections |-> 2, Duration |-> 3]

MCRateLimits == {Unlimited, OneInTwo, TwoInThree}

MCInit ==
  /\ AuditInit
  /\ study \in {"load", "limits"}
  /\ study = "load" => rateLimit = Unlimited

LoadNext ==
  /\ Next
  /\ now' <= LoadTime
  /\ UNCHANGED <<rateLimit, granted, arrivals, earlier>>

LimitsNext == AuditNext /\ DOMAIN devices' \subseteq {phoneA}

MCNext ==
  /\ study' = study
  /\ \/ study = "load" /\ LoadNext
     \/ study = "limits" /\ LimitsNext

MCSpec == MCInit /\ [][MCNext]_<<auditVars, study>>
=============================================================================
