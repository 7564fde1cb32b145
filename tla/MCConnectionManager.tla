------------------------- MODULE MCConnectionManager -------------------------
(* Small instances of ConnectionManager for TLC. *)
EXTENDS ConnectionManager

CONSTANTS phone, w1, w2, a1, a1again, a2, home, away, ctrl1, ctrl2

\* Worker a1 may reconnect as a1again.  There are two control connections, named
\* after the origins they announce.
MCDeviceOf == [c \in Workers |-> phone]
MCIDOf == [c \in Workers |-> IF c = a2 THEN w2 ELSE w1]
MCConnDevice == [c \in Conns |-> phone]
MCConnOrigin == [c \in Conns |-> c]
MCWorkerOrigin == [c \in Workers |-> home]

ControllerSymmetry == Permutations(Controllers)

NoLimit == {[Enabled |-> FALSE, MaxSelections |-> 0, Duration |-> 0]}
=============================================================================
