------------------------------- MODULE MCWsConn -------------------------------
(* A small instance of WsConn for TLC. *)
EXTENDS WsConn

CONSTANTS c1, c2, k1, k2

\* One forwards a message and flushes, the other waits for its write.
MCProgram == [c \in Callers |-> IF c = c1 THEN <<"forward", "flush">> ELSE <<"write">>]
=============================================================================
