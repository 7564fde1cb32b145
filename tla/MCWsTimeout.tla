----------------------------- MODULE MCWsTimeout -----------------------------
(* Small instances of WsTimeout for TLC. *)
EXTENDS WsTimeout

Slow == [interval |-> 3, pongWait |-> 2, dataTimeout |-> 6]
Fast == [interval |-> 1, pongWait |-> 2, dataTimeout |-> 0]

Steady == [interval |-> 1, pongWait |-> 4, dataTimeout |-> 6]

MCSettings == {Slow, Fast, Steady}
=============================================================================
