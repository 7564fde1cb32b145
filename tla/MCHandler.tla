------------------------------ MODULE MCHandler ------------------------------
(* Small instances of Handler for TLC. *)
EXTENDS Handler

CONSTANTS h1, h2
=============================================================================
