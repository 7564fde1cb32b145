----------------------------- MODULE MCDeviceConn -----------------------------
(* A small instance of DeviceConn for TLC. *)
EXTENDS DeviceConn

CONSTANT caller
=============================================================================
