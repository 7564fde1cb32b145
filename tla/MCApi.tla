--------------------------------- MODULE MCApi ---------------------------------
(* A small instance of Api for TLC. *)
EXTENDS Api

CONSTANTS r1, r2, job
=============================================================================
