--------------------------- MODULE MCElectionTimer ---------------------------
(* Module ElectionTimer for TLC. *)
EXTENDS ElectionTimer
=============================================================================
