---------------------------- MODULE MCFileStorage ----------------------------
(* Module FileStorage for TLC. *)
EXTENDS FileStorage
=============================================================================
