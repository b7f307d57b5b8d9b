----------------------------- MODULE MCLogRepair -----------------------------
(* Module LogRepair for TLC. *)
EXTENDS LogRepair
=============================================================================
