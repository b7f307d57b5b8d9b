------------------------------- MODULE Storage -------------------------------
(***************************************************************************)
(* What package raft needs of a Storage (src/raft/storage.go): Save        *)
(* replaces the saved state in one step or not at all, whether it returns, *)
(* fails or is cut short by a crash, and Load returns the state saved      *)
(* last.  MemoryStorage is that in so many words; module FileStorage       *)
(* implements it.  Module Raft's disk variable is this storage, once per   *)
(* node.                                                                   *)
(***************************************************************************)
CONSTANTS
    State,              \* the values of PersistentState
    Initial             \* what Load returns before anything was saved

VARIABLES
    stored,             \* the saved state
    loaded              \* what the last Load returned

Init == stored = Initial /\ loaded = Initial

Save(s) == stored' = s /\ UNCHANGED loaded

Load == loaded' = stored /\ UNCHANGED stored

Next == (\E s \in State : Save(s)) \/ Load

Spec == Init /\ [][Next]_<<stored, loaded>>
=============================================================================
