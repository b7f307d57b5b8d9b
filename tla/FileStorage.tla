----------------------------- MODULE FileStorage -----------------------------
(***************************************************************************)
(* FileStorage (src/raft/storage.go): Save writes the state to path.tmp    *)
(* and renames it over path, Load reads path.  persistLocked is called     *)
(* under the node's mutex, so one Save runs at a time.  Each system call   *)
(* may fail, and the process may be killed between any two of them.  The   *)
(* files outlive the process; the machine losing power, against which the  *)
(* code has no fsync, is not modelled.                                     *)
(***************************************************************************)
CONSTANTS State, Initial
CONSTANTS
    Absent,             \* the file does not exist
    Torn                \* the file holds part of a state, which is not JSON

ASSUME FileStorageAssumption ==
    Initial \in State /\ Absent \notin State /\ Torn \notin State /\ Absent # Torn

VARIABLES
    path,               \* the content of f.path
    tmp,                \* the content of f.path.tmp
    pc,                 \* the next system call of Save, "idle", "down" or "failed"
    saving,             \* the state Save was called with last
    acked,              \* the state Save returned nil for, or Load returned, last
    loaded              \* what the last Load returned

vars == <<path, tmp, pc, saving, acked, loaded>>

Calls == {"mkdir", "open", "write", "rename", "return"}

Save(s) ==
    /\ pc = "idle"
    /\ pc' = "mkdir"
    /\ saving' = s
    /\ UNCHANGED <<path, tmp, acked, loaded>>

\* os.MkdirAll; json.MarshalIndent does not fail on a PersistentState.
MkdirAll ==
    /\ pc = "mkdir"
    /\ pc' = "open"
    /\ UNCHANGED <<path, tmp, saving, acked, loaded>>

\* Mutant: the state is written to path itself.
OpenInPlace ==
    /\ pc = "open"
    /\ pc' = "write"
    /\ path' = Torn
    /\ UNCHANGED <<tmp, saving, acked, loaded>>

\* os.WriteFile opens and truncates the file,
Open ==
    /\ pc = "open"
    /\ pc' = "write"
    /\ tmp' = Torn
    /\ UNCHANGED <<path, saving, acked, loaded>>

\* writes it and closes it.
Write ==
    /\ pc = "write"
    /\ pc' = "rename"
    /\ tmp' = saving
    /\ UNCHANGED <<path, saving, acked, loaded>>

Rename ==
    /\ pc = "rename"
    /\ pc' = "return"
    /\ path' = tmp /\ tmp' = Absent
    /\ UNCHANGED <<saving, acked, loaded>>

Return ==
    /\ pc = "return"
    /\ pc' = "idle"
    /\ acked' = saving
    /\ UNCHANGED <<path, tmp, saving, loaded>>

\* Mutant: a Save that fails cleans up behind itself, and removes too much.
FailRemoving ==
    /\ pc \in Calls \ {"return"}
    /\ pc' = "idle"
    /\ path' = Absent
    /\ UNCHANGED <<tmp, saving, acked, loaded>>

\* The next system call fails, and Save returns its error.
Fail ==
    /\ pc \in Calls \ {"return"}
    /\ pc' = "idle"
    /\ UNCHANGED <<path, tmp, saving, acked, loaded>>

Crash ==
    /\ pc \in Calls \cup {"idle"}
    /\ pc' = "down"
    /\ UNCHANGED <<path, tmp, saving, acked, loaded>>

\* What Load makes of path; a state it cannot parse fails NewRaft.
Content(file) == IF file = Absent THEN Initial ELSE file

Load ==
    /\ pc = "down"
    /\ IF path = Torn
       THEN pc' = "failed" /\ UNCHANGED <<loaded, acked>>
       ELSE pc' = "idle" /\ loaded' = Content(path) /\ acked' = Content(path)
    /\ UNCHANGED <<path, tmp, saving>>

Init ==
    /\ path = Absent /\ tmp = Absent
    /\ pc = "idle"
    /\ saving = Initial /\ acked = Initial /\ loaded = Initial

Next ==
    \/ \E s \in State : Save(s)
    \/ MkdirAll \/ Open \/ Write \/ Rename \/ Return \/ Fail \/ Crash \/ Load

Spec == Init /\ [][Next]_vars

-----------------------------------------------------------------------------
\* Every variable keeps its type; in particular path is never torn, so that
\* Load, and with it NewRaft, never fails on what it reads.
TypeOK ==
    /\ path \in State \cup {Absent} /\ tmp \in State \cup {Absent, Torn}
    /\ pc \in Calls \cup {"idle", "down"}
    /\ saving \in State /\ acked \in State /\ loaded \in State

\* Whatever was interrupted or failed, path holds the state the node relies on,
\* which Save returned nil for or Load returned last, or else the state of the
\* Save called last: an acknowledged state is only ever lost to a later one.
AckedSurvives == Content(path) \in {acked, saving}

\* Why it does: until Rename the old state is in place, at Rename the new one is
\* complete in tmp.
SaveInv ==
    /\ TypeOK
    /\ AckedSurvives
    /\ pc \in (Calls \ {"return"}) \cup {"idle"} => Content(path) = acked
    /\ pc = "rename" => tmp = saving
    /\ pc = "return" => path = saving

\* The files implement an atomic storage whose state is what Load would read.
Atomic == INSTANCE Storage WITH stored <- Content(path)
AtomicSpec == Atomic!Spec
=============================================================================
