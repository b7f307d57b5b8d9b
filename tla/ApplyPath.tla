------------------------------ MODULE ApplyPath ------------------------------
(***************************************************************************)
(* What happens on one node to an entry once it is committed: the          *)
(* goroutines that run applyCommitted (src/raft/raft.go), the channel      *)
(* applyCh, and the server's applyLoop, which applies commands to the      *)
(* store, installs snapshots and takes them (src/server/server.go).        *)
(*                                                                         *)
(* The committed entries are agreed (module Raft), so an entry is its      *)
(* index, and the store is the sequence of the entries applied to it: the  *)
(* most discriminating store there is.                                     *)
(***************************************************************************)
EXTENDS Integers, Sequences, FiniteSets, SequencesExt

CONSTANTS
    Worker,             \* goroutines of calls that move commitIndex or install
    Setting,            \* the ways a node is set up and used, each a record of
                        \*   workers:   the calls that may run at once
                        \*   threshold: SnapshotThreshold; 0 or less: no snapshots
                        \*   installs:  bound: InstallSnapshot calls
    ApplyChCap,         \* capacity of applyCh
    LateInstalls,       \* may a snapshot end before what is known committed?
    MaxIndex,           \* bound: last committed index
    MaxRestarts         \* bound: crashes

ASSUME ApplyPathAssumption ==
    /\ \A s \in Setting : /\ s.workers \subseteq Worker /\ s.workers # {}
                          /\ s.threshold \in Int /\ s.installs \in Nat
    /\ ApplyChCap \in Nat \ {0} /\ LateInstalls \in BOOLEAN
    /\ MaxIndex \in Nat /\ MaxRestarts \in Nat

VARIABLES
    setting,
    commitIndex,
    lastApplied,
    logOffset,          \* also snapshot.LastIncludedIndex
    lastLogIndex,       \* where the log ends, uncommitted entries included
    snapshot,           \* snapshot.Data
    pc,                 \* where each worker is: "idle", "take", "read", "send"; or the
                        \* process is "down" after a panic
    taken,              \* the entry a worker took
    msg,                \* the message it sends
    applyCh,
    store,
    snapping,           \* the index applyLoop is to maybeSnapshot at, or 0
    due,                \* the index it is to call Snapshot with, or 0
    installs, restarts

raftVars == <<setting, commitIndex, lastApplied, logOffset, lastLogIndex, snapshot>>
workerVars == <<pc, taken, msg>>
serverVars == <<store, snapping, due>>
vars == <<raftVars, workerVars, applyCh, serverVars, installs, restarts>>

max(a, b) == IF a > b THEN a ELSE b
min(a, b) == IF a < b THEN a ELSE b

\* What the first n entries leave in the store.
Prefix(n) == [k \in 1 .. n |-> k]

EntryMsg(index, entry) == [snapshot |-> FALSE, index |-> index, data |-> <<entry>>]
SnapshotMsg(index, data) == [snapshot |-> TRUE, index |-> index, data |-> data]

-----------------------------------------------------------------------------
(* The node's goroutines. *)

Running == \A w \in Worker : pc[w] # "down"

\* Start or HandleAppendEntries leaves a log that ends at n and moves no commit
\* index; what the log holds of the committed entries it keeps.
AppendOnly(n) ==
    /\ Running
    /\ n >= min(commitIndex, lastLogIndex)
    /\ lastLogIndex' = n
    /\ UNCHANGED <<setting, commitIndex, lastApplied, logOffset, snapshot, workerVars, applyCh,
                   serverVars, installs, restarts>>

\* HandleAppendEntries or advanceCommitIndex has moved commitIndex, to an entry
\* of the log as the call leaves it, and calls applyCommitted.
Commit(w, index) ==
    /\ pc[w] = "idle"
    /\ index > commitIndex
    /\ commitIndex' = index
    /\ lastLogIndex' \in index .. MaxIndex
    /\ pc' = [pc EXCEPT ![w] = "take"]
    /\ UNCHANGED <<setting, lastApplied, logOffset, snapshot, taken, msg, applyCh,
                   serverVars, installs, restarts>>

\* Mutant: the entry behind commitIndex is still to be applied.
CaughtUpLate == lastApplied > commitIndex
CaughtUp == lastApplied >= commitIndex

\* Mutant: lastApplied is incremented without the mutex, so an increment may
\* be lost.
TakeRacy(w) ==
    /\ pc[w] = "take"
    /\ IF CaughtUp
       THEN /\ pc' = [pc EXCEPT ![w] = "idle"]
            /\ UNCHANGED <<lastApplied, taken>>
       ELSE /\ lastApplied' \in {lastApplied, lastApplied + 1}
            /\ taken' = [taken EXCEPT ![w] = lastApplied + 1]
            /\ pc' = [pc EXCEPT ![w] = "read"]
    /\ UNCHANGED <<setting, commitIndex, logOffset, lastLogIndex, snapshot, msg, applyCh, serverVars,
                   installs, restarts>>

\* The critical section of applyCommitted's loop.  An entry that is not in the
\* log is an index out of range, which ends the process.
Take(w) ==
    /\ pc[w] = "take"
    /\ IF CaughtUp
       THEN /\ pc' = [pc EXCEPT ![w] = "idle"]
            /\ UNCHANGED <<lastApplied, taken>>
       ELSE IF lastApplied + 1 > lastLogIndex
       THEN /\ pc' = [v \in Worker |-> "down"]
            /\ UNCHANGED <<lastApplied, taken>>
       ELSE /\ lastApplied' = lastApplied + 1
            /\ taken' = [taken EXCEPT ![w] = lastApplied + 1]
            /\ pc' = [pc EXCEPT ![w] = "read"]
    /\ UNCHANGED <<setting, commitIndex, logOffset, lastLogIndex, snapshot, msg, applyCh, serverVars,
                   installs, restarts>>

\* The message's Index is r.lastApplied, read without the mutex: any value it
\* has had since this worker moved it.
ReadIndex(w) ==
    /\ pc[w] = "read"
    /\ \E index \in taken[w] .. lastApplied :
           msg' = [msg EXCEPT ![w] = EntryMsg(index, taken[w])]
    /\ pc' = [pc EXCEPT ![w] = "send"]
    /\ UNCHANGED <<raftVars, taken, applyCh, serverVars, installs, restarts>>

\* Mutant: applyCommitted sends one entry per call.
AfterSendOnce(m) == "idle"
AfterSend(m) == IF m.snapshot THEN "idle" ELSE "take"

\* The send on applyCh, which waits for room; after an entry the loop of
\* applyCommitted goes on, after a snapshot HandleInstallSnapshot returns.
Send(w) ==
    /\ pc[w] = "send"
    /\ Len(applyCh) < ApplyChCap
    /\ applyCh' = Append(applyCh, msg[w])
    /\ pc' = [pc EXCEPT ![w] = AfterSend(msg[w])]
    /\ UNCHANGED <<raftVars, taken, msg, serverVars, installs, restarts>>

\* HandleInstallSnapshot, for the snapshot of a leader's first index entries.
\* The log ends at the snapshot, whatever was behind it.  Without LateInstalls
\* the leader sends nothing this node knows to be committed (run
\* snapshot_discard of module Raft shows that it may).
InstallSnapshot(w, index) ==
    /\ pc[w] = "idle"
    /\ installs < setting.installs
    /\ LateInstalls \/ index >= commitIndex
    /\ index > logOffset
    /\ installs' = installs + 1
    /\ logOffset' = index /\ lastLogIndex' = index
    /\ snapshot' = Prefix(index)
    /\ commitIndex' = max(commitIndex, index)
    /\ lastApplied' = max(lastApplied, index)
    /\ msg' = [msg EXCEPT ![w] = SnapshotMsg(index, Prefix(index))]
    /\ pc' = [pc EXCEPT ![w] = "send"]
    /\ UNCHANGED <<setting, taken, applyCh, serverVars, restarts>>

-----------------------------------------------------------------------------
(* The server's applyLoop. *)

\* One message is received and the store changed: Store.Apply, or applySnapshot.
Receive ==
    /\ Running
    /\ snapping = 0 /\ due = 0
    /\ applyCh # <<>>
    /\ applyCh' = Tail(applyCh)
    /\ LET m == Head(applyCh)
       IN  IF m.snapshot
           THEN store' = m.data /\ snapping' = 0
           ELSE store' = store \o m.data /\ snapping' = m.index
    /\ UNCHANGED <<raftVars, workerVars, due, installs, restarts>>

\* maybeSnapshot at the index the message carried, up to the call of Snapshot:
\* LogOffset is read under the mutex, which is let go of again.  The copy of the
\* store that follows is applyLoop's own doing, so it may as well come later.
MaybeSnapshot ==
    /\ Running
    /\ snapping # 0
    /\ snapping' = 0
    /\ due' = IF setting.threshold > 0 /\ snapping - logOffset >= setting.threshold
              THEN snapping ELSE 0
    /\ UNCHANGED <<raftVars, workerVars, applyCh, store, installs, restarts>>

\* Mutant: the store is saved as of the last entry handed out, not the last
\* one applied.
SnapshotAhead ==
    /\ due # 0
    /\ due' = 0
    /\ snapshot' = store /\ logOffset' = lastApplied
    /\ UNCHANGED <<setting, commitIndex, lastApplied, lastLogIndex, workerVars, applyCh, store,
                   snapping, installs, restarts>>

\* Snapshot, which looks at logOffset again: a snapshot may have been installed
\* since maybeSnapshot did.
Snapshot ==
    /\ Running
    /\ due # 0
    /\ due' = 0
    /\ IF due > logOffset /\ due <= commitIndex /\ due <= lastLogIndex
       THEN /\ snapshot' = store
            /\ logOffset' = due
            /\ lastApplied' = max(lastApplied, due)
       ELSE UNCHANGED <<snapshot, logOffset, lastApplied>>
    /\ UNCHANGED <<setting, commitIndex, lastLogIndex, workerVars, applyCh, store, snapping,
                   installs, restarts>>

-----------------------------------------------------------------------------
\* Mutant: everything is applied again to the restored store.
RestoredAppliedNone == 0

\* NewRaft's lastApplied: everything the snapshot does not cover is applied again.
RestoredApplied == min(max(0, logOffset), commitIndex')

\* A crash, NewServer (commitIndex and the snapshot are on disk: see Durable in
\* module Raft; restoreSnapshot loads the store) and Run, which starts a
\* goroutine in applyCommitted.
Restart(w) ==
    /\ restarts < MaxRestarts
    /\ restarts' = restarts + 1
    /\ commitIndex' = min(max(commitIndex, logOffset), lastLogIndex)
    /\ lastApplied' = RestoredApplied
    /\ store' = snapshot
    /\ applyCh' = <<>>
    /\ snapping' = 0 /\ due' = 0
    /\ pc' = [v \in Worker |-> IF v = w THEN "take" ELSE "idle"]
    /\ UNCHANGED <<setting, logOffset, lastLogIndex, snapshot, taken, msg, installs>>

Init ==
    /\ setting \in Setting
    /\ commitIndex = 0 /\ lastApplied = 0 /\ logOffset = 0
    /\ lastLogIndex = 0 /\ snapshot = <<>>
    /\ pc = [w \in Worker |-> "idle"]
    /\ taken = [w \in Worker |-> 0]
    /\ msg = [w \in Worker |-> SnapshotMsg(0, <<>>)]
    /\ applyCh = <<>> /\ store = <<>> /\ snapping = 0 /\ due = 0
    /\ installs = 0 /\ restarts = 0

Next ==
    \/ \E n \in 1 .. MaxIndex : AppendOnly(n)
    \/ \E w \in setting.workers, index \in 1 .. MaxIndex : Commit(w, index)
    \/ \E w \in setting.workers : Take(w)
    \/ \E w \in setting.workers : ReadIndex(w)
    \/ \E w \in setting.workers : Send(w)
    \/ \E w \in setting.workers, index \in 1 .. MaxIndex : InstallSnapshot(w, index)
    \/ Receive
    \/ MaybeSnapshot
    \/ Snapshot
    \/ \E w \in setting.workers : Restart(w)

\* The Go scheduler runs every goroutine that can run; a sender waiting on a
\* channel is served in turn.
Fairness ==
    /\ \A w \in Worker : WF_vars(Take(w)) /\ WF_vars(ReadIndex(w)) /\ SF_vars(Send(w))
    /\ WF_vars(Receive) /\ WF_vars(MaybeSnapshot) /\ WF_vars(Snapshot)

Spec == Init /\ [][Next]_vars /\ Fairness

-----------------------------------------------------------------------------
\* Every variable keeps its type, applyCh its capacity, and lastApplied stays
\* between the snapshot and commitIndex, where applyCommitted finds its entries.
TypeOK ==
    /\ {commitIndex, lastLogIndex, snapping, due} \subseteq 0 .. MaxIndex
    /\ lastApplied \in 0 .. commitIndex /\ logOffset \in 0 .. lastApplied
    /\ snapshot \in Seq(1 .. MaxIndex) /\ store \in Seq(1 .. MaxIndex)
    /\ pc \in [Worker -> {"idle", "take", "read", "send", "down"}]
    /\ taken \in [Worker -> 0 .. MaxIndex]
    /\ \A m \in Range(msg) \cup Range(applyCh) :
           m.snapshot \in BOOLEAN /\ m.index \in 0 .. MaxIndex /\ m.data \in Seq(1 .. MaxIndex)
    /\ Len(applyCh) <= ApplyChCap
    /\ setting \in Setting /\ installs \in 0 .. setting.installs /\ restarts \in 0 .. MaxRestarts

\* Where one call at a time runs applyCommitted, the store is what the first
\* entries of the log leave, all of them up to some index, each once and in
\* order, across snapshots taken and installed and restarts that apply the rest
\* of the log again.
StoreIsPrefix == Cardinality(setting.workers) = 1 => store = Prefix(Len(store))

\* "Snapshot holds compacted state up to LastIncludedIndex" (raft/types.go):
\* the data maybeSnapshot hands to Snapshot is exactly what the entries that
\* the log drops leave in the store, so a restart loses none of them.
SnapshotFaithful == snapshot = Prefix(logOffset)

\* However many calls run applyCommitted at once, lastApplied, moved under the
\* mutex, hands every entry to the store at most once.
AppliedOnce == IsInjective(store)

\* The store holds no entry that is not committed, also right after a restart.
OnlyCommittedApplied == Range(store) \subseteq 1 .. commitIndex

\* Every committed entry is applied in the end, whatever fills applyCh.
EventuallyApplied ==
    \A index \in 1 .. MaxIndex :
        commitIndex >= index ~> index \in Range(store)
=============================================================================
