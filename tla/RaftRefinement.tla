--------------------------- MODULE RaftRefinement ----------------------------
(* Module Raft, as long as nothing is compacted, implements ReplicatedLog.    *)
EXTENDS Raft

Committed(i) == SubSeq(log[i], 2, commitIndex[i] + 1)

Abstract == INSTANCE ReplicatedLog WITH committed <- [i \in Server |-> Committed(i)]

\* The entries up to commitIndex, as advanceCommitIndex and HandleAppendEntries
\* move it, are on every node prefixes of one sequence, one node at a time learns
\* more of it, and no node ever takes an entry back: not when logs are cut, when
\* leaders change, or when calls come late or twice.
ImplementsReplicatedLog == Abstract!Spec
=============================================================================
