------------------------------- MODULE MCRaft -------------------------------
(* Module Raft for TLC: symmetry of the nodes, and a view that forgets what   *)
(* no later step of any behaviour reads.                                      *)
EXTENDS Redirects, RaftRefinement, TLC

CONSTANT Watched    \* of "leaderID" and "disk", what the run's properties read

Symmetry == Permutations(Server)

\* What is on disk matters while there are restarts to come, and on a full disk
\* only if its node may be restarted.
Disks ==
    IF "disk" \notin Watched /\ restarts = MaxRestarts THEN <<>>
    ELSE <<diskFull, [i \in Server |-> IF i \in diskFull /\ ~ RestartFull THEN Nil ELSE disk[i]]>>

\* A call matters while its receiver may still act on it, or its sender, still
\* in the term of the call, may still act on the reply.
Live(calls) == {m \in calls : m.term >= currentTerm[m.to] \/ m.term >= currentTerm[m.from]}
LiveReplies(replies, st) == {r \in replies : state[r.to] = st /\ r.reqTerm = currentTerm[r.to]}

View ==
    <<state, persistentVars, restarts, installing,
      IF "leaderID" \in Watched THEN leaderID ELSE <<>>,
      Disks,
      [i \in Server |-> IF state[i] = Leader THEN <<nextIndex[i], matchIndex[i]>> ELSE <<>>],
      [i \in Server |-> IF state[i] = Follower THEN {} ELSE votes[i]],
      {m \in Live(voteRequests) : ~ VoteAnswered(m)},
      {r \in LiveReplies(voteReplies, Candidate) :
           r.term > r.reqTerm \/ (r.voteGranted /\ r.from \notin votes[r.to])},
      Live(appendRequests), LiveReplies(appendReplies, Leader),
      Live(snapshotRequests), LiveReplies(snapshotReplies, Leader),
      Cardinality(appendRequests),
      Cardinality({<<m.from, m.term>> : m \in voteRequests})>>
=============================================================================
