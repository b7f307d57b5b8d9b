------------------------- MODULE RaftElectionProofs -------------------------
(***************************************************************************)
(* Elections are safe for every cluster size and every bound: at most one  *)
(* leader per term, and one vote per node and term, with crashes at any    *)
(* point of a handler.  The one assumption (DisksReliable) is that no node *)
(* is restarted while its disk refuses writes: persistLocked's error is    *)
(* ignored, and without the assumption both properties fail.               *)
(***************************************************************************)
EXTENDS RaftTypeProofs, FiniteSetTheorems

DisksReliable == MaxDiskFull = 0 \/ MaxRestarts = 0 \/ ~ RestartFull

\* No node is both running without a disk and about to be restarted.
RestartsSafe == MaxRestarts = 0 \/ ~ RestartFull \/ diskFull = {}

\* The inductive invariant.
ElectionInv == TypeOK /\ RestartsSafe /\ VoteDurable /\ VotesBinding

-----------------------------------------------------------------------------
(* Steps that neither ask for, give, nor count a vote. *)

Kept(i) ==
    /\ state'[i] = state[i] /\ currentTerm'[i] = currentTerm[i]
    /\ votedFor'[i] = votedFor[i] /\ votes'[i] = votes[i]

Followed(i) ==
    /\ state'[i] = Follower
    /\ \/ currentTerm'[i] > currentTerm[i]
       \/ currentTerm'[i] = currentTerm[i] /\ votedFor'[i] = votedFor[i]

Quiet ==
    /\ UNCHANGED voteCalls
    /\ \A i \in Server : Kept(i) \/ Followed(i)

\* A quiet step leaves every vote binding.
LEMMA QuietBinding ==
    ASSUME TypeOK, TypeOK', VotesBinding, Quiet
    PROVE  VotesBinding'
<1>1. UNCHANGED <<voteRequests, voteReplies>>
  BY Zenon DEF Quiet, voteCalls
<1>2. \A i \in Server : currentTerm[i] \in Nat /\ currentTerm'[i] \in Nat
  BY Zenon DEF TypeOK
<1>3. \A j, i, t : (Granted(j, i, t)' <=> Granted(j, i, t)) /\ (Requested(i, t)' <=> Requested(i, t))
  BY <1>1, Zenon DEF Granted, Requested
<1>4. ASSUME NEW r \in voteReplies', r.voteGranted
      PROVE  /\ r.from # r.to
             /\ \/ currentTerm'[r.from] > r.reqTerm
                \/ currentTerm'[r.from] = r.reqTerm /\ votedFor'[r.from] = r.to
             /\ ~ Requested(r.from, r.reqTerm)'
             /\ \A i \in Server : Granted(r.from, i, r.reqTerm)' => i = r.to
  <2>1. r \in voteReplies /\ r.from \in Server /\ r.reqTerm \in Nat
    BY <1>1, Zenon DEF TypeOK, VoteReply
  <2>2. /\ r.from # r.to
        /\ \/ currentTerm[r.from] > r.reqTerm
           \/ currentTerm[r.from] = r.reqTerm /\ votedFor[r.from] = r.to
        /\ ~ Requested(r.from, r.reqTerm)
        /\ \A i \in Server : Granted(r.from, i, r.reqTerm) => i = r.to
    BY <1>4, <2>1, Zenon DEF VotesBinding
  <2>3. Kept(r.from) \/ Followed(r.from)
    BY <2>1, Zenon DEF Quiet
  <2>4. \/ currentTerm'[r.from] > r.reqTerm
        \/ currentTerm'[r.from] = r.reqTerm /\ votedFor'[r.from] = r.to
    BY <1>2, <2>1, <2>2, <2>3 DEF Kept, Followed
  <2> QED  BY <1>3, <2>2, <2>4, Zenon
<1>5. ASSUME NEW m \in voteRequests'
      PROVE  /\ m.from # m.to
             /\ \/ currentTerm'[m.from] > m.term
                \/ currentTerm'[m.from] = m.term /\ votedFor'[m.from] = m.from
  <2>1. m \in voteRequests /\ m.from \in Server /\ m.term \in Nat
    BY <1>1, Zenon DEF TypeOK, VoteRequest
  <2>2. /\ m.from # m.to
        /\ \/ currentTerm[m.from] > m.term
           \/ currentTerm[m.from] = m.term /\ votedFor[m.from] = m.from
    BY <2>1, Zenon DEF VotesBinding
  <2>3. Kept(m.from) \/ Followed(m.from)
    BY <2>1, Zenon DEF Quiet
  <2> QED  BY <1>2, <2>1, <2>2, <2>3 DEF Kept, Followed
<1>6. ASSUME NEW i \in Server, state'[i] # Follower
      PROVE  /\ votedFor'[i] = i
             /\ Peers(i) # {} => Requested(i, currentTerm[i])'
             /\ \A j \in votes'[i] \ {i} : Granted(j, i, currentTerm[i])'
             /\ state'[i] = Leader => Cardinality(votes'[i]) >= quorumSize
  <2>1. Kept(i)
    BY <1>6, Zenon DEF Quiet, Followed
  <2>2. /\ votedFor[i] = i
        /\ Peers(i) # {} => Requested(i, currentTerm[i])
        /\ \A j \in votes[i] \ {i} : Granted(j, i, currentTerm[i])
        /\ state[i] = Leader => Cardinality(votes[i]) >= quorumSize
    BY <1>6, <2>1, Zenon DEF VotesBinding, Kept
  <2>3. /\ Requested(i, currentTerm[i])' <=> Requested(i, currentTerm[i])
        /\ \A j : Granted(j, i, currentTerm[i])' <=> Granted(j, i, currentTerm[i])
    BY <1>1, <2>1, Zenon DEF Kept, Requested, Granted
  <2> QED  BY <2>1, <2>2, <2>3, Zenon DEF Kept
<1> QED  BY <1>4, <1>5, <1>6, Zenon DEF VotesBinding

\* becomeFollowerLocked never takes a node back to an earlier term, and keeps
\* its vote when it stays in the term.
LEMMA BecomeFollowerQuiet ==
    ASSUME TypeOK, NEW i \in Server, NEW t \in Nat, BecomeFollower(i, t), UNCHANGED votes
    PROVE  \A k \in Server : Kept(k) \/ Followed(k)
<1>1. \A k \in Server \ {i} : Kept(k)
  BY Zenon DEF TypeOK, BecomeFollower, Kept
<1>2. Followed(i)
  <2>1. currentTerm[i] \in Nat
    BY Zenon DEF TypeOK
  <2>2. /\ state'[i] = Follower /\ currentTerm'[i] = max(currentTerm[i], t)
        /\ votedFor'[i] = IF t > currentTerm[i] THEN Nil ELSE votedFor[i]
    BY Zenon DEF TypeOK, BecomeFollower
  <2> QED  BY <2>1, <2>2 DEF Followed, max
<1> QED  BY <1>1, <1>2, Zenon

\* A restart from a saved state that holds the node's term and vote, or a later
\* term, is quiet.
LEMMA CrashQuiet ==
    ASSUME TypeOK, NEW i \in Server, NEW s, Crash(i, s),
           \/ s.currentTerm > currentTerm[i]
           \/ s.currentTerm = currentTerm[i] /\ s.votedFor = votedFor[i]
    PROVE  Quiet
<1>1. NewRaft(i, s) /\ UNCHANGED voteCalls
  BY Zenon DEF Crash
<1>2. \A k \in Server \ {i} : Kept(k)
  BY <1>1, Zenon DEF TypeOK, NewRaft, Kept
<1>3. Followed(i)
  BY <1>1, Zenon DEF TypeOK, NewRaft, Followed
<1> QED  BY <1>1, <1>2, <1>3, Zenon DEF Quiet

\* With durable votes and reliable disks, all four ways to crash are quiet.
LEMMA CrashesQuiet ==
    ASSUME TypeOK, VoteDurable, RestartsSafe, NEW i \in Server
    PROVE  /\ Restart(i) => Quiet
           /\ CrashAfterTermSave(i) => Quiet
           /\ \A c \in Command : CrashAfterStartSave(i, c) => Quiet
           /\ CrashAfterLogSave(i) => Quiet
<1>1. ASSUME NEW s, Crash(i, s)
      PROVE  disk[i].currentTerm = currentTerm[i] /\ disk[i].votedFor = votedFor[i]
  <2>1. restarts < MaxRestarts /\ restarts \in Nat
    BY <1>1, Zenon DEF Crash, TypeOK
  <2>2. i \notin diskFull
    BY <1>1, <2>1 DEF RestartsSafe, Crash
  <2> QED  BY <2>2, Zenon DEF VoteDurable
<1>2. /\ Saved(i) \in PersistentState
      /\ Saved(i).currentTerm = currentTerm[i] /\ Saved(i).votedFor = votedFor[i]
  BY Zenon DEF Saved, PersistentState, TypeOK
<1>3. Restart(i) => Quiet
  BY <1>1, CrashQuiet, Zenon DEF Restart
<1>4. ASSUME CrashAfterTermSave(i) PROVE Quiet
  <2>1. PICK m \in voteRequests \cup appendRequests \cup snapshotRequests :
            /\ m.term > currentTerm[i]
            /\ Crash(i, [Saved(i) EXCEPT !.currentTerm = m.term, !.votedFor = Nil])
    BY <1>4, Zenon DEF CrashAfterTermSave
  <2>2. [Saved(i) EXCEPT !.currentTerm = m.term, !.votedFor = Nil].currentTerm = m.term
    BY <1>2, Zenon DEF PersistentState
  <2> QED  BY <2>1, <2>2, CrashQuiet, Zenon
<1>5. ASSUME NEW c \in Command, CrashAfterStartSave(i, c) PROVE Quiet
  <2> DEFINE s == [Saved(i) EXCEPT
                      !.log = Append(log[i], [term |-> currentTerm[i], cmd |-> c])]
  <2>1. Crash(i, s)
    BY <1>5, Zenon DEF CrashAfterStartSave
  <2>2. s.currentTerm = currentTerm[i] /\ s.votedFor = votedFor[i]
    BY <1>2, Zenon DEF PersistentState
  <2> HIDE DEF s
  <2> QED  BY <2>1, <2>2, CrashQuiet, Zenon
<1>6. ASSUME CrashAfterLogSave(i) PROVE Quiet
  <2>1. PICK m \in appendRequests :
            /\ m.term >= currentTerm[i]
            /\ Crash(i, [Saved(i) EXCEPT
                          !.currentTerm = m.term,
                          !.votedFor = IF m.term > currentTerm[i] THEN Nil ELSE @,
                          !.log = AppendedLog(i, m.prevLogIndex, m.entries)])
    BY <1>6, Zenon DEF CrashAfterLogSave
  <2> DEFINE s == [Saved(i) EXCEPT
                      !.currentTerm = m.term,
                      !.votedFor = IF m.term > currentTerm[i] THEN Nil ELSE @,
                      !.log = AppendedLog(i, m.prevLogIndex, m.entries)]
  <2>2. m.term \in Nat /\ currentTerm[i] \in Nat
    BY Zenon DEF TypeOK, AppendRequest
  <2>3. /\ s.currentTerm = m.term
        /\ s.votedFor = IF m.term > currentTerm[i] THEN Nil ELSE votedFor[i]
    BY <1>2, Zenon DEF PersistentState
  <2>4. Crash(i, s)
    BY <2>1, Zenon
  <2> HIDE DEF s
  <2> QED  BY <2>1, <2>2, <2>3, <2>4, CrashQuiet
<1> QED  BY <1>3, <1>4, <1>5, <1>6, Zenon

\* Replication and snapshots are quiet.
LEMMA CallsQuiet ==
    ASSUME TypeOK
    PROVE  /\ \A i \in Server, c \in Command : Start(i, c) => Quiet
           /\ \A i \in Server : \A j \in Peers(i) : SendAppendEntries(i, j) => Quiet
           /\ \A m \in appendRequests : HandleAppendEntries(m) => Quiet
           /\ \A r \in appendReplies : HandleAppendEntriesReply(r) => Quiet
           /\ \A i \in Server : \A index \in logOffset[i] + 1 .. commitIndex[i] :
                  Snapshot(i, index) => Quiet
           /\ \A i \in Server : \A j \in Peers(i) : SendInstallSnapshot(i, j) => Quiet
           /\ \A m \in snapshotRequests : HandleInstallSnapshot(m) => Quiet
           /\ \A r \in snapshotReplies : HandleInstallSnapshotReply(r) => Quiet
           /\ \A i \in Server : DiskFills(i) => Quiet
           /\ UNCHANGED vars => Quiet
<1> DEFINE Same == UNCHANGED <<state, currentTerm, votedFor, votes, voteCalls>>
<1>1. Same => Quiet
  BY Zenon DEF Quiet, Kept
<1>2. ASSUME NEW i \in Server, NEW t \in Nat, BecomeFollower(i, t), UNCHANGED <<votes, voteCalls>>
      PROVE  Quiet
  BY <1>2, BecomeFollowerQuiet, Zenon DEF Quiet
<1>3. \A i \in Server, c \in Command : Start(i, c) => Same
  BY Zenon DEF Start
<1>4. \A i \in Server : \A j \in Peers(i) : SendAppendEntries(i, j) => Same
  BY DEF SendAppendEntries, persistentVars
<1>5. \A i \in Server : \A j \in Peers(i) : SendInstallSnapshot(i, j) => Same
  BY Zenon DEF SendInstallSnapshot, persistentVars
<1>6. \A i \in Server, index \in Int : Snapshot(i, index) => Same
  BY Zenon DEF Snapshot
<1>7. \A i \in Server : DiskFills(i) => Same
  BY Zenon DEF DiskFills, persistentVars
<1>8. UNCHANGED vars => Same
  BY Zenon DEF vars, persistentVars
<1>9. ASSUME NEW m \in appendRequests, HandleAppendEntries(m) PROVE Quiet
  <2>1. m.to \in Server /\ m.term \in Nat
    BY Zenon DEF TypeOK, AppendRequest
  <2>2. Same \/ (BecomeFollower(m.to, m.term) /\ UNCHANGED <<votes, voteCalls>>)
    BY <1>9, Zenon DEF HandleAppendEntries, persistentVars
  <2> HIDE DEF Same
  <2> QED  BY <1>1, <1>2, <2>1, <2>2, Zenon
<1>10. ASSUME NEW r \in appendReplies, HandleAppendEntriesReply(r) PROVE Quiet
  <2>1. r.to \in Server /\ r.term \in Nat
    BY Zenon DEF TypeOK, AppendReply
  <2>2. Same \/ (BecomeFollower(r.to, r.term) /\ UNCHANGED <<votes, voteCalls>>)
    BY <1>10, Zenon DEF HandleAppendEntriesReply, persistentVars
  <2> HIDE DEF Same
  <2> QED  BY <1>1, <1>2, <2>1, <2>2, Zenon
<1>11. ASSUME NEW m \in snapshotRequests, HandleInstallSnapshot(m) PROVE Quiet
  <2>1. m.to \in Server /\ m.term \in Nat
    BY Zenon DEF TypeOK, SnapshotRequest
  <2>2. Same \/ (BecomeFollower(m.to, m.term) /\ UNCHANGED <<votes, voteCalls>>)
    BY <1>11, Zenon DEF HandleInstallSnapshot, persistentVars
  <2> HIDE DEF Same
  <2> QED  BY <1>1, <1>2, <2>1, <2>2, Zenon
<1>12. ASSUME NEW r \in snapshotReplies, HandleInstallSnapshotReply(r) PROVE Quiet
  <2>1. r.to \in Server /\ r.term \in Nat
    BY Zenon DEF TypeOK, SnapshotReply
  <2>2. Same \/ (BecomeFollower(r.to, r.term) /\ UNCHANGED <<votes, voteCalls>>)
    BY <1>12, Zenon DEF HandleInstallSnapshotReply, persistentVars
  <2> HIDE DEF Same
  <2> QED  BY <1>1, <1>2, <2>1, <2>2, Zenon
<1> HIDE DEF Same
<1>13. \A i \in Server : \A index \in logOffset[i] + 1 .. commitIndex[i] : index \in Int
  BY DEF TypeOK
<1> QED  BY <1>1, <1>3, <1>4, <1>5, <1>6, <1>7, <1>8, <1>9, <1>10, <1>11, <1>12, <1>13,
            Zenon

-----------------------------------------------------------------------------
(* The three steps of an election. *)

\* startElection leaves every vote binding: the node enters a term no message
\* of its own mentions yet.
LEMMA StartElectionBinding ==
    ASSUME TypeOK, VotesBinding, NEW i \in Server, StartElection(i)
    PROVE  VotesBinding'
<1> DEFINE new == {[from |-> i, to |-> j, term |-> currentTerm[i] + 1,
                    lastLogIndex |-> lastLogIndex(i), lastLogTerm |-> lastLogTerm(i)]
                   : j \in Peers(i)}
<1>1. /\ currentTerm' = [currentTerm EXCEPT ![i] = @ + 1]
      /\ votedFor' = [votedFor EXCEPT ![i] = i]
      /\ votes' = [votes EXCEPT ![i] = {i}]
      /\ voteRequests' = voteRequests \cup new
      /\ UNCHANGED voteReplies
      /\ \/ quorumSize = 1
         \/ state' = [state EXCEPT ![i] = Candidate]
      /\ \A k \in Server \ {i} : state'[k] = state[k]
  BY DEF StartElection, BecomeLeader, TypeOK
<1>2. currentTerm[i] \in Nat
  BY Zenon DEF TypeOK
<1>3. /\ currentTerm'[i] = currentTerm[i] + 1 /\ votedFor'[i] = i /\ votes'[i] = {i}
      /\ \A k \in Server \ {i} : /\ currentTerm'[k] = currentTerm[k] /\ votedFor'[k] = votedFor[k]
                                 /\ votes'[k] = votes[k]
  BY <1>1, Zenon DEF TypeOK
<1>4. \A m \in new : m.from = i /\ m.to # i /\ m.term = currentTerm[i] + 1
  BY DEF Peers
<1>5. Peers(i) # {} => \E m \in new : TRUE
  BY Zenon
<1> HIDE DEF new
<1>6. ASSUME NEW r \in voteReplies', r.voteGranted
      PROVE  /\ r.from # r.to
             /\ \/ currentTerm'[r.from] > r.reqTerm
                \/ currentTerm'[r.from] = r.reqTerm /\ votedFor'[r.from] = r.to
             /\ ~ Requested(r.from, r.reqTerm)'
             /\ \A k \in Server : Granted(r.from, k, r.reqTerm)' => k = r.to
  <2>1. r \in voteReplies /\ r.from \in Server /\ r.reqTerm \in Nat
    BY <1>1, Zenon DEF TypeOK, VoteReply
  <2>2. /\ r.from # r.to
        /\ \/ currentTerm[r.from] > r.reqTerm
           \/ currentTerm[r.from] = r.reqTerm /\ votedFor[r.from] = r.to
        /\ ~ Requested(r.from, r.reqTerm)
        /\ \A k \in Server : Granted(r.from, k, r.reqTerm) => k = r.to
    BY <1>6, <2>1, Zenon DEF VotesBinding
  <2>3. r.from = i => currentTerm'[r.from] > r.reqTerm
    BY <1>2, <1>3, <2>1, <2>2
  <2>4. ~ Requested(r.from, r.reqTerm)'
    BY <1>1, <1>2, <1>3, <1>4, <2>1, <2>2 DEF Requested
  <2>5. \A k \in Server : Granted(r.from, k, r.reqTerm)' => k = r.to
    BY <1>1, <2>2, Zenon DEF Granted
  <2> QED  BY <1>3, <2>1, <2>2, <2>3, <2>4, <2>5, Zenon
<1>7. ASSUME NEW m \in voteRequests'
      PROVE  /\ m.from # m.to
             /\ \/ currentTerm'[m.from] > m.term
                \/ currentTerm'[m.from] = m.term /\ votedFor'[m.from] = m.from
  <2>1. CASE m \in new
    BY <1>3, <1>4, <2>1, Zenon
  <2>2. CASE m \in voteRequests
    <3>1. m.from \in Server /\ m.term \in Nat
      BY <2>2, Zenon DEF TypeOK, VoteRequest
    <3>2. /\ m.from # m.to
          /\ \/ currentTerm[m.from] > m.term
             \/ currentTerm[m.from] = m.term /\ votedFor[m.from] = m.from
      BY <2>2, Zenon DEF VotesBinding
    <3> QED  BY <1>2, <1>3, <3>1, <3>2
  <2> QED  BY <1>1, <2>1, <2>2, Zenon
<1>8. ASSUME NEW k \in Server, state'[k] # Follower
      PROVE  /\ votedFor'[k] = k
             /\ Peers(k) # {} => Requested(k, currentTerm[k])'
             /\ \A j \in votes'[k] \ {k} : Granted(j, k, currentTerm[k])'
             /\ state'[k] = Leader => Cardinality(votes'[k]) >= quorumSize
  <2>1. CASE k = i
    <3>1. Peers(i) # {} => Requested(i, currentTerm[i])'
      BY <1>1, <1>3, <1>4, <1>5, Zenon DEF Requested
    <3>2. state'[i] = Leader => quorumSize = 1
      BY <1>1, Zenon DEF TypeOK, Leader, Candidate
    <3>3. Cardinality({i}) = 1
      BY FS_Singleton, Zenon
    <3> QED  BY <1>3, <2>1, <3>1, <3>2, <3>3
  <2>2. CASE k # i
    <3>1. state[k] # Follower
      BY <1>1, <1>8, <2>2, Zenon
    <3>2. /\ votedFor[k] = k
          /\ Peers(k) # {} => Requested(k, currentTerm[k])
          /\ \A j \in votes[k] \ {k} : Granted(j, k, currentTerm[k])
          /\ state[k] = Leader => Cardinality(votes[k]) >= quorumSize
      BY <3>1, Zenon DEF VotesBinding
    <3>3. /\ Requested(k, currentTerm[k]) => Requested(k, currentTerm[k])'
          /\ \A j : Granted(j, k, currentTerm[k]) => Granted(j, k, currentTerm[k])'
      BY <1>1, <1>3, <2>2 DEF Requested, Granted
    <3> QED  BY <1>1, <1>3, <2>2, <3>2, <3>3, Zenon
  <2> QED  BY <2>1, <2>2, Zenon
<1> QED  BY <1>6, <1>7, <1>8, Zenon DEF VotesBinding

\* HandleRequestVote leaves every vote binding: a vote is given only by a node
\* that has none in the term of the request, and is given for good.
LEMMA HandleRequestVoteBinding ==
    ASSUME TypeOK, TypeOK', VotesBinding, NEW m \in voteRequests, HandleRequestVote(m)
    PROVE  VotesBinding'
<1> DEFINE i == m.to
           higher == m.term > currentTerm[i]
           voted == IF higher THEN Nil ELSE votedFor[i]
<1>1. /\ i \in Server /\ m.from \in Server /\ m.term \in Nat /\ m.from # i
      /\ currentTerm[i] \in Nat
  BY Zenon DEF TypeOK, VoteRequest, VotesBinding
<1>2. PICK t \in Nat, b \in BOOLEAN : voteReplies' = voteReplies \cup
          {[from |-> i, to |-> m.from, reqTerm |-> m.term, term |-> t, voteGranted |-> b]}
          /\ \/ ~ b /\ UNCHANGED <<state, currentTerm, votedFor>>
             \/ /\ m.term >= currentTerm[i]
                /\ state' = [state EXCEPT ![i] = IF higher THEN Follower ELSE @]
                /\ currentTerm' = [currentTerm EXCEPT ![i] = m.term]
                /\ votedFor' = [votedFor EXCEPT ![i] = IF b THEN m.from ELSE voted]
                /\ b => voted \in {Nil, m.from}
  <2> DEFINE grant == voted \in {Nil, m.from} /\ isUpToDate(i, m.lastLogIndex, m.lastLogTerm)
  <2>1. CASE /\ ReplyVote(m, currentTerm[i], FALSE)
             /\ UNCHANGED <<state, currentTerm, votedFor, logVars, disk>>
    BY <1>1, <2>1, Zenon DEF ReplyVote
  <2>2. CASE /\ m.term >= currentTerm[i]
             /\ state' = [state EXCEPT ![i] = IF higher THEN Follower ELSE @]
             /\ currentTerm' = [currentTerm EXCEPT ![i] = m.term]
             /\ votedFor' = [votedFor EXCEPT ![i] = IF grant THEN m.from ELSE voted]
             /\ ReplyVote(m, m.term, grant)
    <3>1. grant \in BOOLEAN /\ m.term \in Nat /\ (grant => voted \in {Nil, m.from})
      BY <1>1, Zenon
    <3>2. voteReplies' = voteReplies \cup
              {[from |-> i, to |-> m.from, reqTerm |-> m.term, term |-> m.term,
                voteGranted |-> grant]}
      BY <2>2, Zenon DEF ReplyVote
    <3> HIDE DEF grant, voted, higher, i
    <3> QED  BY <2>2, <3>1, <3>2, Zenon
  <2> QED  BY <2>1, <2>2, Zenon DEF HandleRequestVote
<1>3. UNCHANGED <<votes, voteRequests>>
  BY Zenon DEF HandleRequestVote
<1> DEFINE new == [from |-> i, to |-> m.from, reqTerm |-> m.term, term |-> t, voteGranted |-> b]
<1>4. /\ new.from = i /\ new.to = m.from /\ new.reqTerm = m.term /\ new.voteGranted = b
      /\ voteReplies' = voteReplies \cup {new}
  BY <1>2, Zenon
<1>5. \A k \in Server \ {i} : /\ state'[k] = state[k] /\ currentTerm'[k] = currentTerm[k]
                             /\ votedFor'[k] = votedFor[k]
  BY <1>1, <1>2, Zenon DEF TypeOK
<1>6. \/ /\ ~ b
         /\ state'[i] = state[i] /\ currentTerm'[i] = currentTerm[i] /\ votedFor'[i] = votedFor[i]
      \/ /\ m.term >= currentTerm[i]
         /\ state'[i] = (IF higher THEN Follower ELSE state[i]) /\ currentTerm'[i] = m.term
         /\ votedFor'[i] = (IF b THEN m.from ELSE voted)
         /\ b => voted \in {Nil, m.from}
  BY <1>1, <1>2, Zenon DEF TypeOK
<1> HIDE DEF new, i
<1>7. b => /\ ~ Requested(i, m.term)
           /\ \A k \in Server : Granted(i, k, m.term) => k = m.from
           /\ currentTerm'[i] = m.term /\ votedFor'[i] = m.from
           /\ state'[i] # Follower => FALSE
  <2> SUFFICES ASSUME b PROVE /\ ~ Requested(i, m.term)
                              /\ \A k \in Server : Granted(i, k, m.term) => k = m.from
                              /\ currentTerm'[i] = m.term /\ votedFor'[i] = m.from
                              /\ state'[i] # Follower => FALSE
    BY Zenon
  <2>1. \/ m.term > currentTerm[i]
        \/ m.term = currentTerm[i] /\ votedFor[i] \in {Nil, m.from}
    BY <1>1, <1>6
  <2>2. ~ Requested(i, m.term)
    <3> SUFFICES ASSUME NEW q \in voteRequests, q.from = i, q.term = m.term PROVE FALSE
      BY Zenon DEF Requested
    <3>1. \/ currentTerm[i] > m.term
          \/ currentTerm[i] = m.term /\ votedFor[i] = i
      BY Zenon DEF VotesBinding
    <3> QED  BY <1>1, <2>1, <3>1, ServerAssumption
  <2>3. ASSUME NEW k \in Server, Granted(i, k, m.term) PROVE k = m.from
    <3>1. PICK r \in voteReplies : r.voteGranted /\ r.from = i /\ r.to = k /\ r.reqTerm = m.term
      BY <2>3, Zenon DEF Granted
    <3>2. \/ currentTerm[i] > m.term
          \/ currentTerm[i] = m.term /\ votedFor[i] = k
      BY <3>1, Zenon DEF VotesBinding
    <3> QED  BY <1>1, <2>1, <3>2, ServerAssumption
  <2>4. state'[i] # Follower => FALSE
    <3> SUFFICES ASSUME state'[i] # Follower PROVE FALSE
      BY Zenon
    <3>1. state[i] # Follower /\ m.term = currentTerm[i]
      BY <1>1, <1>6, <2>1, Zenon
    <3>2. votedFor[i] = i
      BY <1>1, <3>1, Zenon DEF VotesBinding
    <3> QED  BY <1>1, <2>1, <3>1, <3>2, ServerAssumption
  <2> QED  BY <1>6, <2>2, <2>3, <2>4, Zenon
<1>8. \A k \in Server, t1 \in Nat, v \in Server :
          \/ currentTerm[k] > t1
          \/ currentTerm[k] = t1 /\ votedFor[k] = v
          => \/ currentTerm'[k] > t1
             \/ currentTerm'[k] = t1 /\ votedFor'[k] = v
  <2> SUFFICES ASSUME NEW k \in Server, NEW t1 \in Nat, NEW v \in Server,
                      \/ currentTerm[k] > t1
                      \/ currentTerm[k] = t1 /\ votedFor[k] = v
               PROVE  \/ currentTerm'[k] > t1
                      \/ currentTerm'[k] = t1 /\ votedFor'[k] = v
    BY Zenon
  <2>1. CASE k # i
    BY <1>5, <2>1, Zenon
  <2>2. CASE k = i
    BY <1>1, <1>6, <2>2, ServerAssumption
  <2> QED  BY <2>1, <2>2, Zenon
<1>9. \A k, t1 : Requested(k, t1)' <=> Requested(k, t1)
  BY <1>3, Zenon DEF Requested
<1>10. \A j, k, t1 : /\ Granted(j, k, t1) => Granted(j, k, t1)'
                     /\ Granted(j, k, t1)' =>
                            Granted(j, k, t1) \/ (b /\ j = i /\ k = m.from /\ t1 = m.term)
  BY <1>4 DEF Granted
<1>11. ASSUME NEW r \in voteReplies', r.voteGranted
       PROVE  /\ r.from # r.to
              /\ \/ currentTerm'[r.from] > r.reqTerm
                 \/ currentTerm'[r.from] = r.reqTerm /\ votedFor'[r.from] = r.to
              /\ ~ Requested(r.from, r.reqTerm)'
              /\ \A k \in Server : Granted(r.from, k, r.reqTerm)' => k = r.to
  <2>1. CASE r = new
    BY <1>1, <1>4, <1>7, <1>9, <1>10, <1>11, <2>1, Zenon
  <2>2. CASE r \in voteReplies
    <3>1. r.from \in Server /\ r.reqTerm \in Nat /\ r.to \in Server
      BY <2>2, Zenon DEF TypeOK, VoteReply
    <3>2. /\ r.from # r.to
          /\ \/ currentTerm[r.from] > r.reqTerm
             \/ currentTerm[r.from] = r.reqTerm /\ votedFor[r.from] = r.to
          /\ ~ Requested(r.from, r.reqTerm)
          /\ \A k \in Server : Granted(r.from, k, r.reqTerm) => k = r.to
      BY <1>11, <2>2, Zenon DEF VotesBinding
    <3>3. Granted(r.from, r.to, r.reqTerm)
      BY <1>11, <2>2, Zenon DEF Granted
    <3>4. \A k \in Server : Granted(r.from, k, r.reqTerm)' => k = r.to
      BY <1>7, <1>10, <3>1, <3>2, <3>3, Zenon
    <3> QED  BY <1>8, <1>9, <3>1, <3>2, <3>4, Zenon
  <2> QED  BY <1>4, <2>1, <2>2, Zenon
<1>12. ASSUME NEW q \in voteRequests'
       PROVE  /\ q.from # q.to
              /\ \/ currentTerm'[q.from] > q.term
                 \/ currentTerm'[q.from] = q.term /\ votedFor'[q.from] = q.from
  <2>1. q \in voteRequests /\ q.from \in Server /\ q.term \in Nat
    BY <1>3, Zenon DEF TypeOK, VoteRequest
  <2> QED  BY <1>8, <2>1, Zenon DEF VotesBinding
<1>13. ASSUME NEW k \in Server, state'[k] # Follower
       PROVE  /\ votedFor'[k] = k
              /\ Peers(k) # {} => Requested(k, currentTerm[k])'
              /\ \A j \in votes'[k] \ {k} : Granted(j, k, currentTerm[k])'
              /\ state'[k] = Leader => Cardinality(votes'[k]) >= quorumSize
  <2>1. state[k] # Follower /\ state'[k] = state[k] /\ currentTerm'[k] = currentTerm[k]
        /\ votedFor'[k] = votedFor[k] /\ votes'[k] = votes[k]
    BY <1>1, <1>3, <1>5, <1>6, <1>7, <1>13
  <2>2. /\ votedFor[k] = k
        /\ Peers(k) # {} => Requested(k, currentTerm[k])
        /\ \A j \in votes[k] \ {k} : Granted(j, k, currentTerm[k])
        /\ state[k] = Leader => Cardinality(votes[k]) >= quorumSize
    BY <2>1, Zenon DEF VotesBinding
  <2>3. /\ Requested(k, currentTerm[k]) => Requested(k, currentTerm[k])'
        /\ \A j : Granted(j, k, currentTerm[k]) => Granted(j, k, currentTerm[k])'
    BY <1>3, <1>4, <2>1, Zenon DEF Requested, Granted
  <2> QED  BY <2>1, <2>2, <2>3, Zenon
<1> QED  BY <1>11, <1>12, <1>13, Zenon DEF VotesBinding

\* The reply handler of startElection leaves every vote binding: it counts a
\* vote only for the term the node is still a candidate in.
LEMMA HandleRequestVoteReplyBinding ==
    ASSUME TypeOK, TypeOK', VotesBinding, NEW r \in voteReplies, HandleRequestVoteReply(r)
    PROVE  VotesBinding'
<1> DEFINE i == r.to
           counted == votes[i] \cup {r.from}
<1>1. i \in Server /\ r.term \in Nat
  BY Zenon DEF TypeOK, VoteReply
<1>2. /\ state[i] = Candidate /\ currentTerm[i] = r.reqTerm
      /\ UNCHANGED voteCalls
  BY Zenon DEF HandleRequestVoteReply
<1>3. CASE BecomeFollower(i, r.term) /\ UNCHANGED votes
  <2>1. Quiet
    BY <1>1, <1>2, <1>3, BecomeFollowerQuiet, Zenon DEF Quiet
  <2> QED  BY <2>1, QuietBinding, Zenon
<1>4. CASE /\ r.voteGranted
           /\ votes' = [votes EXCEPT ![i] = counted]
           /\ \/ Cardinality(counted) >= quorumSize /\ state' = [state EXCEPT ![i] = Leader]
              \/ UNCHANGED state
           /\ UNCHANGED <<currentTerm, votedFor>>
  <2> HIDE DEF i
  <2>1. \A k \in Server \ {i} : state'[k] = state[k] /\ votes'[k] = votes[k]
    <3> HIDE DEF counted
    <3>1. state \in [Server -> {Follower, Candidate, Leader}] /\ votes \in [Server -> SUBSET Server]
      BY Zenon DEF TypeOK
    <3> QED  BY <1>4, <3>1, Zenon
  <2>2. /\ votes'[i] = counted
        /\ state'[i] = Leader => Cardinality(counted) >= quorumSize
    BY <1>1, <1>2, <1>4 DEF TypeOK, Leader, Candidate
  <2>3. ASSUME NEW k, NEW t
        PROVE  /\ Requested(k, t)' <=> Requested(k, t)
               /\ \A j : Granted(j, k, t)' <=> Granted(j, k, t)
    BY <1>2, Zenon DEF Requested, Granted, voteCalls
  <2>4. Granted(r.from, i, currentTerm[i])
    BY <1>2, <1>4, Zenon DEF Granted, i
  <2>5. ASSUME NEW k \in Server, state'[k] # Follower
        PROVE  /\ votedFor'[k] = k
               /\ Peers(k) # {} => Requested(k, currentTerm[k])'
               /\ \A j \in votes'[k] \ {k} : Granted(j, k, currentTerm[k])'
               /\ state'[k] = Leader => Cardinality(votes'[k]) >= quorumSize
    <3>1. state[k] # Follower
      BY <1>2, <2>1, <2>5, Zenon DEF Candidate, Follower
    <3>2. /\ votedFor[k] = k
          /\ Peers(k) # {} => Requested(k, currentTerm[k])
          /\ \A j \in votes[k] \ {k} : Granted(j, k, currentTerm[k])
          /\ state[k] = Leader => Cardinality(votes[k]) >= quorumSize
      BY <3>1, Zenon DEF VotesBinding
    <3>3. /\ Requested(k, currentTerm[k])' <=> Requested(k, currentTerm[k])
          /\ \A j : Granted(j, k, currentTerm[k])' <=> Granted(j, k, currentTerm[k])
      BY <1>2, <1>4, Zenon DEF Requested, Granted, voteCalls
    <3>4. \A j \in votes'[k] \ {k} : Granted(j, k, currentTerm[k])
      BY <2>1, <2>2, <2>4, <3>2, Zenon
    <3> QED  BY <1>4, <2>1, <2>2, <3>2, <3>3, <3>4, Zenon
  <2>6. ASSUME NEW q \in voteReplies', q.voteGranted
        PROVE  /\ q.from # q.to
               /\ \/ currentTerm'[q.from] > q.reqTerm
                  \/ currentTerm'[q.from] = q.reqTerm /\ votedFor'[q.from] = q.to
               /\ ~ Requested(q.from, q.reqTerm)'
               /\ \A k \in Server : Granted(q.from, k, q.reqTerm)' => k = q.to
    <3>1. q \in voteReplies
      BY <1>2, Zenon DEF voteCalls
    <3>2. /\ q.from # q.to
          /\ \/ currentTerm[q.from] > q.reqTerm
             \/ currentTerm[q.from] = q.reqTerm /\ votedFor[q.from] = q.to
          /\ ~ Requested(q.from, q.reqTerm)
          /\ \A k \in Server : Granted(q.from, k, q.reqTerm) => k = q.to
      BY <2>6, <3>1, Zenon DEF VotesBinding
    <3>3. /\ Requested(q.from, q.reqTerm)' <=> Requested(q.from, q.reqTerm)
          /\ \A k : Granted(q.from, k, q.reqTerm)' <=> Granted(q.from, k, q.reqTerm)
      BY <1>2, Zenon DEF Requested, Granted, voteCalls
    <3>4. currentTerm' = currentTerm /\ votedFor' = votedFor
      BY <1>4, Zenon
    <3> QED  BY <3>2, <3>3, <3>4, Zenon
  <2>7. ASSUME NEW q \in voteRequests'
        PROVE  /\ q.from # q.to
               /\ \/ currentTerm'[q.from] > q.term
                  \/ currentTerm'[q.from] = q.term /\ votedFor'[q.from] = q.from
    BY <1>2, <1>4, Zenon DEF VotesBinding, voteCalls
  <2> QED  BY <2>5, <2>6, <2>7, Zenon DEF VotesBinding
<1> QED
  BY <1>3, <1>4, Zenon DEF HandleRequestVoteReply, BecomeLeader, persistentVars

-----------------------------------------------------------------------------
(* Terms and votes on disk. *)

\* A handler that ends in persistLocked leaves term and vote on disk.
LEMMA PersistDurable ==
    ASSUME TypeOK, VoteDurable, NEW i \in Server, PersistLocked(i), UNCHANGED diskFull,
           \A k \in Server \ {i} : currentTerm'[k] = currentTerm[k] /\ votedFor'[k] = votedFor[k]
    PROVE  VoteDurable'
<1> SUFFICES ASSUME NEW k \in Server \ diskFull
             PROVE  disk'[k].currentTerm = currentTerm'[k] /\ disk'[k].votedFor = votedFor'[k]
  BY Zenon DEF VoteDurable
<1>1. CASE k = i
  BY <1>1, Zenon DEF PersistLocked, Saved, TypeOK
<1>2. CASE k # i
  <2>1. disk'[k] = disk[k]
    BY <1>2, Zenon DEF PersistLocked, TypeOK
  <2> QED  BY <1>2, <2>1, Zenon DEF VoteDurable
<1> QED  BY <1>1, <1>2, Zenon

\* NewRaft takes term and vote from the disk, so they agree after a restart.
LEMMA CrashDurable ==
    ASSUME TypeOK, VoteDurable, NEW i \in Server, NEW s, Crash(i, s)
    PROVE  VoteDurable'
<1> SUFFICES ASSUME NEW k \in Server \ diskFull'
             PROVE  disk'[k].currentTerm = currentTerm'[k] /\ disk'[k].votedFor = votedFor'[k]
  BY Zenon DEF VoteDurable
<1>1. /\ disk' = [disk EXCEPT ![i] = s] /\ diskFull' = diskFull \ {i}
      /\ currentTerm' = [currentTerm EXCEPT ![i] = s.currentTerm]
      /\ votedFor' = [votedFor EXCEPT ![i] = s.votedFor]
  BY Zenon DEF Crash, NewRaft
<1>2. CASE k = i
  BY <1>1, <1>2, Zenon DEF TypeOK
<1>3. CASE k # i
  BY <1>1, <1>3, Zenon DEF TypeOK, VoteDurable
<1> QED  BY <1>2, <1>3, Zenon

\* Every step keeps the terms and votes on disk up to date.
LEMMA DurableNext ==
    ASSUME TypeOK, VoteDurable, [Next]_vars
    PROVE  VoteDurable'
<1> DEFINE Idle == UNCHANGED <<currentTerm, votedFor, disk>> /\ diskFull \subseteq diskFull'
           Saves(i) == /\ PersistLocked(i) /\ UNCHANGED diskFull
                       /\ \A k \in Server \ {i} :
                              currentTerm'[k] = currentTerm[k] /\ votedFor'[k] = votedFor[k]
<1>1. Idle => VoteDurable'
  BY Zenon DEF VoteDurable
<1>2. \A i \in Server : Saves(i) => VoteDurable'
  BY PersistDurable, Zenon
<1>3. ASSUME NEW i, NEW t, BecomeFollower(i, t)
      PROVE  \A k \in Server \ {i} : currentTerm'[k] = currentTerm[k] /\ votedFor'[k] = votedFor[k]
  BY <1>3, Zenon DEF BecomeFollower, TypeOK
<1>4. ASSUME NEW i \in Server, StartElection(i) PROVE Saves(i)
  BY <1>4, Zenon DEF StartElection, faultVars, TypeOK
<1>5. ASSUME NEW m \in voteRequests, HandleRequestVote(m) PROVE Idle \/ Saves(m.to)
  BY <1>5, Zenon DEF HandleRequestVote, faultVars, TypeOK
<1>6. ASSUME NEW r \in voteReplies, HandleRequestVoteReply(r) PROVE Idle \/ Saves(r.to)
  BY <1>3, <1>6, Zenon DEF HandleRequestVoteReply, faultVars, persistentVars
<1>7. ASSUME NEW i \in Server, NEW c \in Command, Start(i, c) PROVE Saves(i)
  BY <1>7, Zenon DEF Start, faultVars
<1>8. ASSUME NEW i \in Server, NEW j \in Peers(i), SendAppendEntries(i, j) PROVE Idle
  BY <1>8, Zenon DEF SendAppendEntries, faultVars, persistentVars
<1>9. ASSUME NEW m \in appendRequests, HandleAppendEntries(m) PROVE Idle \/ Saves(m.to)
  BY <1>3, <1>9, Zenon DEF HandleAppendEntries, faultVars, persistentVars
<1>10. ASSUME NEW r \in appendReplies, HandleAppendEntriesReply(r) PROVE Idle \/ Saves(r.to)
  BY <1>3, <1>10, Zenon DEF HandleAppendEntriesReply, faultVars, persistentVars
<1>11. ASSUME NEW i \in Server, NEW index, Snapshot(i, index) PROVE Saves(i)
  BY <1>11, Zenon DEF Snapshot, faultVars
<1>12. ASSUME NEW i \in Server, NEW j \in Peers(i), SendInstallSnapshot(i, j) PROVE Idle
  BY <1>12, Zenon DEF SendInstallSnapshot, faultVars, persistentVars
<1>13. ASSUME NEW m \in snapshotRequests, HandleInstallSnapshot(m) PROVE Idle \/ Saves(m.to)
  BY <1>3, <1>13, Zenon DEF HandleInstallSnapshot, faultVars, persistentVars
<1>14. ASSUME NEW r \in snapshotReplies, HandleInstallSnapshotReply(r) PROVE Idle \/ Saves(r.to)
  BY <1>3, <1>14, Zenon DEF HandleInstallSnapshotReply, faultVars, persistentVars
<1>15. ASSUME NEW i \in Server, DiskFills(i) PROVE Idle
  BY <1>15, Zenon DEF DiskFills, persistentVars
<1>16. CASE UNCHANGED vars
  BY <1>1, <1>16, Zenon DEF vars, persistentVars, faultVars
<1>17. ASSUME NEW i \in Server,
              \/ Restart(i) \/ CrashAfterTermSave(i) \/ CrashAfterLogSave(i)
              \/ \E c \in Command : CrashAfterStartSave(i, c)
       PROVE  VoteDurable'
  BY <1>17, CrashDurable, Zenon
  DEF Restart, CrashAfterTermSave, CrashAfterLogSave, CrashAfterStartSave
<1>18. /\ \A m \in voteRequests \cup appendRequests \cup snapshotRequests : m.to \in Server
       /\ \A r \in voteReplies \cup appendReplies \cup snapshotReplies : r.to \in Server
  BY Zenon
  DEF TypeOK, VoteRequest, AppendRequest, SnapshotRequest, VoteReply, AppendReply,
      SnapshotReply
<1> HIDE DEF Idle, Saves
<1> QED
  BY <1>1, <1>2, <1>4, <1>5, <1>6, <1>7, <1>8, <1>9, <1>10, <1>11, <1>12, <1>13, <1>14,
     <1>15, <1>16, <1>17, <1>18, Zenon
  DEF Next

-----------------------------------------------------------------------------
(* The theorems. *)

\* A step is quiet or one of the three steps of an election.
LEMMA QuietOrElection ==
    ASSUME TypeOK, VoteDurable, RestartsSafe, [Next]_vars
    PROVE  \/ Quiet
           \/ \E i \in Server : StartElection(i)
           \/ \E m \in voteRequests : HandleRequestVote(m)
           \/ \E r \in voteReplies : HandleRequestVoteReply(r)
BY CallsQuiet, CrashesQuiet, Zenon DEF Next

\* The inductive invariant holds when every node starts from empty storage.
LEMMA ElectionInvInit == Init => ElectionInv
<1> SUFFICES ASSUME Init PROVE ElectionInv
  BY Zenon
<1>1. RestartsSafe /\ VoteDurable
  BY Zenon DEF Init, RestartsSafe, VoteDurable, Saved
<1>2. VotesBinding
  BY Zenon DEF Init, VotesBinding
<1> QED  BY <1>1, <1>2, TypeInit, Zenon DEF ElectionInv

\* Every step preserves the inductive invariant, given reliable disks.
LEMMA ElectionInvNext ==
    ASSUME DisksReliable, ElectionInv, [Next]_vars
    PROVE  ElectionInv'
<1> USE DEF ElectionInv
<1>1. TypeOK'
  BY TypeNext, Zenon
<1>2. VoteDurable'
  BY DurableNext, Zenon
<1>3. VotesBinding'
  BY <1>1, QuietOrElection, QuietBinding, StartElectionBinding, HandleRequestVoteBinding,
     HandleRequestVoteReplyBinding, Zenon
<1>4. RestartsSafe'
  <2>1. CASE MaxRestarts = 0 \/ ~ RestartFull
    BY <2>1, Zenon DEF RestartsSafe
  <2>2. CASE MaxDiskFull = 0 /\ diskFull = {}
    <3>1. \A i \in Server : ~ DiskFills(i)
      BY <2>2, FS_EmptySet DEF DiskFills
    <3>2. diskFull' \subseteq diskFull
      BY <3>1, Zenon
      DEF Next, vars, faultVars, StartElection, HandleRequestVote,
          HandleRequestVoteReply, Start,
          SendAppendEntries, HandleAppendEntries, HandleAppendEntriesReply, Snapshot,
          SendInstallSnapshot, HandleInstallSnapshot, HandleInstallSnapshotReply, Restart,
          CrashAfterTermSave, CrashAfterStartSave, CrashAfterLogSave, Crash
    <3> QED  BY <2>2, <3>2, Zenon DEF RestartsSafe
  <2> QED  BY <2>1, <2>2, Zenon DEF DisksReliable, RestartsSafe
<1> QED  BY <1>1, <1>2, <1>3, <1>4, Zenon

\* Two quorums share a voter, and a voter is bound to one candidate.
LEMMA BindingGivesSafety == TypeOK /\ VotesBinding => ElectionSafety
<1> SUFFICES ASSUME TypeOK, VotesBinding, NEW i \in Server, NEW j \in Server,
                    state[i] = Leader, state[j] = Leader, currentTerm[i] = currentTerm[j],
                    i # j
             PROVE  FALSE
  BY Zenon DEF ElectionSafety
<1>1. /\ \A k \in votes[i] \ {i} : Granted(k, i, currentTerm[i])
      /\ \A k \in votes[j] \ {j} : Granted(k, j, currentTerm[i])
      /\ Requested(i, currentTerm[i]) /\ Requested(j, currentTerm[i])
      /\ Cardinality(votes[i]) >= quorumSize /\ Cardinality(votes[j]) >= quorumSize
  BY Zenon DEF VotesBinding, Peers, Leader, Follower
<1>2. \A k, l, t : Granted(k, l, t) => ~ Requested(k, t)
  BY DEF VotesBinding, Granted
<1>3. PICK v \in Server : v \in votes[i] /\ v \in votes[j]
  <2>1. votes[i] \subseteq Server /\ votes[j] \subseteq Server
    BY Zenon DEF TypeOK
  <2>2. Cardinality(Server) \in Nat /\ IsFiniteSet(Server)
    BY ServerAssumption, FS_CardinalityType, Zenon
  <2>3. Cardinality(votes[i]) \in Nat /\ Cardinality(votes[j]) \in Nat
    BY <2>1, <2>2, FS_Subset, FS_CardinalityType, Zenon
  <2>4. Cardinality(votes[i]) + Cardinality(votes[j]) > Cardinality(Server)
    BY <1>1, <2>2, <2>3 DEF quorumSize
  <2> QED  BY <2>1, <2>2, <2>4, FS_MajoritiesIntersect, Zenon
<1>4. CASE v = i \/ v = j
  BY <1>1, <1>2, <1>3, <1>4, Zenon
<1>5. CASE v # i /\ v # j
  <2>1. Granted(v, i, currentTerm[i]) /\ Granted(v, j, currentTerm[i])
    BY <1>1, <1>3, <1>5, Zenon
  <2> QED  BY <2>1 DEF VotesBinding, Granted
<1> QED  BY <1>4, <1>5, Zenon

\* The inductive invariant holds throughout, given reliable disks.
LEMMA ElectionInvariant ==
    ASSUME DisksReliable
    PROVE  Spec => []ElectionInv
BY ElectionInvInit, ElectionInvNext, PTL DEF Spec

\* In every term at most one node is leader: for every cluster size, any
\* interleaving of calls, replies, heartbeats and elections, any message loss,
\* and crashes at any point of a handler, as long as storage.Save does not fail
\* on a node that is then restarted.
THEOREM AtMostOneLeader ==
    ASSUME DisksReliable
    PROVE  Spec => []ElectionSafety
BY ElectionInvariant, BindingGivesSafety, PTL DEF ElectionInv

\* A vote, once given by HandleRequestVote or startElection, binds the voter in
\* its term: the invariant AtMostOneLeader rests on.
THEOREM VotesAreBinding ==
    ASSUME DisksReliable
    PROVE  Spec => []VotesBinding
BY ElectionInvariant, PTL DEF ElectionInv

\* Terms and votes are on disk before any other node can learn of them; this
\* part needs no assumption about the disks.
THEOREM VotesAreDurable == Spec => []VoteDurable
<1>1. Init => TypeOK /\ VoteDurable
  BY TypeInit, ElectionInvInit, Zenon DEF ElectionInv
<1>2. TypeOK /\ VoteDurable /\ [Next]_vars => (TypeOK /\ VoteDurable)'
  BY TypeNext, DurableNext, Zenon
<1> QED  BY <1>1, <1>2, PTL DEF Spec

\* A step keeps the term or raises it, and keeps a vote as long as the term stays.
LEMMA StepKeepsVotes ==
    ASSUME ElectionInv, [Next]_vars
    PROVE  VoteKept
<1> USE DEF ElectionInv
<1>1. \A i \in Server : currentTerm[i] \in Nat /\ currentTerm'[i] \in Nat
  BY TypeNext, Zenon DEF TypeOK
<1>2. CASE Quiet
  BY <1>1, <1>2 DEF Quiet, Kept, Followed, VoteKept
<1>3. ASSUME NEW i \in Server, StartElection(i) PROVE VoteKept
  <2>1. /\ currentTerm' = [currentTerm EXCEPT ![i] = @ + 1]
        /\ votedFor' = [votedFor EXCEPT ![i] = i]
    BY <1>3, Zenon DEF StartElection
  <2>2. /\ currentTerm'[i] = currentTerm[i] + 1
        /\ \A k \in Server \ {i} : currentTerm'[k] = currentTerm[k] /\ votedFor'[k] = votedFor[k]
    BY <2>1, Zenon DEF TypeOK
  <2> QED  BY <1>1, <2>2 DEF VoteKept
<1>4. ASSUME NEW m \in voteRequests, HandleRequestVote(m) PROVE VoteKept
  <2> DEFINE i == m.to
  <2>1. i \in Server /\ m.term \in Nat
    BY Zenon DEF TypeOK, VoteRequest
  <2>2. CASE UNCHANGED <<currentTerm, votedFor>>
    BY <1>1, <2>2 DEF VoteKept
  <2>3. ASSUME NEW v, m.term >= currentTerm[i],
               m.term > currentTerm[i] \/ votedFor[i] = Nil \/ v = votedFor[i],
               currentTerm' = [currentTerm EXCEPT ![i] = m.term],
               votedFor' = [votedFor EXCEPT ![i] = v]
        PROVE  VoteKept
    <3>1. /\ currentTerm'[i] = m.term /\ votedFor'[i] = v
          /\ \A k \in Server \ {i} : currentTerm'[k] = currentTerm[k] /\ votedFor'[k] = votedFor[k]
      BY <2>1, <2>3, Zenon DEF TypeOK
    <3> QED  BY <1>1, <2>1, <2>3, <3>1 DEF VoteKept
  <2>4. CASE /\ m.term >= currentTerm[i]
             /\ currentTerm' = [currentTerm EXCEPT ![i] = m.term]
             /\ \/ /\ (IF m.term > currentTerm[i] THEN Nil ELSE votedFor[i]) \in {Nil, m.from}
                   /\ votedFor' = [votedFor EXCEPT ![i] = m.from]
                \/ votedFor' = [votedFor EXCEPT ![i] =
                                   IF m.term > currentTerm[i] THEN Nil ELSE votedFor[i]]
    BY <2>3, <2>4, Zenon
  <2> QED  BY <1>4, <2>2, <2>4, Zenon DEF HandleRequestVote
<1>5. ASSUME NEW r \in voteReplies, HandleRequestVoteReply(r) PROVE VoteKept
  <2>1. r.to \in Server /\ r.term \in Nat
    BY Zenon DEF TypeOK, VoteReply
  <2>2. (BecomeFollower(r.to, r.term) /\ UNCHANGED votes) \/ UNCHANGED <<currentTerm, votedFor>>
    BY <1>5, Zenon DEF HandleRequestVoteReply, persistentVars
  <2>3. CASE BecomeFollower(r.to, r.term) /\ UNCHANGED votes
    BY <1>1, <2>1, <2>3, BecomeFollowerQuiet DEF Kept, Followed, VoteKept
  <2>4. CASE UNCHANGED <<currentTerm, votedFor>>
    BY <1>1, <2>4 DEF VoteKept
  <2> QED  BY <2>2, <2>3, <2>4, Zenon
<1> QED  BY <1>2, <1>3, <1>4, <1>5, QuietOrElection, Zenon

\* No step, crash and restart included, lowers a node's term or changes the
\* vote it gave in its term.
THEOREM OneVotePerTerm ==
    ASSUME DisksReliable
    PROVE  Spec => VoteOncePerTerm
<1>1. ElectionInv /\ [Next]_vars => [VoteKept]_vars
  BY StepKeepsVotes, Zenon
<1> QED  BY <1>1, ElectionInvariant, PTL DEF Spec, VoteOncePerTerm

=============================================================================
