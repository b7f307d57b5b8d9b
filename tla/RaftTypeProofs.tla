---------------------------- MODULE RaftTypeProofs ---------------------------
(***************************************************************************)
(* Type correctness of module Raft, one lemma per action.                  *)
(***************************************************************************)
EXTENDS RaftLogProofs

-----------------------------------------------------------------------------
(* Type correctness. *)

\* Init satisfies the type invariant.
LEMMA TypeInit == Init => TypeOK
<1> SUFFICES ASSUME Init PROVE TypeOK
  BY Zenon
<1>1. Sentinel(0) \in Entry
  BY Zenon DEF Sentinel, Entry
<1>2. <<Sentinel(0)>> \in Seq(Entry) /\ <<Sentinel(0)>> # <<>>
  BY <1>1
<1> QED  BY <1>2, Zenon DEF Init, TypeOK, Saved, PersistentState, Follower

\* What persistLocked saves has the type of a PersistentState.
LEMMA PersistType ==
    ASSUME TypeOK, NEW i \in Server, PersistLocked(i),
           currentTerm' \in [Server -> Nat], votedFor' \in [Server -> Server \cup {Nil}],
           log' \in [Server -> Seq(Entry)], \A j \in Server : log'[j] # <<>>,
           logOffset' \in [Server -> Nat], commitIndex' \in [Server -> Nat]
    PROVE  disk' \in [Server -> PersistentState] /\ \A j \in Server : disk'[j].log # <<>>
BY Zenon DEF TypeOK, PersistLocked, Saved, PersistentState

\* becomeFollowerLocked leaves state, term and vote well typed.
LEMMA BecomeFollowerType ==
    ASSUME TypeOK, NEW i \in Server, NEW t \in Nat, BecomeFollower(i, t)
    PROVE  /\ state' \in [Server -> {Follower, Candidate, Leader}]
           /\ currentTerm' \in [Server -> Nat]
           /\ votedFor' \in [Server -> Server \cup {Nil}]
BY Zenon DEF TypeOK, BecomeFollower, max

\* becomeLeaderLocked leaves the role, the leader id and both index maps well typed.
LEMMA BecomeLeaderType ==
    ASSUME TypeOK, NEW i \in Server, BecomeLeader(i)
    PROVE  /\ state' \in [Server -> {Follower, Candidate, Leader}]
           /\ leaderID' \in [Server -> Server \cup {Nil}]
           /\ nextIndex' \in [Server -> [Server -> Nat]]
           /\ matchIndex' \in [Server -> [Server -> Nat]]
<1>1. lastLogIndex(i) \in Nat /\ lastLogIndex(i) + 1 \in Nat
  BY LogFacts
<1>2. /\ [j \in Server |-> lastLogIndex(i) + 1] \in [Server -> Nat]
      /\ [j \in Server |-> IF j = i THEN lastLogIndex(i) ELSE 0] \in [Server -> Nat]
  BY <1>1, Zenon
<1> QED  BY <1>2, Zenon DEF TypeOK, BecomeLeader

\* startElection keeps every type, with and without peers.
LEMMA TypeStartElection ==
    ASSUME TypeOK, NEW i \in Server, StartElection(i)
    PROVE  TypeOK'
<1> USE DEF persistentVars, logVars, leaderVars, faultVars, voteCalls, appendCalls, snapshotCalls
<1>1. /\ lastLogIndex(i) \in Nat /\ lastLogTerm(i) \in Nat /\ currentTerm[i] \in Nat
  BY LogFacts, Zenon DEF TypeOK
<1>2. /\ currentTerm' \in [Server -> Nat] /\ votedFor' \in [Server -> Server \cup {Nil}]
      /\ votes' \in [Server -> SUBSET Server] /\ UNCHANGED logVars
  BY DEF StartElection, TypeOK
<1>3. disk' \in [Server -> PersistentState] /\ \A j \in Server : disk'[j].log # <<>>
  <2>1. PersistLocked(i) /\ UNCHANGED logVars
    BY Zenon DEF StartElection
  <2> QED  BY <1>2, <2>1, PersistType, Zenon DEF TypeOK
<1>4. /\ state' \in [Server -> {Follower, Candidate, Leader}]
      /\ leaderID' \in [Server -> Server \cup {Nil}]
      /\ nextIndex' \in [Server -> [Server -> Nat]]
      /\ matchIndex' \in [Server -> [Server -> Nat]]
  <2>1. \/ BecomeLeader(i)
        \/ /\ state' = [state EXCEPT ![i] = Candidate]
           /\ UNCHANGED <<leaderID, leaderVars>>
    BY Zenon DEF StartElection
  <2> QED  BY <2>1, BecomeLeaderType, Zenon DEF TypeOK
<1>5. voteRequests' \subseteq VoteRequest
  <2> SUFFICES ASSUME NEW m \in voteRequests' PROVE m \in VoteRequest
    BY Zenon
  <2>1. CASE m \in voteRequests
    BY <2>1, Zenon DEF TypeOK
  <2>2. CASE m \notin voteRequests
    <3>1. PICK j \in Peers(i) :
              m = [from |-> i, to |-> j, term |-> currentTerm[i] + 1,
                   lastLogIndex |-> lastLogIndex(i), lastLogTerm |-> lastLogTerm(i)]
      BY <2>2, Zenon DEF StartElection
    <3> QED  BY <1>1, <3>1 DEF VoteRequest, Peers
  <2> QED  BY <2>1, <2>2, Zenon
<1>6. UNCHANGED <<faultVars, voteReplies, appendCalls, snapshotCalls>>
  BY Zenon DEF StartElection
<1> QED  BY <1>2, <1>3, <1>4, <1>5, <1>6, Zenon DEF TypeOK

\* HandleRequestVote keeps every type, whether it refuses, follows or grants.
LEMMA TypeHandleRequestVote ==
    ASSUME TypeOK, NEW m \in voteRequests, HandleRequestVote(m)
    PROVE  TypeOK'
<1> USE DEF persistentVars, logVars, leaderVars, faultVars, voteCalls, appendCalls, snapshotCalls
<1>1. m.to \in Server /\ m.from \in Server /\ m.term \in Nat
  BY Zenon DEF TypeOK, VoteRequest
<1>2. currentTerm[m.to] \in Nat
  BY <1>1, Zenon DEF TypeOK
<1>3. ASSUME NEW t \in Nat, NEW b \in BOOLEAN, ReplyVote(m, t, b)
      PROVE  voteReplies' \subseteq VoteReply
  <2>1. [from |-> m.to, to |-> m.from, reqTerm |-> m.term, term |-> t, voteGranted |-> b]
            \in VoteReply
    BY <1>1, Zenon DEF VoteReply
  <2> QED  BY <1>3, <2>1, Zenon DEF TypeOK, ReplyVote
<1>4. CASE /\ ReplyVote(m, currentTerm[m.to], FALSE)
           /\ UNCHANGED <<state, currentTerm, votedFor, logVars, disk>>
  <2>1. voteReplies' \subseteq VoteReply
    BY <1>2, <1>3, <1>4, Zenon
  <2> QED  BY <1>4, <2>1, Zenon DEF HandleRequestVote, TypeOK
<1>5. ASSUME NEW st \in {Follower, state[m.to]}, NEW v \in {Nil, m.from, votedFor[m.to]},
             NEW b \in BOOLEAN,
             /\ state' = [state EXCEPT ![m.to] = st]
             /\ currentTerm' = [currentTerm EXCEPT ![m.to] = m.term]
             /\ votedFor' = [votedFor EXCEPT ![m.to] = v]
             /\ UNCHANGED logVars
             /\ PersistLocked(m.to)
             /\ ReplyVote(m, m.term, b)
      PROVE  TypeOK'
  <2>1. /\ state' \in [Server -> {Follower, Candidate, Leader}]
        /\ currentTerm' \in [Server -> Nat] /\ votedFor' \in [Server -> Server \cup {Nil}]
    BY <1>1, <1>5, Zenon DEF TypeOK
  <2>2. disk' \in [Server -> PersistentState] /\ \A j \in Server : disk'[j].log # <<>>
    BY <1>1, <1>5, <2>1, PersistType, Zenon DEF TypeOK
  <2>3. voteReplies' \subseteq VoteReply
    BY <1>1, <1>3, <1>5, Zenon
  <2> QED  BY <1>5, <2>1, <2>2, <2>3, Zenon DEF HandleRequestVote, TypeOK
<1> QED  BY <1>4, <1>5, Zenon DEF HandleRequestVote

\* A counted vote, or a reply that ends the candidacy, keeps every type.
LEMMA TypeHandleRequestVoteReply ==
    ASSUME TypeOK, NEW r \in voteReplies, HandleRequestVoteReply(r)
    PROVE  TypeOK'
<1> USE DEF persistentVars, logVars, leaderVars, faultVars, voteCalls, appendCalls, snapshotCalls
<1>1. r.to \in Server /\ r.from \in Server /\ r.term \in Nat
  BY Zenon DEF TypeOK, VoteReply
<1>2. CASE /\ BecomeFollower(r.to, r.term) /\ PersistLocked(r.to)
           /\ UNCHANGED <<logVars, leaderID, leaderVars, votes>>
  <2>1. disk' \in [Server -> PersistentState] /\ \A j \in Server : disk'[j].log # <<>>
    BY <1>1, <1>2, BecomeFollowerType, PersistType, Zenon DEF TypeOK
  <2> QED  BY <1>1, <1>2, <2>1, BecomeFollowerType, Zenon
           DEF HandleRequestVoteReply, TypeOK
<1>3. CASE /\ votes' = [votes EXCEPT ![r.to] = votes[r.to] \cup {r.from}]
           /\ BecomeLeader(r.to) \/ UNCHANGED <<state, leaderID, leaderVars>>
           /\ UNCHANGED <<persistentVars, disk>>
  <2>1. votes' \in [Server -> SUBSET Server]
    BY <1>1, <1>3, Zenon DEF TypeOK
  <2>2. /\ state' \in [Server -> {Follower, Candidate, Leader}]
        /\ leaderID' \in [Server -> Server \cup {Nil}]
        /\ nextIndex' \in [Server -> [Server -> Nat]]
        /\ matchIndex' \in [Server -> [Server -> Nat]]
    BY <1>1, <1>3, BecomeLeaderType, Zenon DEF TypeOK
  <2> QED  BY <1>3, <2>1, <2>2, Zenon DEF HandleRequestVoteReply, TypeOK
<1> QED  BY <1>2, <1>3, Zenon DEF HandleRequestVoteReply

\* Start keeps every type: the log only grows, so it keeps its sentinel.
LEMMA TypeStart ==
    ASSUME TypeOK, NEW i \in Server, NEW c \in Command, Start(i, c)
    PROVE  TypeOK'
<1> USE DEF persistentVars, logVars, leaderVars, faultVars, voteCalls, appendCalls, snapshotCalls
<1> DEFINE lg == Append(log[i], [term |-> currentTerm[i], cmd |-> c])
<1>1. lastLogIndex(i) \in Nat /\ currentTerm[i] \in Nat /\ log[i] \in Seq(Entry)
  BY LogFacts, Zenon DEF TypeOK
<1>2. lg \in Seq(Entry) /\ lg # <<>>
  <2>1. [term |-> currentTerm[i], cmd |-> c] \in Entry
    BY <1>1, Zenon DEF Entry
  <2> QED  BY <1>1, <2>1, AppendProperties
<1>3. /\ log' \in [Server -> Seq(Entry)] /\ \A j \in Server : log'[j] # <<>>
      /\ log'[i] = lg
  <2>1. log' = [log EXCEPT ![i] = lg]
    BY Zenon DEF Start
  <2> HIDE DEF lg
  <2> QED  BY <1>2, <2>1, Zenon DEF TypeOK
<1>4. matchIndex' \in [Server -> [Server -> Nat]] /\ nextIndex' \in [Server -> [Server -> Nat]]
  BY <1>1 DEF Start, TypeOK
<1>5. commitIndex' \in [Server -> Nat]
  <2>1. commitIndex' = [commitIndex EXCEPT ![i] = AdvancedCommitIndex(i, log'[i],
  matchIndex'[i])]
    BY Zenon DEF Start
  <2>2. AdvancedCommitIndex(i, log'[i], matchIndex'[i]) \in Nat
    BY <1>2, <1>3, AdvancedCommitIndexType, Zenon
  <2> QED  BY <2>1, <2>2, Zenon DEF TypeOK
<1>6. disk' \in [Server -> PersistentState] /\ \A j \in Server : disk'[j].log # <<>>
  <2>1. PersistLocked(i) /\ UNCHANGED <<currentTerm, votedFor, logOffset>>
    BY Zenon DEF Start
  <2> QED  BY <1>3, <1>5, <2>1, PersistType, Zenon DEF TypeOK
<1> QED  BY <1>3, <1>4, <1>5, <1>6, Zenon DEF Start, TypeOK

\* sendAppendEntries builds a well-typed call: a next index past logOffset
\* leaves a suffix of the log, and prevLogIndex is not negative.
LEMMA TypeSendAppendEntries ==
    ASSUME TypeOK, NEW i \in Server, NEW j \in Peers(i), SendAppendEntries(i, j)
    PROVE  TypeOK'
<1> USE DEF persistentVars, logVars, leaderVars, faultVars, voteCalls, appendCalls, snapshotCalls
<1> DEFINE next == IF nextIndex[i][j] = 0 THEN lastLogIndex(i) + 1 ELSE nextIndex[i][j]
           m == [from |-> i, to |-> j, term |-> currentTerm[i],
                 prevLogIndex |-> next - 1, prevLogTerm |-> termAt(i, next - 1),
                 entries |-> SubSeq(log[i], next - logOffset[i] + 1, Len(log[i])),
                 leaderCommit |-> commitIndex[i]]
<1>1. j \in Server /\ currentTerm[i] \in Nat /\ commitIndex[i] \in Nat
  BY Zenon DEF TypeOK, Peers
<1>2. next \in Nat
  <2>1. nextIndex \in [Server -> [Server -> Nat]]
    BY Zenon DEF TypeOK
  <2>2. nextIndex[i][j] \in Nat
    BY <1>1, <2>1, Zenon
  <2>3. lastLogIndex(i) + 1 \in Nat
    BY LogFacts
  <2> QED  BY <2>2, <2>3, Zenon
<1>3. /\ nextIndex' = [nextIndex EXCEPT ![i][j] = next]
      /\ \/ /\ installing' = installing \cup {<<i, j>>}
            /\ UNCHANGED appendRequests
         \/ /\ next > logOffset[i]
            /\ appendRequests' = appendRequests \cup {m}
            /\ UNCHANGED installing
      /\ UNCHANGED <<state, persistentVars, leaderID, matchIndex, votes, disk,
                     faultVars, voteCalls, appendReplies, snapshotRequests,
                     snapshotReplies>>
  BY Zenon DEF SendAppendEntries
<1>4. nextIndex' \in [Server -> [Server -> Nat]]
  <2> HIDE DEF next
  <2> QED  BY <1>1, <1>2, <1>3, Zenon DEF TypeOK
<1>5. next > logOffset[i] => m \in AppendRequest
  <2> HIDE DEF next
  <2> SUFFICES ASSUME next > logOffset[i] PROVE m \in AppendRequest
    BY Zenon
  <2>1. next - 1 \in Nat /\ next - logOffset[i] + 1 \in Nat \ {0}
    BY <1>2, LogFacts
  <2>2. termAt(i, next - 1) \in Int
    BY <2>1, LogFacts
  <2>3. SubSeq(log[i], next - logOffset[i] + 1, Len(log[i])) \in Seq(Entry)
    BY <2>1, LogFacts, SubSeqEntries
  <2> QED  BY <1>1, <2>1, <2>2, <2>3, Zenon DEF AppendRequest
<1>6. appendRequests' \subseteq AppendRequest /\ installing' \subseteq Server \X Server
  <2> HIDE DEF next, m
  <2>1. appendRequests \subseteq AppendRequest /\ installing \subseteq Server \X Server
    BY Zenon DEF TypeOK
  <2>2. <<i, j>> \in Server \X Server
    BY <1>1, Zenon
  <2> QED  BY <1>3, <1>5, <2>1, <2>2, Zenon
<1> HIDE DEF next, m
<1> QED  BY <1>3, <1>4, <1>6, Zenon DEF TypeOK

\* Replies to AppendEntries are well typed, given well-typed hints.
LEMMA ReplyAppendType ==
    ASSUME TypeOK, NEW m \in appendRequests, NEW t \in Nat, NEW b \in BOOLEAN,
           NEW ci \in Nat, NEW ct \in Nat, ReplyAppend(m, t, b, ci, ct)
    PROVE  appendReplies' \subseteq AppendReply
<1>1. /\ m.to \in Server /\ m.from \in Server /\ m.term \in Nat
      /\ m.prevLogIndex \in Nat /\ m.entries \in Seq(Entry)
  BY Zenon DEF TypeOK, AppendRequest
<1>2. Len(m.entries) \in Nat
  BY <1>1, LenProperties, Zenon
<1>3. [from |-> m.to, to |-> m.from, reqTerm |-> m.term, prevLogIndex |-> m.prevLogIndex,
       sent |-> Len(m.entries), term |-> t, success |-> b,
       conflictIndex |-> ci, conflictTerm |-> ct] \in AppendReply
  BY <1>1, <1>2, Zenon DEF AppendReply
<1> QED  BY <1>3, Zenon DEF ReplyAppend, TypeOK

\* HandleAppendEntries keeps every type: both conflict hints are naturals and
\* the log after the append loop keeps its sentinel.
LEMMA TypeHandleAppendEntries ==
    ASSUME TypeOK, NEW m \in appendRequests, HandleAppendEntries(m)
    PROVE  TypeOK'
<1> USE DEF persistentVars, logVars, leaderVars, faultVars, voteCalls, appendCalls, snapshotCalls
<1> DEFINE i == m.to
<1>1. /\ i \in Server /\ m.from \in Server /\ m.term \in Nat /\ m.leaderCommit \in Nat
      /\ m.prevLogIndex \in Nat /\ m.entries \in Seq(Entry)
  BY Zenon DEF TypeOK, AppendRequest
<1>2. currentTerm[i] \in Nat /\ commitIndex[i] \in Nat
  BY <1>1, Zenon DEF TypeOK
<1>3. CASE /\ ReplyAppend(m, currentTerm[i], FALSE, 0, 0)
           /\ UNCHANGED <<state, persistentVars, leaderID, disk>>
  <2>1. appendReplies' \subseteq AppendReply
    BY <1>2, <1>3, ReplyAppendType, Zenon
  <2> QED  BY <1>3, <2>1, Zenon DEF HandleAppendEntries, TypeOK
<1>4. CASE /\ BecomeFollower(i, m.term)
           /\ leaderID' = [leaderID EXCEPT ![i] = m.from]
           /\ RejectAppend(i, m) \/ AcceptAppend(i, m)
           /\ PersistLocked(i)
  <2>1. /\ state' \in [Server -> {Follower, Candidate, Leader}]
        /\ currentTerm' \in [Server -> Nat] /\ votedFor' \in [Server -> Server \cup {Nil}]
        /\ leaderID' \in [Server -> Server \cup {Nil}]
    BY <1>1, <1>4, BecomeFollowerType, Zenon DEF TypeOK
  <2>2. CASE RejectAppend(i, m)
    <3>1. appendReplies' \subseteq AppendReply
      <4>1. lastLogIndex(i) + 1 \in Nat /\ logOffset[i] + 1 \in Nat
        BY <1>1, LogFacts
      <4>2. ASSUME logOffset[i] <= m.prevLogIndex, m.prevLogIndex <= lastLogIndex(i)
            PROVE  firstIndexOfRun(i, m.prevLogIndex) \in Nat /\ termAt(i, m.prevLogIndex) \in Nat
        BY <1>1, <4>2, LogFacts, FirstIndexOfRunType
      <4> QED  BY <1>2, <2>2, <4>1, <4>2, ReplyAppendType, Zenon DEF RejectAppend
    <3>2. UNCHANGED logVars
      BY <2>2, Zenon DEF RejectAppend
    <3>3. disk' \in [Server -> PersistentState] /\ \A j \in Server : disk'[j].log # <<>>
      BY <1>1, <1>4, <2>1, <3>2, PersistType, Zenon DEF TypeOK
    <3> QED  BY <2>1, <3>1, <3>2, <3>3, Zenon DEF HandleAppendEntries, TypeOK
  <2>3. CASE AcceptAppend(i, m)
    <3> DEFINE lg == AppendedLog(i, m.prevLogIndex, m.entries)
    <3>1. lg \in Seq(Entry) /\ lg # <<>>
      BY <1>1, <2>3, AppendedLogType, Zenon DEF AcceptAppend, PrevMatches
    <3>2. log' = [log EXCEPT ![i] = lg]
      BY <2>3, Zenon DEF AcceptAppend
    <3> HIDE DEF lg
    <3>3. log' \in [Server -> Seq(Entry)] /\ (\A j \in Server : log'[j] # <<>>) /\ log'[i] = lg
      BY <1>1, <3>1, <3>2, Zenon DEF TypeOK
    <3>4. commitIndex' \in [Server -> Nat] /\ UNCHANGED logOffset
      <4>1. logOffset[i] \in Nat /\ Len(lg) \in Nat /\ Len(lg) >= 1
        BY <1>1, <3>1, EmptySeq, LogFacts
      <4>2. min(m.leaderCommit, logOffset[i] + Len(log'[i]) - 1) \in Nat
        BY <1>1, <3>3, <4>1 DEF min
      <4> QED  BY <1>1, <1>2, <2>3, <4>2, Zenon DEF AcceptAppend, TypeOK
    <3>5. disk' \in [Server -> PersistentState] /\ \A j \in Server : disk'[j].log # <<>>
      BY <1>1, <1>4, <2>1, <3>3, <3>4, PersistType, Zenon DEF TypeOK
    <3>6. appendReplies' \subseteq AppendReply
      BY <1>1, <2>3, ReplyAppendType, Zenon DEF AcceptAppend
    <3> QED  BY <2>1, <3>3, <3>4, <3>5, <3>6, Zenon DEF HandleAppendEntries, TypeOK
  <2> QED  BY <1>4, <2>2, <2>3, Zenon
<1> QED  BY <1>3, <1>4, Zenon DEF HandleAppendEntries

\* Backing off by a conflict hint never makes nextIndex negative.
LEMMA BackedOffIndexType ==
    ASSUME TypeOK, NEW r \in appendReplies
    PROVE  BackedOffIndex(r.to, r) \in Nat
<1>1. r.to \in Server /\ r.from \in Server /\ r.conflictIndex \in Nat
  BY Zenon DEF TypeOK, AppendReply
<1>2. nextIndex[r.to][r.from] \in Nat
  BY <1>1, Zenon DEF TypeOK
<1>3. lastIndexOfTerm(r.to, r.conflictTerm) \in Nat \cup {-1}
  BY <1>1, LastIndexOfTermType, Zenon
<1> QED  BY <1>1, <1>2, <1>3 DEF BackedOffIndex, max

\* handleAppendEntriesReply and advanceCommitIndex keep every type.
LEMMA TypeHandleAppendEntriesReply ==
    ASSUME TypeOK, NEW r \in appendReplies, HandleAppendEntriesReply(r)
    PROVE  TypeOK'
<1> USE DEF persistentVars, logVars, leaderVars, faultVars, voteCalls, appendCalls, snapshotCalls
<1> DEFINE i == r.to
           j == r.from
           matchIdx == r.prevLogIndex + r.sent
<1>1. /\ i \in Server /\ j \in Server /\ r.term \in Nat
      /\ matchIdx \in Nat /\ matchIdx + 1 \in Nat
  <2>1. r \in AppendReply
    BY Zenon DEF TypeOK
  <2> QED  BY <2>1 DEF AppendReply
<1>2. UNCHANGED <<leaderID, votes, faultVars, voteCalls, appendCalls, snapshotCalls>>
  BY Zenon DEF HandleAppendEntriesReply
<1>3. CASE /\ BecomeFollower(i, r.term)
           /\ UNCHANGED <<logVars, leaderVars>>
           /\ PersistLocked(i)
  <2>1. disk' \in [Server -> PersistentState] /\ \A k \in Server : disk'[k].log # <<>>
    BY <1>1, <1>3, BecomeFollowerType, PersistType, Zenon DEF TypeOK
  <2> QED  BY <1>1, <1>2, <1>3, <2>1, BecomeFollowerType, Zenon DEF TypeOK
<1>4. CASE /\ matchIndex' = [matchIndex EXCEPT ![i][j] = matchIdx]
           /\ nextIndex' = [nextIndex EXCEPT ![i][j] = matchIdx + 1]
           /\ commitIndex' = [commitIndex EXCEPT ![i] =
                                  AdvancedCommitIndex(i, log[i], matchIndex'[i])]
           /\ UNCHANGED <<state, currentTerm, votedFor, log, logOffset>>
           /\ PersistLocked(i)
  <2> HIDE DEF matchIdx
  <2>1. matchIndex' \in [Server -> [Server -> Nat]] /\ nextIndex' \in [Server -> [Server -> Nat]]
    BY <1>1, <1>4, Zenon DEF TypeOK
  <2>2. commitIndex' \in [Server -> Nat]
    <3>1. AdvancedCommitIndex(i, log[i], matchIndex'[i]) \in Nat
      BY <1>1, LogFacts, AdvancedCommitIndexType, Zenon
    <3> QED  BY <1>4, <3>1, Zenon DEF TypeOK
  <2>3. disk' \in [Server -> PersistentState] /\ \A k \in Server : disk'[k].log # <<>>
    BY <1>1, <1>4, <2>2, PersistType, Zenon DEF TypeOK
  <2> QED  BY <1>2, <1>4, <2>1, <2>2, <2>3, Zenon DEF TypeOK
<1>5. CASE /\ nextIndex' = [nextIndex EXCEPT ![i][j] = BackedOffIndex(i, r)]
           /\ UNCHANGED <<state, persistentVars, matchIndex, disk>>
  <2>1. nextIndex' \in [Server -> [Server -> Nat]]
    BY <1>1, <1>5, BackedOffIndexType, Zenon DEF TypeOK
  <2> QED  BY <1>2, <1>5, <2>1, Zenon DEF TypeOK
<1> QED  BY <1>3, <1>4, <1>5, Zenon DEF HandleAppendEntriesReply

\* Snapshot keeps every type: the compacted log starts with a new sentinel.
LEMMA TypeSnapshot ==
    ASSUME TypeOK, NEW i \in Server, NEW index \in logOffset[i] + 1 .. commitIndex[i],
           Snapshot(i, index)
    PROVE  TypeOK'
<1> USE DEF persistentVars, logVars, leaderVars, faultVars, voteCalls, appendCalls, snapshotCalls
<1> DEFINE rest == SubSeq(log[i], index - logOffset[i] + 2, Len(log[i]))
           lg == <<Sentinel(termAt(i, index))>> \o rest
<1>1. index \in Nat /\ logOffset[i] <= index /\ index <= lastLogIndex(i)
  <2>1. logOffset[i] \in Nat /\ commitIndex[i] \in Nat
    BY Zenon DEF TypeOK
  <2> QED  BY <2>1 DEF Snapshot
<1>2. rest \in Seq(Entry)
  <2>1. index - logOffset[i] + 2 \in Nat \ {0}
    BY <1>1, LogFacts
  <2> QED  BY <2>1, LogFacts, SubSeqEntries
<1>3. Sentinel(termAt(i, index)) \in Entry
  <2>1. termAt(i, index) \in Nat
    BY <1>1, LogFacts
  <2> QED  BY <2>1, Zenon DEF Sentinel, Entry
<1>4. lg \in Seq(Entry) /\ lg # <<>>
  <2> HIDE DEF rest
  <2>1. <<Sentinel(termAt(i, index))>> \in Seq(Entry) /\ Len(<<Sentinel(termAt(i, index))>>) = 1
    BY <1>3
  <2> QED  BY <1>2, <2>1, ConcatProperties, EmptySeq, LenProperties
<1>5. log' = [log EXCEPT ![i] = lg] /\ logOffset' = [logOffset EXCEPT ![i] = index]
  BY Zenon DEF Snapshot, CompactedLog
<1> HIDE DEF lg, rest
<1>6. /\ log' \in [Server -> Seq(Entry)] /\ \A j \in Server : log'[j] # <<>>
      /\ logOffset' \in [Server -> Nat]
  BY <1>1, <1>4, <1>5, Zenon DEF TypeOK
<1>7. disk' \in [Server -> PersistentState] /\ \A j \in Server : disk'[j].log # <<>>
  <2>1. PersistLocked(i) /\ UNCHANGED <<currentTerm, votedFor, commitIndex>>
    BY Zenon DEF Snapshot
  <2> QED  BY <1>6, <2>1, PersistType, Zenon DEF TypeOK
<1>8. UNCHANGED <<state, currentTerm, votedFor, commitIndex, leaderID, leaderVars, votes,
                  faultVars, voteCalls, appendCalls, snapshotCalls>>
  BY Zenon DEF Snapshot
<1> QED  BY <1>6, <1>7, <1>8, Zenon DEF TypeOK

\* sendInstallSnapshot builds a well-typed call from the log's sentinel.
LEMMA TypeSendInstallSnapshot ==
    ASSUME TypeOK, NEW i \in Server, NEW j \in Peers(i), SendInstallSnapshot(i, j)
    PROVE  TypeOK'
<1> USE DEF persistentVars, logVars, leaderVars, faultVars, voteCalls, appendCalls, snapshotCalls
<1> DEFINE m == [from |-> i, to |-> j, term |-> currentTerm[i],
                 lastIncludedIndex |-> logOffset[i], lastIncludedTerm |-> log[i][1].term]
<1>1. m \in SnapshotRequest
  <2>1. j \in Server /\ currentTerm[i] \in Nat /\ logOffset[i] \in Nat
    BY Zenon DEF TypeOK, Peers
  <2>2. log[i][1] \in Entry
    BY LogFacts, ElementOfSeq
  <2> QED  BY <2>1, <2>2, Zenon DEF SnapshotRequest, Entry
<1>2. installing' \subseteq installing /\ snapshotRequests' \subseteq snapshotRequests \cup {m}
  BY Zenon DEF SendInstallSnapshot
<1> HIDE DEF m
<1>3. installing' \subseteq Server \X Server /\ snapshotRequests' \subseteq SnapshotRequest
  BY <1>1, <1>2, Zenon DEF TypeOK
<1>4. UNCHANGED <<state, persistentVars, leaderID, leaderVars, votes, disk,
                  faultVars, voteCalls, appendCalls, snapshotReplies>>
  BY Zenon DEF SendInstallSnapshot
<1> QED  BY <1>3, <1>4, Zenon DEF TypeOK

\* HandleInstallSnapshot keeps every type: the log it leaves is a sentinel.
LEMMA TypeHandleInstallSnapshot ==
    ASSUME TypeOK, NEW m \in snapshotRequests, HandleInstallSnapshot(m)
    PROVE  TypeOK'
<1> USE DEF persistentVars, logVars, leaderVars, faultVars, voteCalls, appendCalls, snapshotCalls
<1> DEFINE i == m.to
<1>1. /\ i \in Server /\ m.from \in Server /\ m.term \in Nat
      /\ m.lastIncludedIndex \in Nat /\ m.lastIncludedTerm \in Nat
  BY Zenon DEF TypeOK, SnapshotRequest
<1>2. currentTerm[i] \in Nat /\ commitIndex[i] \in Nat
  BY <1>1, Zenon DEF TypeOK
<1>3. snapshotReplies' \subseteq SnapshotReply
  <2>1. [from |-> i, to |-> m.from, reqTerm |-> m.term,
         lastIncludedIndex |-> m.lastIncludedIndex,
         term |-> max(currentTerm[i], m.term)] \in SnapshotReply
    BY <1>1, <1>2, Zenon DEF SnapshotReply, max
  <2>2. snapshotReplies \subseteq SnapshotReply
    BY Zenon DEF TypeOK
  <2> QED  BY <2>1, <2>2, Zenon DEF HandleInstallSnapshot
<1>4. UNCHANGED <<leaderVars, votes, faultVars, voteCalls, appendCalls,
                  installing, snapshotRequests>>
  BY Zenon DEF HandleInstallSnapshot
<1>5. CASE UNCHANGED <<state, persistentVars, leaderID, disk>>
  BY <1>3, <1>4, <1>5, Zenon DEF TypeOK
<1>6. CASE /\ BecomeFollower(i, m.term)
           /\ leaderID' = [leaderID EXCEPT ![i] = m.from]
           /\ \/ UNCHANGED logVars
              \/ /\ logOffset' = [logOffset EXCEPT ![i] = m.lastIncludedIndex]
                 /\ log' = [log EXCEPT ![i] = <<Sentinel(m.lastIncludedTerm)>>]
                 /\ commitIndex' = [commitIndex EXCEPT ![i] = max(@, m.lastIncludedIndex)]
           /\ PersistLocked(i)
  <2>1. /\ state' \in [Server -> {Follower, Candidate, Leader}]
        /\ currentTerm' \in [Server -> Nat] /\ votedFor' \in [Server -> Server \cup {Nil}]
        /\ leaderID' \in [Server -> Server \cup {Nil}]
    BY <1>1, <1>6, BecomeFollowerType, Zenon DEF TypeOK
  <2>2. /\ log' \in [Server -> Seq(Entry)] /\ \A j \in Server : log'[j] # <<>>
        /\ logOffset' \in [Server -> Nat] /\ commitIndex' \in [Server -> Nat]
    <3>1. Sentinel(m.lastIncludedTerm) \in Entry
      BY <1>1, Zenon DEF Sentinel, Entry
    <3>2. <<Sentinel(m.lastIncludedTerm)>> \in Seq(Entry) /\ <<Sentinel(m.lastIncludedTerm)>> # <<>>
      BY <3>1
    <3>3. max(commitIndex[i], m.lastIncludedIndex) \in Nat
      BY <1>1, <1>2, Zenon DEF max
    <3>4. CASE UNCHANGED logVars
      BY <3>4, Zenon DEF TypeOK
    <3>5. CASE /\ logOffset' = [logOffset EXCEPT ![i] = m.lastIncludedIndex]
               /\ log' = [log EXCEPT ![i] = <<Sentinel(m.lastIncludedTerm)>>]
               /\ commitIndex' = [commitIndex EXCEPT ![i] = max(@, m.lastIncludedIndex)]
      <4>1. logOffset' \in [Server -> Nat] /\ commitIndex' \in [Server -> Nat]
        BY <1>1, <3>3, <3>5, Zenon DEF TypeOK
      <4>2. log' \in [Server -> Seq(Entry)] /\ \A j \in Server : log'[j] # <<>>
        BY <1>1, <3>2, <3>5, Zenon DEF TypeOK
      <4> QED  BY <4>1, <4>2, Zenon
    <3> QED  BY <1>6, <3>4, <3>5, Zenon
  <2>3. disk' \in [Server -> PersistentState] /\ \A j \in Server : disk'[j].log # <<>>
    BY <1>1, <1>6, <2>1, <2>2, PersistType, Zenon
  <2> QED  BY <1>3, <1>4, <2>1, <2>2, <2>3, Zenon DEF TypeOK
<1> QED  BY <1>5, <1>6, Zenon DEF HandleInstallSnapshot

\* handleInstallSnapshotReply keeps every type.
LEMMA TypeHandleInstallSnapshotReply ==
    ASSUME TypeOK, NEW r \in snapshotReplies, HandleInstallSnapshotReply(r)
    PROVE  TypeOK'
<1> USE DEF persistentVars, logVars, leaderVars, faultVars, voteCalls, appendCalls, snapshotCalls
<1> DEFINE i == r.to
           j == r.from
<1>1. /\ i \in Server /\ j \in Server /\ r.term \in Nat /\ r.lastIncludedIndex \in Nat
  <2>1. r \in SnapshotReply
    BY Zenon DEF TypeOK
  <2> QED  BY <2>1, Zenon DEF SnapshotReply
<1>2. UNCHANGED <<leaderID, votes, faultVars, voteCalls, appendCalls, snapshotCalls>>
  BY Zenon DEF HandleInstallSnapshotReply
<1>3. CASE /\ BecomeFollower(i, r.term)
           /\ UNCHANGED <<logVars, leaderVars>>
           /\ PersistLocked(i)
  <2>1. disk' \in [Server -> PersistentState] /\ \A k \in Server : disk'[k].log # <<>>
    BY <1>1, <1>3, BecomeFollowerType, PersistType, Zenon DEF TypeOK
  <2> QED  BY <1>1, <1>2, <1>3, <2>1, BecomeFollowerType, Zenon DEF TypeOK
<1>4. CASE /\ matchIndex' = [matchIndex EXCEPT ![i][j] = r.lastIncludedIndex]
           /\ nextIndex' = [nextIndex EXCEPT ![i][j] = r.lastIncludedIndex + 1]
           /\ UNCHANGED <<state, persistentVars, disk>>
  <2>1. r.lastIncludedIndex + 1 \in Nat
    BY <1>1
  <2>2. matchIndex' \in [Server -> [Server -> Nat]]
    BY <1>1, <1>4, Zenon DEF TypeOK
  <2>3. nextIndex' \in [Server -> [Server -> Nat]]
    BY <1>1, <1>4, <2>1, Zenon DEF TypeOK
  <2> QED  BY <1>2, <1>4, <2>2, <2>3, ZenonT(30) DEF TypeOK
<1> QED  BY <1>3, <1>4, Zenon DEF HandleInstallSnapshotReply

\* A node that comes back from a well-formed saved state is well formed.
LEMMA TypeCrash ==
    ASSUME TypeOK, NEW i \in Server, NEW s \in PersistentState, s.log # <<>>, Crash(i, s)
    PROVE  TypeOK'
<1> USE DEF persistentVars, logVars, leaderVars, faultVars, voteCalls, appendCalls, snapshotCalls
<1>1. /\ s.currentTerm \in Nat /\ s.votedFor \in Server \cup {Nil} /\ s.log \in Seq(Entry)
      /\ s.logOffset \in Nat /\ s.commitIndex \in Nat
  BY Zenon DEF PersistentState
<1>2. Len(s.log) \in Nat /\ Len(s.log) >= 1
  BY <1>1, EmptySeq
<1>3. RestoredCommit(s) \in Nat
  BY <1>1, <1>2 DEF RestoredCommit, min, max
<1>4. NewRaft(i, s)
  BY Zenon DEF Crash
<1>5. /\ state' \in [Server -> {Follower, Candidate, Leader}]
      /\ currentTerm' \in [Server -> Nat] /\ votedFor' \in [Server -> Server \cup {Nil}]
      /\ logOffset' \in [Server -> Nat]
      /\ leaderID' \in [Server -> Server \cup {Nil}] /\ votes' \in [Server -> SUBSET Server]
  BY <1>1, <1>4, Zenon DEF NewRaft, TypeOK
<1>6. log' \in [Server -> Seq(Entry)] /\ \A j \in Server : log'[j] # <<>>
  BY <1>1, <1>4, Zenon DEF NewRaft, TypeOK
<1>7. commitIndex' \in [Server -> Nat]
  BY <1>3, <1>4, Zenon DEF NewRaft, TypeOK
<1>8. nextIndex' \in [Server -> [Server -> Nat]] /\ matchIndex' \in [Server -> [Server -> Nat]]
  <2>1. [j \in Server |-> 0] \in [Server -> Nat]
    BY Zenon
  <2> QED  BY <1>4, <2>1, Zenon DEF NewRaft, TypeOK
<1>9. /\ disk' \in [Server -> PersistentState] /\ \A j \in Server : disk'[j].log # <<>>
      /\ restarts' \in Nat /\ diskFull' \subseteq Server
  <2>1. disk' = [disk EXCEPT ![i] = s] /\ restarts' = restarts + 1 /\ diskFull' = diskFull \ {i}
    BY Zenon DEF Crash
  <2>2. /\ disk \in [Server -> PersistentState] /\ \A j \in Server : disk[j].log # <<>>
        /\ restarts \in Nat /\ diskFull \subseteq Server
    BY Zenon DEF TypeOK
  <2> QED  BY <2>1, <2>2
<1>10. installing' \subseteq installing
  BY <1>4, Zenon DEF NewRaft
<1>11. UNCHANGED <<voteCalls, appendCalls, snapshotRequests, snapshotReplies>>
  BY Zenon DEF Crash
<1> QED  BY <1>5, <1>6, <1>7, <1>8, <1>9, <1>10, <1>11, Zenon DEF TypeOK

\* The four ways to crash restart from a well-formed saved state.
LEMMA TypeCrashes ==
    ASSUME TypeOK, NEW i \in Server
    PROVE  /\ Restart(i) => TypeOK'
           /\ CrashAfterTermSave(i) => TypeOK'
           /\ \A c \in Command : CrashAfterStartSave(i, c) => TypeOK'
           /\ CrashAfterLogSave(i) => TypeOK'
<1>1. Saved(i) \in PersistentState /\ Saved(i).log # <<>>
  BY Zenon DEF Saved, PersistentState, TypeOK
<1>2. Restart(i) => TypeOK'
  <2>1. disk[i] \in PersistentState /\ disk[i].log # <<>>
    BY Zenon DEF TypeOK
  <2> QED  BY <2>1, TypeCrash, Zenon DEF Restart
<1>3. ASSUME CrashAfterTermSave(i) PROVE TypeOK'
  <2>1. PICK m \in voteRequests \cup appendRequests \cup snapshotRequests :
            Crash(i, [Saved(i) EXCEPT !.currentTerm = m.term, !.votedFor = Nil])
    BY <1>3, Zenon DEF CrashAfterTermSave
  <2>2. m.term \in Nat
    BY Zenon DEF TypeOK, VoteRequest, AppendRequest, SnapshotRequest
  <2> DEFINE s == [Saved(i) EXCEPT !.currentTerm = m.term, !.votedFor = Nil]
  <2>3. s \in PersistentState /\ s.log = Saved(i).log
    BY <1>1, <2>2, Zenon DEF PersistentState
  <2> HIDE DEF s
  <2> QED  BY <1>1, <2>1, <2>3, TypeCrash, Zenon DEF s
<1>4. ASSUME NEW c \in Command, CrashAfterStartSave(i, c) PROVE TypeOK'
  <2> DEFINE lg == Append(log[i], [term |-> currentTerm[i], cmd |-> c])
             s == [Saved(i) EXCEPT !.log = lg]
  <2>1. lg \in Seq(Entry) /\ lg # <<>>
    <3>1. [term |-> currentTerm[i], cmd |-> c] \in Entry
      BY Zenon DEF TypeOK, Entry
    <3> QED  BY <3>1, LogFacts, AppendProperties
  <2>2. Crash(i, s)
    BY <1>4, Zenon DEF CrashAfterStartSave
  <2> HIDE DEF lg
  <2>3. s \in PersistentState /\ s.log # <<>>
    BY <1>1, <2>1, Zenon DEF PersistentState
  <2> HIDE DEF s
  <2> QED  BY <2>2, <2>3, TypeCrash, Zenon
<1>5. ASSUME CrashAfterLogSave(i) PROVE TypeOK'
  <2>1. PICK m \in appendRequests :
            /\ PrevMatches(i, m)
            /\ Crash(i, [Saved(i) EXCEPT
                          !.currentTerm = m.term,
                          !.votedFor = IF m.term > currentTerm[i] THEN Nil ELSE @,
                          !.log = AppendedLog(i, m.prevLogIndex, m.entries)])
    BY <1>5, Zenon DEF CrashAfterLogSave
  <2> DEFINE lg == AppendedLog(i, m.prevLogIndex, m.entries)
             s == [Saved(i) EXCEPT
                      !.currentTerm = m.term,
                      !.votedFor = IF m.term > currentTerm[i] THEN Nil ELSE @,
                      !.log = lg]
  <2>2. m.term \in Nat /\ m.prevLogIndex \in Nat /\ m.entries \in Seq(Entry)
    BY Zenon DEF TypeOK, AppendRequest
  <2>3. lg \in Seq(Entry) /\ lg # <<>>
    BY <2>1, <2>2, AppendedLogType, Zenon DEF PrevMatches
  <2>4. Crash(i, s)
    BY <2>1, Zenon
  <2> HIDE DEF lg
  <2>5. s \in PersistentState /\ s.log # <<>>
    BY <1>1, <2>2, <2>3, Zenon DEF PersistentState
  <2> HIDE DEF s
  <2> QED  BY <2>4, <2>5, TypeCrash, Zenon
<1> QED  BY <1>2, <1>3, <1>4, <1>5, Zenon

\* Every step of every node keeps the type invariant.
LEMMA TypeNext == TypeOK /\ [Next]_vars => TypeOK'
<1> SUFFICES ASSUME TypeOK, [Next]_vars PROVE TypeOK'
  BY Zenon
<1>1. CASE UNCHANGED vars
  BY <1>1, Zenon DEF vars, persistentVars, leaderVars, faultVars, voteCalls, appendCalls,
              snapshotCalls, TypeOK
<1>2. ASSUME NEW i \in Server, DiskFills(i) PROVE TypeOK'
  BY <1>2, Zenon
  DEF DiskFills, persistentVars, leaderVars, faultVars, voteCalls, appendCalls,
              snapshotCalls, TypeOK
<1> QED
  BY <1>1, <1>2, TypeStartElection, TypeHandleRequestVote, TypeHandleRequestVoteReply,
     TypeStart, TypeSendAppendEntries, TypeHandleAppendEntries,
     TypeHandleAppendEntriesReply, TypeSnapshot, TypeSendInstallSnapshot,
     TypeHandleInstallSnapshot, TypeHandleInstallSnapshotReply, TypeCrashes, Zenon
  DEF Next

\* Type correctness for every cluster, command set and bound, with crashes in
\* the middle of handlers and disks that refuse writes: in particular no handler
\* ever leaves a log without its sentinel, which lastLogTerm, sendInstallSnapshot
\* and NewRaft index without a check.
THEOREM TypeCorrect == Spec => []TypeOK
BY TypeInit, TypeNext, PTL DEF Spec

=============================================================================
