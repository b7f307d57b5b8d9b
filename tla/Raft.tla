-------------------------------- MODULE Raft --------------------------------
(***************************************************************************)
(* The consensus part of package raft (src/raft/raft.go): a cluster of     *)
(* nodes, each guarded by its mutex r.mu, exchanging RequestVote,          *)
(* AppendEntries and InstallSnapshot calls, crashing and restarting from   *)
(* what persistLocked saved.                                               *)
(*                                                                         *)
(* One action is one handler or one goroutine step: what it does between   *)
(* taking and releasing r.mu, with the calls it makes before returning.    *)
(* Timers are abstracted to "may fire at any time", so an election may     *)
(* start whenever the node is not leader and a heartbeat may be sent       *)
(* whenever it is.  What happens to an entry after it is committed         *)
(* (lastApplied, notifyCh, applyCh) is the subject of module ApplyPath.    *)
(***************************************************************************)
EXTENDS Integers, Sequences, FiniteSets

CONSTANTS
    Server,             \* the ids of the cluster's members
    Command,            \* the commands clients submit
    Nil,                \* the empty string of votedFor and leaderID
    SnapshotThreshold,  \* Config.SnapshotThreshold; 0 or less: no snapshots
    MaxTerm,            \* bound: no election is started at this term
    MaxElections,       \* bound: elections with peers, over the whole cluster
    MaxLogIndex,        \* bound: no command is appended at this index
    MaxAppends,         \* bound: AppendEntries calls with distinct arguments
    MaxRestarts,        \* bound: crashes, over the whole cluster
    MaxDiskFull,        \* bound: disks that start refusing writes
    RestartFull         \* fault model: may a node whose disk refuses writes crash?

ASSUME ServerAssumption ==
    IsFiniteSet(Server) /\ Server # {} /\ Nil \notin Server
ASSUME CommandAssumption == Nil \notin Command
ASSUME BoundsAssumption ==
    /\ SnapshotThreshold \in Int
    /\ MaxTerm \in Nat /\ MaxElections \in Nat /\ MaxLogIndex \in Nat
    /\ MaxAppends \in Nat /\ MaxRestarts \in Nat /\ MaxDiskFull \in Nat
    /\ RestartFull \in BOOLEAN

VARIABLES
    state,              \* "Follower", "Candidate" or "Leader"
    currentTerm,
    votedFor,
    log,                \* log[i][1] is the sentinel, for index logOffset[i]
    logOffset,          \* also snapshot.LastIncludedIndex
    commitIndex,
    leaderID,
    nextIndex,          \* 0: no entry in the Go map
    matchIndex,
    votes,              \* nodes counted by the running election
    disk,               \* the PersistentState last saved
    diskFull,           \* nodes whose storage.Save returns an error
    restarts,
    voteRequests, voteReplies,
    appendRequests, appendReplies,
    installing,         \* goroutines about to call sendInstallSnapshot
    snapshotRequests, snapshotReplies

persistentVars == <<currentTerm, votedFor, log, logOffset, commitIndex>>
logVars == <<log, logOffset, commitIndex>>
leaderVars == <<nextIndex, matchIndex>>
faultVars == <<diskFull, restarts>>
voteCalls == <<voteRequests, voteReplies>>
appendCalls == <<appendRequests, appendReplies>>
snapshotCalls == <<installing, snapshotRequests, snapshotReplies>>
vars == <<state, persistentVars, leaderID, leaderVars, votes, disk, faultVars,
          voteCalls, appendCalls, snapshotCalls>>

Follower == "Follower"
Candidate == "Candidate"
Leader == "Leader"

Entry == [term : Nat, cmd : Command \cup {Nil}]
Sentinel(t) == [term |-> t, cmd |-> Nil]
Peers(i) == Server \ {i}

\* Mutant: less than half of the cluster is a quorum.
quorumSizeLow == Cardinality(Server) \div 2
quorumSize == Cardinality(Server) \div 2 + 1
max(a, b) == IF a > b THEN a ELSE b
min(a, b) == IF a < b THEN a ELSE b

-----------------------------------------------------------------------------
(* The log of a node. *)

lastLogIndex(i) == logOffset[i] + Len(log[i]) - 1
lastLogTerm(i) == IF Len(log[i]) = 0 THEN 0 ELSE log[i][Len(log[i])].term
termAt(i, idx) ==
    IF logOffset[i] <= idx /\ idx <= lastLogIndex(i)
    THEN log[i][idx - logOffset[i] + 1].term
    ELSE -1

\* Mutant: a longer log wins, whatever its last term.
isUpToDateByLength(i, lastIndex, lastTerm) == lastIndex >= lastLogIndex(i)

\* Mutant: the candidate's log is not looked at.
isUpToDateAlways(i, lastIndex, lastTerm) == TRUE

isUpToDate(i, lastIndex, lastTerm) ==
    IF lastTerm # lastLogTerm(i)
    THEN lastTerm > lastLogTerm(i)
    ELSE lastIndex >= lastLogIndex(i)

\* The last index holding term t, or -1.
lastIndexOfTerm(i, t) ==
    LET S == {k \in logOffset[i] .. lastLogIndex(i) : termAt(i, k) = t}
    IN  IF S = {} THEN -1 ELSE CHOOSE k \in S : \A l \in S : l <= k

\* The first index of the run of equal terms that ends at idx.
firstIndexOfRun(i, idx) ==
    CHOOSE k \in logOffset[i] .. idx :
        /\ \A l \in k .. idx : termAt(i, l) = termAt(i, idx)
        /\ k = logOffset[i] \/ termAt(i, k - 1) # termAt(i, idx)

\* Mutant: entries are only ever added behind the log's end.
AppendedLogNoConflict(i, prev, entries) ==
    log[i] \o SubSeq(entries, max(1, lastLogIndex(i) - prev + 1), Len(entries))

\* Mutant: the log is cut behind prev even if the entries are there already.
AppendedLogTruncating(i, prev, entries) ==
    SubSeq(log[i], 1, prev - logOffset[i] + 1) \o entries

\* The log after the loop that appends entries behind prev: entries already
\* there are kept, from the first conflict or the end on they are replaced.
AppendedLog(i, prev, entries) ==
    LET new == {k \in 1 .. Len(entries) : termAt(i, prev + k) # entries[k].term}
        k == CHOOSE k \in new : \A l \in new : k <= l
    IN  IF new = {} THEN log[i]
        ELSE SubSeq(log[i], 1, prev + k - logOffset[i])
                 \o SubSeq(entries, k, Len(entries))

\* The PersistentState persistLocked puts together.
Saved(i) == [currentTerm |-> currentTerm[i], votedFor |-> votedFor[i],
             log |-> log[i], logOffset |-> logOffset[i],
             commitIndex |-> commitIndex[i]]

\* Mutants: a PersistentState without the vote, or without the commit index.
PersistWithoutVote(i) ==
    disk' = [disk EXCEPT ![i] =
                [currentTerm |-> currentTerm'[i], votedFor |-> Nil, log |-> log'[i],
                 logOffset |-> logOffset'[i], commitIndex |-> commitIndex'[i]]]
PersistWithoutCommit(i) ==
    disk' = [disk EXCEPT ![i] =
                [@ EXCEPT !.currentTerm = currentTerm'[i], !.votedFor = votedFor'[i],
                          !.log = log'[i], !.logOffset = logOffset'[i]]]

\* persistLocked: every caller but Snapshot's ignores the error a full disk
\* returns.  A handler that saves several times ends with this; one that saves
\* only if something changed leaves the disk as it was.
PersistLocked(i) ==
    disk' = IF i \in diskFull THEN disk ELSE [disk EXCEPT ![i] = Saved(i)']

\* becomeFollowerLocked, without the save.
BecomeFollower(i, term) ==
    /\ state' = [state EXCEPT ![i] = Follower]
    /\ currentTerm' = [currentTerm EXCEPT ![i] = max(@, term)]
    /\ votedFor' = [votedFor EXCEPT ![i] = IF term > currentTerm[i] THEN Nil ELSE @]

BecomeLeader(i) ==
    /\ state' = [state EXCEPT ![i] = Leader]
    /\ leaderID' = [leaderID EXCEPT ![i] = i]
    /\ nextIndex' = [nextIndex EXCEPT ![i] = [j \in Server |-> lastLogIndex(i) + 1]]
    /\ matchIndex' = [matchIndex EXCEPT ![i] =
                         [j \in Server |-> IF j = i THEN lastLogIndex(i) ELSE 0]]

-----------------------------------------------------------------------------
(* Elections. *)

ElectionsLeft == Cardinality({<<m.from, m.term>> : m \in voteRequests}) < MaxElections

\* startElection, when the election timer fires.  A node without peers is its
\* own quorum and becomes leader at once.
StartElection(i) ==
    /\ state[i] # Leader
    /\ currentTerm[i] < MaxTerm
    /\ ElectionsLeft
    /\ currentTerm' = [currentTerm EXCEPT ![i] = @ + 1]
    /\ votedFor' = [votedFor EXCEPT ![i] = i]
    /\ votes' = [votes EXCEPT ![i] = {i}]
    /\ UNCHANGED logVars
    /\ PersistLocked(i)
    /\ IF quorumSize = 1
       THEN BecomeLeader(i)
       ELSE /\ state' = [state EXCEPT ![i] = Candidate]
            /\ UNCHANGED <<leaderID, leaderVars>>
    /\ voteRequests' = voteRequests \cup
           {[from |-> i, to |-> j, term |-> currentTerm[i] + 1,
             lastLogIndex |-> lastLogIndex(i), lastLogTerm |-> lastLogTerm(i)]
            : j \in Peers(i)}
    /\ UNCHANGED <<faultVars, voteReplies, appendCalls, snapshotCalls>>

\* A RequestVote call is sent once, so it is handled at most once.
VoteAnswered(m) ==
    \E r \in voteReplies : r.from = m.to /\ r.to = m.from /\ r.reqTerm = m.term

ReplyVote(m, term, granted) ==
    voteReplies' = voteReplies \cup
        {[from |-> m.to, to |-> m.from, reqTerm |-> m.term,
          term |-> term, voteGranted |-> granted]}

HandleRequestVote(m) ==
    LET i == m.to
        higher == m.term > currentTerm[i]
        voted == IF higher THEN Nil ELSE votedFor[i]
        grant == /\ voted \in {Nil, m.from}
                 /\ isUpToDate(i, m.lastLogIndex, m.lastLogTerm)
    IN  /\ ~ VoteAnswered(m)
        /\ \/ /\ m.term < currentTerm[i]
              /\ ReplyVote(m, currentTerm[i], FALSE)
              /\ UNCHANGED <<state, currentTerm, votedFor, logVars, disk>>
           \/ /\ m.term >= currentTerm[i]
              /\ state' = [state EXCEPT ![i] = IF higher THEN Follower ELSE @]
              /\ currentTerm' = [currentTerm EXCEPT ![i] = m.term]
              /\ votedFor' = [votedFor EXCEPT ![i] = IF grant THEN m.from ELSE voted]
              /\ UNCHANGED logVars
              /\ PersistLocked(i)
              /\ ReplyVote(m, m.term, grant)
        /\ UNCHANGED <<leaderID, leaderVars, votes, faultVars, voteRequests,
                       appendCalls, snapshotCalls>>

\* The part of startElection's goroutines that runs when a call returns.
HandleRequestVoteReply(r) ==
    LET i == r.to
        counted == votes[i] \cup {r.from}
    IN  /\ state[i] = Candidate
        /\ currentTerm[i] = r.reqTerm
        /\ \/ /\ r.term > currentTerm[i]
              /\ BecomeFollower(i, r.term)
              /\ UNCHANGED <<logVars, leaderID, leaderVars, votes>>
              /\ PersistLocked(i)
           \/ /\ r.term <= currentTerm[i]
              /\ r.voteGranted
              /\ r.from \notin votes[i]
              /\ votes' = [votes EXCEPT ![i] = counted]
              /\ IF Cardinality(counted) >= quorumSize
                 THEN BecomeLeader(i)
                 ELSE UNCHANGED <<state, leaderID, leaderVars>>
              /\ UNCHANGED <<persistentVars, disk>>
        /\ UNCHANGED <<faultVars, voteCalls, appendCalls, snapshotCalls>>

-----------------------------------------------------------------------------
(* Replication. *)

\* Mutant: the leader, whose matchIndex is kept too, counts itself twice.
AdvancedCommitIndexSelfTwice(i, lg, mi) ==
    LET last == logOffset[i] + Len(lg) - 1
        S == {idx \in commitIndex[i] + 1 .. last :
                 /\ lg[idx - logOffset[i] + 1].term = currentTerm[i]
                 /\ 1 + Cardinality({j \in Server : mi[j] >= idx}) >= quorumSize}
    IN  IF S = {} THEN commitIndex[i] ELSE CHOOSE k \in S : \A l \in S : l <= k

\* advanceCommitIndex: the last index of the leader's own term that a quorum
\* holds, given the leader's log lg and the match indexes mi.
AdvancedCommitIndex(i, lg, mi) ==
    LET last == logOffset[i] + Len(lg) - 1
        S == {idx \in commitIndex[i] + 1 .. last :
                 /\ lg[idx - logOffset[i] + 1].term = currentTerm[i]
                 /\ 1 + Cardinality({j \in Peers(i) : mi[j] >= idx}) >= quorumSize}
    IN  IF S = {} THEN commitIndex[i] ELSE CHOOSE k \in S : \A l \in S : l <= k

\* Start: the leader appends a client's command.
Start(i, c) ==
    /\ state[i] = Leader
    /\ lastLogIndex(i) < MaxLogIndex
    /\ log' = [log EXCEPT ![i] = Append(@, [term |-> currentTerm[i], cmd |-> c])]
    /\ matchIndex' = [matchIndex EXCEPT ![i][i] = lastLogIndex(i) + 1]
    /\ nextIndex' = [nextIndex EXCEPT ![i][i] = lastLogIndex(i) + 2]
    /\ commitIndex' = [commitIndex EXCEPT ![i] =
                           AdvancedCommitIndex(i, log'[i], matchIndex'[i])]
    /\ UNCHANGED <<currentTerm, votedFor, logOffset>>
    /\ PersistLocked(i)
    /\ UNCHANGED <<state, leaderID, votes, faultVars, voteCalls, appendCalls,
                   snapshotCalls>>

AppendsLeft == Cardinality(appendRequests) < MaxAppends

\* sendAppendEntries to peer j, from a heartbeat, an election won or a Start.
\* It sends the whole suffix from nextIndex on, or turns to a snapshot.
SendAppendEntries(i, j) ==
    LET next == IF nextIndex[i][j] = 0 THEN lastLogIndex(i) + 1 ELSE nextIndex[i][j]
        m == [from |-> i, to |-> j, term |-> currentTerm[i],
              prevLogIndex |-> next - 1, prevLogTerm |-> termAt(i, next - 1),
              entries |-> SubSeq(log[i], next - logOffset[i] + 1, Len(log[i])),
              leaderCommit |-> commitIndex[i]]
    IN  /\ state[i] = Leader
        /\ nextIndex' = [nextIndex EXCEPT ![i][j] = next]
        /\ \/ /\ next <= logOffset[i]
              /\ installing' = installing \cup {<<i, j>>}
              /\ UNCHANGED appendRequests
           \/ /\ next > logOffset[i]
              /\ AppendsLeft
              /\ appendRequests' = appendRequests \cup {m}
              /\ UNCHANGED installing
        /\ UNCHANGED <<state, persistentVars, leaderID, matchIndex, votes, disk,
                       faultVars, voteCalls, appendReplies, snapshotRequests,
                       snapshotReplies>>

ReplyAppend(m, term, success, conflictIndex, conflictTerm) ==
    appendReplies' = appendReplies \cup
        {[from |-> m.to, to |-> m.from, reqTerm |-> m.term,
          prevLogIndex |-> m.prevLogIndex, sent |-> Len(m.entries),
          term |-> term, success |-> success,
          conflictIndex |-> conflictIndex, conflictTerm |-> conflictTerm]}

\* The checks of HandleAppendEntries that make it return early, after it has
\* accepted the sender as leader.  These replies carry the term the node had
\* before.
RejectAppend(i, m) ==
    LET prev == m.prevLogIndex
    IN  /\ \/ /\ prev > lastLogIndex(i)
              /\ ReplyAppend(m, currentTerm[i], FALSE, lastLogIndex(i) + 1, 0)
           \/ /\ prev < logOffset[i]
              /\ ReplyAppend(m, currentTerm[i], FALSE, logOffset[i] + 1, 0)
           \/ /\ logOffset[i] <= prev /\ prev <= lastLogIndex(i)
              /\ termAt(i, prev) # m.prevLogTerm
              /\ ReplyAppend(m, currentTerm[i], FALSE, firstIndexOfRun(i, prev),
                             termAt(i, prev))
        /\ UNCHANGED logVars

PrevMatches(i, m) ==
    /\ logOffset[i] <= m.prevLogIndex /\ m.prevLogIndex <= lastLogIndex(i)
    /\ termAt(i, m.prevLogIndex) = m.prevLogTerm

AcceptAppend(i, m) ==
    /\ PrevMatches(i, m)
    /\ log' = [log EXCEPT ![i] = AppendedLog(i, m.prevLogIndex, m.entries)]
    /\ commitIndex' = [commitIndex EXCEPT ![i] =
           IF m.leaderCommit > @
           THEN min(m.leaderCommit, logOffset[i] + Len(log'[i]) - 1) ELSE @]
    /\ UNCHANGED logOffset
    /\ ReplyAppend(m, m.term, TRUE, 0, 0)

\* Mutant: the hint is taken from a call before its term is looked at.
HandleAppendEntriesHintFirst(m) ==
    LET i == m.to
    IN  /\ leaderID' = [leaderID EXCEPT ![i] = m.from]
        /\ \/ /\ m.term < currentTerm[i]
              /\ ReplyAppend(m, currentTerm[i], FALSE, 0, 0)
              /\ UNCHANGED <<state, persistentVars, disk>>
           \/ /\ m.term >= currentTerm[i]
              /\ BecomeFollower(i, m.term)
              /\ RejectAppend(i, m) \/ AcceptAppend(i, m)
              /\ PersistLocked(i)
        /\ UNCHANGED <<leaderVars, votes, faultVars, voteCalls, appendRequests,
                       snapshotCalls>>

HandleAppendEntries(m) ==
    LET i == m.to
    IN  /\ \/ /\ m.term < currentTerm[i]
              /\ ReplyAppend(m, currentTerm[i], FALSE, 0, 0)
              /\ UNCHANGED <<state, persistentVars, leaderID, disk>>
           \/ /\ m.term >= currentTerm[i]
              /\ BecomeFollower(i, m.term)
              /\ leaderID' = [leaderID EXCEPT ![i] = m.from]
              /\ RejectAppend(i, m) \/ AcceptAppend(i, m)
              /\ PersistLocked(i)
        /\ UNCHANGED <<leaderVars, votes, faultVars, voteCalls, appendRequests,
                       snapshotCalls>>

\* Mutant: the hint's index is used as it is, one past the run's first entry.
BackedOffIndexLate(i, r) ==
    IF r.conflictTerm # 0 /\ lastIndexOfTerm(i, r.conflictTerm) > 0
    THEN lastIndexOfTerm(i, r.conflictTerm) + 2 ELSE r.conflictIndex + 1

\* Mutant: a rejection that names no term moves nothing.
BackedOffIndexStuck(i, r) ==
    IF r.conflictTerm = 0 THEN nextIndex[i][r.from]
    ELSE IF lastIndexOfTerm(i, r.conflictTerm) > 0
    THEN lastIndexOfTerm(i, r.conflictTerm) + 1 ELSE r.conflictIndex

\* Where a rejected AppendEntries moves nextIndex.
BackedOffIndex(i, r) ==
    IF r.conflictTerm # 0
    THEN IF lastIndexOfTerm(i, r.conflictTerm) > 0
         THEN lastIndexOfTerm(i, r.conflictTerm) + 1 ELSE r.conflictIndex
    ELSE IF r.conflictIndex > 0 THEN r.conflictIndex
    ELSE max(1, nextIndex[i][r.from] - 1)

\* handleAppendEntriesReply, with the advanceCommitIndex it ends in.
HandleAppendEntriesReply(r) ==
    LET i == r.to
        j == r.from
        matchIdx == r.prevLogIndex + r.sent
    IN  /\ state[i] = Leader
        /\ currentTerm[i] = r.reqTerm
        /\ \/ /\ r.term > currentTerm[i]
              /\ BecomeFollower(i, r.term)
              /\ UNCHANGED <<logVars, leaderVars>>
              /\ PersistLocked(i)
           \/ /\ r.term <= currentTerm[i] /\ r.success
              /\ matchIndex' = [matchIndex EXCEPT ![i][j] = matchIdx]
              /\ nextIndex' = [nextIndex EXCEPT ![i][j] = matchIdx + 1]
              /\ commitIndex' = [commitIndex EXCEPT ![i] =
                                     AdvancedCommitIndex(i, log[i], matchIndex'[i])]
              /\ UNCHANGED <<state, currentTerm, votedFor, log, logOffset>>
              /\ PersistLocked(i)
           \/ /\ r.term <= currentTerm[i] /\ ~ r.success
              /\ nextIndex' = [nextIndex EXCEPT ![i][j] = BackedOffIndex(i, r)]
              /\ UNCHANGED <<state, persistentVars, matchIndex, disk>>
        /\ UNCHANGED <<leaderID, votes, faultVars, voteCalls, appendCalls,
                       snapshotCalls>>

-----------------------------------------------------------------------------
(* Snapshots. *)

\* Mutants: the new log lacks its sentinel, or starts one entry early.
CompactedLogBare(i, index) == SubSeq(log[i], index - logOffset[i] + 2, Len(log[i]))
CompactedLogEarly(i, index) ==
    <<Sentinel(termAt(i, index))>> \o SubSeq(log[i], index - logOffset[i] + 1, Len(log[i]))

CompactedLog(i, index) ==
    <<Sentinel(termAt(i, index))>> \o SubSeq(log[i], index - logOffset[i] + 2, Len(log[i]))

\* Snapshot(index, data), as maybeSnapshot calls it for an applied index.
Snapshot(i, index) ==
    /\ SnapshotThreshold > 0
    /\ index - logOffset[i] >= SnapshotThreshold
    /\ index <= commitIndex[i] /\ index <= lastLogIndex(i)
    /\ log' = [log EXCEPT ![i] = CompactedLog(i, index)]
    /\ logOffset' = [logOffset EXCEPT ![i] = index]
    /\ UNCHANGED <<currentTerm, votedFor, commitIndex>>
    /\ PersistLocked(i)
    /\ UNCHANGED <<state, leaderID, leaderVars, votes, faultVars, voteCalls,
                   appendCalls, snapshotCalls>>

\* sendInstallSnapshot takes the mutex again and looks at the state afresh.
SendInstallSnapshot(i, j) ==
    /\ <<i, j>> \in installing
    /\ installing' = installing \ {<<i, j>>}
    /\ snapshotRequests' =
           IF state[i] # Leader THEN snapshotRequests
           ELSE snapshotRequests \cup
                    {[from |-> i, to |-> j, term |-> currentTerm[i],
                      lastIncludedIndex |-> logOffset[i],
                      lastIncludedTerm |-> log[i][1].term]}
    /\ UNCHANGED <<state, persistentVars, leaderID, leaderVars, votes, disk,
                   faultVars, voteCalls, appendCalls, snapshotReplies>>

\* HandleInstallSnapshot keeps no entry behind the snapshot.
HandleInstallSnapshot(m) ==
    LET i == m.to
        known == m.lastIncludedIndex <= logOffset[i]
    IN  /\ \/ /\ m.term < currentTerm[i]
              /\ UNCHANGED <<state, persistentVars, leaderID, disk>>
           \/ /\ m.term >= currentTerm[i]
              /\ BecomeFollower(i, m.term)
              /\ leaderID' = [leaderID EXCEPT ![i] = m.from]
              /\ IF known THEN UNCHANGED logVars
                 ELSE /\ logOffset' = [logOffset EXCEPT ![i] = m.lastIncludedIndex]
                      /\ log' = [log EXCEPT ![i] = <<Sentinel(m.lastIncludedTerm)>>]
                      /\ commitIndex' = [commitIndex EXCEPT ![i] =
                                             max(@, m.lastIncludedIndex)]
              /\ PersistLocked(i)
        /\ snapshotReplies' = snapshotReplies \cup
               {[from |-> i, to |-> m.from, reqTerm |-> m.term,
                 lastIncludedIndex |-> m.lastIncludedIndex,
                 term |-> max(currentTerm[i], m.term)]}
        /\ UNCHANGED <<leaderVars, votes, faultVars, voteCalls, appendCalls,
                       installing, snapshotRequests>>

HandleInstallSnapshotReply(r) ==
    LET i == r.to
        j == r.from
    IN  /\ state[i] = Leader
        /\ currentTerm[i] = r.reqTerm
        /\ \/ /\ r.term > currentTerm[i]
              /\ BecomeFollower(i, r.term)
              /\ UNCHANGED <<logVars, leaderVars>>
              /\ PersistLocked(i)
           \/ /\ r.term <= currentTerm[i]
              /\ matchIndex' = [matchIndex EXCEPT ![i][j] = r.lastIncludedIndex]
              /\ nextIndex' = [nextIndex EXCEPT ![i][j] = r.lastIncludedIndex + 1]
              /\ UNCHANGED <<state, persistentVars, disk>>
        /\ UNCHANGED <<leaderID, votes, faultVars, voteCalls, appendCalls,
                       snapshotCalls>>

-----------------------------------------------------------------------------
(* Crashes and disks. *)

\* Mutant: the saved commit index is not used.
RestoredCommitDropped(s) == s.logOffset

\* The saved commit index, clamped to the log that was saved with it.
RestoredCommit(s) ==
    min(max(s.commitIndex, s.logOffset), s.logOffset + Len(s.log) - 1)

\* NewRaft from the saved state s, after a crash lost everything else.
NewRaft(i, s) ==
    /\ state' = [state EXCEPT ![i] = Follower]
    /\ currentTerm' = [currentTerm EXCEPT ![i] = s.currentTerm]
    /\ votedFor' = [votedFor EXCEPT ![i] = s.votedFor]
    /\ log' = [log EXCEPT ![i] = s.log]
    /\ logOffset' = [logOffset EXCEPT ![i] = s.logOffset]
    /\ commitIndex' = [commitIndex EXCEPT ![i] = RestoredCommit(s)]
    /\ leaderID' = [leaderID EXCEPT ![i] = Nil]
    /\ nextIndex' = [nextIndex EXCEPT ![i] = [j \in Server |-> 0]]
    /\ matchIndex' = [matchIndex EXCEPT ![i] = [j \in Server |-> 0]]
    /\ votes' = [votes EXCEPT ![i] = {}]
    /\ installing' = {p \in installing : p[1] # i}

Crash(i, s) ==
    /\ restarts < MaxRestarts
    /\ i \in diskFull => RestartFull
    /\ restarts' = restarts + 1
    /\ disk' = [disk EXCEPT ![i] = s]
    /\ diskFull' = diskFull \ {i}
    /\ NewRaft(i, s)
    /\ UNCHANGED <<voteCalls, appendCalls, snapshotRequests, snapshotReplies>>

Restart(i) == Crash(i, disk[i])

\* A handler that meets a higher term saves it before anything else; a crash
\* there leaves the term on disk and the rest of the handler undone.
CrashAfterTermSave(i) ==
    \E m \in voteRequests \cup appendRequests \cup snapshotRequests :
        /\ m.to = i
        /\ m.term > currentTerm[i]
        /\ i \notin diskFull
        /\ Crash(i, [Saved(i) EXCEPT !.currentTerm = m.term, !.votedFor = Nil])

\* Start and HandleAppendEntries save the log before they move and save
\* commitIndex.
CrashAfterStartSave(i, c) ==
    /\ state[i] = Leader
    /\ lastLogIndex(i) < MaxLogIndex
    /\ i \notin diskFull
    /\ Crash(i, [Saved(i) EXCEPT
                  !.log = Append(log[i], [term |-> currentTerm[i], cmd |-> c])])

CrashAfterLogSave(i) ==
    \E m \in appendRequests :
        /\ m.to = i
        /\ m.term >= currentTerm[i]
        /\ PrevMatches(i, m)
        /\ m.leaderCommit > commitIndex[i]
        /\ i \notin diskFull
        /\ Crash(i, [Saved(i) EXCEPT
                  !.currentTerm = m.term,
                  !.votedFor = IF m.term > currentTerm[i] THEN Nil ELSE @,
                  !.log = AppendedLog(i, m.prevLogIndex, m.entries)])

\* From here on storage.Save fails on i, until it is restarted.
DiskFills(i) ==
    /\ Cardinality(diskFull) < MaxDiskFull
    /\ i \notin diskFull
    /\ diskFull' = diskFull \cup {i}
    /\ UNCHANGED <<state, persistentVars, leaderID, leaderVars, votes, disk,
                   restarts, voteCalls, appendCalls, snapshotCalls>>

-----------------------------------------------------------------------------
\* Every node starts from an empty storage.
Init ==
    /\ state = [i \in Server |-> Follower]
    /\ currentTerm = [i \in Server |-> 0]
    /\ votedFor = [i \in Server |-> Nil]
    /\ log = [i \in Server |-> <<Sentinel(0)>>]
    /\ logOffset = [i \in Server |-> 0]
    /\ commitIndex = [i \in Server |-> 0]
    /\ leaderID = [i \in Server |-> Nil]
    /\ nextIndex = [i \in Server |-> [j \in Server |-> 0]]
    /\ matchIndex = [i \in Server |-> [j \in Server |-> 0]]
    /\ votes = [i \in Server |-> {}]
    /\ disk = [i \in Server |-> Saved(i)]
    /\ diskFull = {} /\ restarts = 0
    /\ voteRequests = {} /\ voteReplies = {}
    /\ appendRequests = {} /\ appendReplies = {}
    /\ installing = {} /\ snapshotRequests = {} /\ snapshotReplies = {}

Next ==
    \/ \E i \in Server : StartElection(i)
    \/ \E m \in voteRequests : HandleRequestVote(m)
    \/ \E r \in voteReplies : HandleRequestVoteReply(r)
    \/ \E i \in Server, c \in Command : Start(i, c)
    \/ \E i \in Server : \E j \in Peers(i) : SendAppendEntries(i, j)
    \/ \E m \in appendRequests : HandleAppendEntries(m)
    \/ \E r \in appendReplies : HandleAppendEntriesReply(r)
    \/ \E i \in Server : \E index \in logOffset[i] + 1 .. commitIndex[i] :
           Snapshot(i, index)
    \/ \E i \in Server : \E j \in Peers(i) : SendInstallSnapshot(i, j)
    \/ \E m \in snapshotRequests : HandleInstallSnapshot(m)
    \/ \E r \in snapshotReplies : HandleInstallSnapshotReply(r)
    \/ \E i \in Server : Restart(i)
    \/ \E i \in Server : CrashAfterTermSave(i)
    \/ \E i \in Server, c \in Command : CrashAfterStartSave(i, c)
    \/ \E i \in Server : CrashAfterLogSave(i)
    \/ \E i \in Server : DiskFills(i)

Spec == Init /\ [][Next]_vars

-----------------------------------------------------------------------------
(* Types. *)

PersistentState ==
    [currentTerm : Nat, votedFor : Server \cup {Nil}, log : Seq(Entry),
     logOffset : Nat, commitIndex : Nat]

VoteRequest ==
    [from : Server, to : Server, term : Nat, lastLogIndex : Nat, lastLogTerm : Nat]
VoteReply ==
    [from : Server, to : Server, reqTerm : Nat, term : Nat, voteGranted : BOOLEAN]
AppendRequest ==
    [from : Server, to : Server, term : Nat, prevLogIndex : Nat,
     prevLogTerm : Int, entries : Seq(Entry), leaderCommit : Nat]
AppendReply ==
    [from : Server, to : Server, reqTerm : Nat, prevLogIndex : Nat, sent : Nat,
     term : Nat, success : BOOLEAN, conflictIndex : Nat, conflictTerm : Nat]
SnapshotRequest ==
    [from : Server, to : Server, term : Nat, lastIncludedIndex : Nat,
     lastIncludedTerm : Nat]
SnapshotReply ==
    [from : Server, to : Server, reqTerm : Nat, lastIncludedIndex : Nat,
     term : Nat]

\* The state of every node and every call keeps its type; in particular no
\* log ever loses its sentinel, the "sentinel entry to simplify boundary checks"
\* of NewRaft, without which lastLogIndex would fall behind logOffset.
TypeOK ==
    /\ state \in [Server -> {Follower, Candidate, Leader}]
    /\ currentTerm \in [Server -> Nat]
    /\ votedFor \in [Server -> Server \cup {Nil}]
    /\ log \in [Server -> Seq(Entry)]
    /\ \A i \in Server : log[i] # <<>>
    /\ logOffset \in [Server -> Nat]
    /\ commitIndex \in [Server -> Nat]
    /\ leaderID \in [Server -> Server \cup {Nil}]
    /\ nextIndex \in [Server -> [Server -> Nat]]
    /\ matchIndex \in [Server -> [Server -> Nat]]
    /\ votes \in [Server -> SUBSET Server]
    /\ disk \in [Server -> PersistentState]
    /\ \A i \in Server : disk[i].log # <<>>
    /\ diskFull \subseteq Server
    /\ restarts \in Nat
    /\ voteRequests \subseteq VoteRequest
    /\ voteReplies \subseteq VoteReply
    /\ appendRequests \subseteq AppendRequest
    /\ appendReplies \subseteq AppendReply
    /\ installing \subseteq Server \X Server
    /\ snapshotRequests \subseteq SnapshotRequest
    /\ snapshotReplies \subseteq SnapshotReply

-----------------------------------------------------------------------------
(* Safety. *)

Retained(i) == logOffset[i] + 1 .. lastLogIndex(i)
EntryAt(i, idx) == log[i][idx - logOffset[i] + 1]

\* No term has two leaders, whatever HandleRequestVote and the election
\* goroutines interleave with, and across crashes between saving and replying.
ElectionSafety ==
    \A i, j \in Server :
        state[i] = Leader /\ state[j] = Leader /\ currentTerm[i] = currentTerm[j]
        => i = j

Requested(i, t) == \E m \in voteRequests : m.from = i /\ m.term = t
Granted(j, i, t) ==
    \E r \in voteReplies :
        r.voteGranted /\ r.from = j /\ r.to = i /\ r.reqTerm = t

\* A vote binds the voter from the moment HandleRequestVote replies, or
\* startElection votes for itself, until it leaves the term, whatever crashes
\* come between: each node supports one candidate per term, and a candidate or
\* leader counts only votes it was given in its own term.
VotesBinding ==
    /\ \A r \in voteReplies : r.voteGranted =>
           /\ r.from # r.to
           /\ \/ currentTerm[r.from] > r.reqTerm
              \/ currentTerm[r.from] = r.reqTerm /\ votedFor[r.from] = r.to
           /\ ~ Requested(r.from, r.reqTerm)
           /\ \A i \in Server : Granted(r.from, i, r.reqTerm) => i = r.to
    /\ \A m \in voteRequests :
           /\ m.from # m.to
           /\ \/ currentTerm[m.from] > m.term
              \/ currentTerm[m.from] = m.term /\ votedFor[m.from] = m.from
    /\ \A i \in Server : state[i] # Follower =>
           /\ votedFor[i] = i
           /\ Peers(i) # {} => Requested(i, currentTerm[i])
           /\ \A j \in votes[i] \ {i} : Granted(j, i, currentTerm[i])
           /\ state[i] = Leader => Cardinality(votes[i]) >= quorumSize

\* If two logs have an entry of the same index and term, they agree on every
\* entry both retain up to it: what the consistency check of
\* HandleAppendEntries and the truncation behind it are for.
LogMatching ==
    \A i, j \in Server :
        \A idx \in Retained(i) \cap Retained(j) :
            termAt(i, idx) = termAt(j, idx)
            => \A k \in Retained(i) \cap Retained(j) :
                   k <= idx => EntryAt(i, k) = EntryAt(j, k)

\* Two nodes never hold different entries at an index both believe committed:
\* commitIndex, as advanceCommitIndex and HandleAppendEntries move it, only
\* ever covers entries no other node will replace.
CommittedAgree ==
    \A i, j \in Server :
        \A idx \in Retained(i) \cap Retained(j) :
            idx <= commitIndex[i] /\ idx <= commitIndex[j]
            => EntryAt(i, idx) = EntryAt(j, idx)

\* A leader has every entry that a node of its own or an earlier term knows
\* to be committed: the votes isUpToDate refuses and the current-term rule of
\* advanceCommitIndex together guarantee it.
LeaderCompleteness ==
    \A i, k \in Server :
        state[i] = Leader /\ currentTerm[k] <= currentTerm[i]
        => \A idx \in Retained(k) :
               idx <= commitIndex[k] /\ idx > logOffset[i]
               => idx \in Retained(i) /\ EntryAt(i, idx) = EntryAt(k, idx)

\* Every node whose log would win it a quorum of votes (isUpToDate, now, by
\* the logs alone) holds every committed entry.  The comment "Only commit
\* entries from current term" in advanceCommitIndex is about this: an entry of
\* an earlier term on a quorum is not yet safe.
ElectableHasCommitted ==
    \A i, k \in Server :
        Cardinality({j \in Server : isUpToDate(j, lastLogIndex(i), lastLogTerm(i))})
            >= quorumSize
        => \A idx \in Retained(k) :
               idx <= commitIndex[k] /\ idx > logOffset[i]
               => idx \in Retained(i) /\ EntryAt(i, idx) = EntryAt(k, idx)

\* What a leader believes a peer holds, the peer holds, as long as it has not
\* moved to a later term.  Late replies may lower matchIndex (it is assigned,
\* not maximised) but never make it promise what is not there.
MatchIndexSound ==
    \A i, j \in Server :
        state[i] = Leader /\ currentTerm[j] = currentTerm[i]
        => /\ matchIndex[i][j] <= lastLogIndex(j)
           /\ \A idx \in Retained(i) \cap Retained(j) :
                  idx <= matchIndex[i][j] => EntryAt(i, idx) = EntryAt(j, idx)

\* A leader's nextIndex is never 0 nor more than one past its log, so the
\* slice r.log[nextIdx-logOffset:] of sendAppendEntries never panics, however
\* late the reply whose conflict hint set it.
NextIndexInRange ==
    \A i \in Server : state[i] = Leader =>
        \A j \in Server : 1 <= nextIndex[i][j] /\ nextIndex[i][j] <= lastLogIndex(i) + 1

\* Every state another node can observe is on disk already, while the disk
\* accepts writes: no reply is based on state a crash would lose.  (Only where
\* no snapshot discards a log: see CommittedStable.)
Durable ==
    \A i \in Server \ diskFull : disk[i] = Saved(i)

\* The part of it elections rest on, which holds with snapshots too: startElection,
\* HandleRequestVote and becomeFollowerLocked save term and vote before any
\* other node can learn of them.
VoteDurable ==
    \A i \in Server \ diskFull :
        disk[i].currentTerm = currentTerm[i] /\ disk[i].votedFor = votedFor[i]

-----------------------------------------------------------------------------
(* What a step may never do. *)

VoteKept ==
    \A i \in Server :
        /\ currentTerm'[i] >= currentTerm[i]
        /\ currentTerm'[i] = currentTerm[i] /\ votedFor[i] # Nil
           => votedFor'[i] = votedFor[i]

\* The term of a node never decreases and its vote in a term never changes,
\* also when the step is a crash and NewRaft.
VoteOncePerTerm ==
    [][VoteKept]_vars

\* A committed entry is never removed or replaced, except by a snapshot that
\* covers it, and commitIndex never decreases; crashes included.
CommittedStable ==
    [][\A i \in Server :
           /\ commitIndex'[i] >= commitIndex[i]
           /\ \A idx \in Retained(i) :
                  idx <= commitIndex[i] /\ idx > logOffset'[i]
                  => idx \in Retained(i)' /\ EntryAt(i, idx)' = EntryAt(i, idx)]_vars

=============================================================================
