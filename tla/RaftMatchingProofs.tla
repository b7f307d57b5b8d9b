------------------------- MODULE RaftMatchingProofs -------------------------
(***************************************************************************)
(* The log matching property of module Raft, for every cluster size and    *)
(* every bound, with snapshots and crashes: if two logs have an entry of   *)
(* the same index and term, they agree up to it.                           *)
(***************************************************************************)
EXTENDS RaftElectionProofs, RaftCopyProofs

\* A quorum has voted for i in term t.
Elected(i, t) ==
    /\ \E Q \in SUBSET Server :
           Cardinality(Q) >= quorumSize /\ \A j \in Q \ {i} : Granted(j, i, t)
    /\ Peers(i) # {} => Requested(i, t)

\* Someone was elected in term t and has stopped being a candidate in it.
Crowned(t) ==
    t \in Nat /\ \E i \in Server :
        /\ Elected(i, t)
        /\ currentTerm[i] >= t
        /\ currentTerm[i] = t => state[i] # Candidate

\* Only an elected leader creates entries of its term.
TermsCrowned == \A c \in Copies : \A n \in Held(c) : Crowned(At(c, n).term)

\* A leader's log reaches as far as any entry of its term.
LeaderOwns ==
    \A i \in Server : state[i] = Leader =>
        \A c \in Copies : \A n \in Held(c) :
            At(c, n).term = currentTerm[i] => n <= lastLogIndex(i)

\* The inductive invariant.
MatchingInv == ElectionInv /\ Matching /\ TermsCrowned /\ LeaderOwns

-----------------------------------------------------------------------------
(* Elections and terms. *)

\* Two quorums share a voter, so no term elects two nodes.
LEMMA ElectedUnique ==
    TypeOK /\ VotesBinding =>
        \A i, j \in Server : \A t : Elected(i, t) /\ Elected(j, t) => i = j
<1> SUFFICES ASSUME TypeOK, VotesBinding, NEW i \in Server, NEW j \in Server, NEW t,
                    Elected(i, t), Elected(j, t), i # j
             PROVE  FALSE
  BY Zenon
<1>1. PICK P \in SUBSET Server :
          Cardinality(P) >= quorumSize /\ \A k \in P \ {i} : Granted(k, i, t)
  BY Zenon DEF Elected
<1>2. PICK Q \in SUBSET Server :
          Cardinality(Q) >= quorumSize /\ \A k \in Q \ {j} : Granted(k, j, t)
  BY Zenon DEF Elected
<1>3. Requested(i, t) /\ Requested(j, t)
  BY Zenon DEF Elected, Peers
<1>4. \A k, l : Granted(k, l, t) => ~ Requested(k, t)
  BY DEF VotesBinding, Granted
<1>5. PICK v \in Server : v \in P /\ v \in Q
  <2>1. Cardinality(Server) \in Nat /\ IsFiniteSet(Server)
    BY ServerAssumption, FS_CardinalityType, Zenon
  <2>2. Cardinality(P) \in Nat /\ Cardinality(Q) \in Nat
    BY <2>1, FS_Subset, FS_CardinalityType, Zenon
  <2>3. Cardinality(P) + Cardinality(Q) > Cardinality(Server)
    BY <1>1, <1>2, <2>1, <2>2 DEF quorumSize
  <2> QED  BY <2>1, <2>3, FS_MajoritiesIntersect, Zenon
<1>6. CASE v = i \/ v = j
  BY <1>1, <1>2, <1>3, <1>4, <1>5, <1>6, Zenon
<1>7. CASE v # i /\ v # j
  <2>1. Granted(v, i, t) /\ Granted(v, j, t)
    BY <1>1, <1>2, <1>5, <1>7, Zenon
  <2> QED  BY <2>1 DEF VotesBinding, Granted
<1> QED  BY <1>6, <1>7, Zenon

\* A leader was elected in its term.
LEMMA LeaderElected ==
    TypeOK /\ VotesBinding =>
        \A i \in Server : state[i] = Leader => Elected(i, currentTerm[i])
<1> SUFFICES ASSUME TypeOK, VotesBinding, NEW i \in Server, state[i] = Leader
             PROVE  Elected(i, currentTerm[i])
  BY Zenon
<1>1. /\ Cardinality(votes[i]) >= quorumSize
      /\ \A j \in votes[i] \ {i} : Granted(j, i, currentTerm[i])
      /\ Peers(i) # {} => Requested(i, currentTerm[i])
  BY Zenon DEF VotesBinding, Leader, Follower
<1>2. votes[i] \in SUBSET Server
  BY Zenon DEF TypeOK
<1> QED  BY <1>1, <1>2, Zenon DEF Elected

\* Terms only grow, a candidacy only starts in a new term, and a node that
\* becomes leader was a candidate in the term or starts it.
TermsMove ==
    /\ voteRequests \subseteq voteRequests' /\ voteReplies \subseteq voteReplies'
    /\ \A i \in Server :
           /\ currentTerm'[i] >= currentTerm[i]
           /\ currentTerm'[i] = currentTerm[i] =>
                  /\ state'[i] = Candidate => state[i] = Candidate
                  /\ state'[i] = Leader => state[i] # Follower

\* Every step moves terms and roles this way.
LEMMA StepMovesTerms ==
    ASSUME ElectionInv, [Next]_vars
    PROVE  TermsMove
<1> USE DEF ElectionInv
<1>1. \A i \in Server : currentTerm[i] \in Nat /\ currentTerm'[i] \in Nat
  BY TypeNext, Zenon DEF TypeOK
<1>2. VoteKept
  BY StepKeepsVotes, Zenon
<1>3. CASE Quiet
  BY <1>1, <1>2, <1>3, Zenon
  DEF TermsMove, Quiet, Kept, Followed, VoteKept, voteCalls, Follower, Candidate, Leader
<1>4. ASSUME NEW i \in Server, StartElection(i)
      PROVE  /\ voteRequests \subseteq voteRequests' /\ voteReplies \subseteq voteReplies'
             /\ currentTerm'[i] # currentTerm[i]
             /\ \A k \in Server \ {i} : state'[k] = state[k]
  <2>1. currentTerm'[i] = currentTerm[i] + 1
    BY <1>4, Zenon DEF StartElection, TypeOK
  <2>2. \E st : state' = [state EXCEPT ![i] = st]
    BY <1>4, Zenon DEF StartElection, BecomeLeader
  <2>3. voteRequests \subseteq voteRequests' /\ voteReplies \subseteq voteReplies'
    BY <1>4, Zenon DEF StartElection
  <2> QED  BY <1>1, <2>1, <2>2, <2>3 DEF TypeOK
<1>5. ASSUME NEW m \in voteRequests, HandleRequestVote(m)
      PROVE  /\ voteRequests \subseteq voteRequests' /\ voteReplies \subseteq voteReplies'
             /\ \A k \in Server : state'[k] \in {state[k], Follower}
  <2>1. m.to \in Server
    BY Zenon DEF TypeOK, VoteRequest
  <2>2. \/ state' = state
        \/ state' = [state EXCEPT ![m.to] = IF m.term > currentTerm[m.to] THEN Follower ELSE @]
    BY <1>5, Zenon DEF HandleRequestVote
  <2>3. voteRequests' = voteRequests
    BY <1>5, Zenon DEF HandleRequestVote
  <2>4. voteReplies \subseteq voteReplies'
    BY <1>5, Zenon DEF HandleRequestVote, ReplyVote
  <2> QED  BY <2>1, <2>2, <2>3, <2>4, Zenon DEF TypeOK
<1>6. ASSUME NEW r \in voteReplies, HandleRequestVoteReply(r)
      PROVE  /\ voteRequests \subseteq voteRequests' /\ voteReplies \subseteq voteReplies'
             /\ \A k \in Server : \/ state'[k] \in {state[k], Follower}
                                  \/ state[k] = Candidate /\ state'[k] = Leader
  <2>1. r.to \in Server
    BY Zenon DEF TypeOK, VoteReply
  <2>2. \/ state' = state \/ state' = [state EXCEPT ![r.to] = Follower]
        \/ state' = [state EXCEPT ![r.to] = Leader] /\ state[r.to] = Candidate
    BY <1>6, Zenon DEF HandleRequestVoteReply, BecomeFollower, BecomeLeader
  <2>3. UNCHANGED <<voteRequests, voteReplies>>
    BY <1>6, Zenon DEF HandleRequestVoteReply, voteCalls
  <2> QED  BY <2>1, <2>2, <2>3, Zenon DEF TypeOK
<1> QED
  BY <1>1, <1>2, <1>3, <1>4, <1>5, <1>6, QuietOrElection, Zenon
  DEF VoteKept, TermsMove, Follower, Candidate, Leader

\* The two lemmas above, after a step.
LEMMA ElectedNext ==
    (TypeOK /\ VotesBinding =>
        /\ \A i, j \in Server : \A t : Elected(i, t) /\ Elected(j, t) => i = j
        /\ \A i \in Server : state[i] = Leader => Elected(i, currentTerm[i]))'
<1>1. TypeOK /\ VotesBinding =>
        /\ \A i, j \in Server : \A t : Elected(i, t) /\ Elected(j, t) => i = j
        /\ \A i \in Server : state[i] = Leader => Elected(i, currentTerm[i])
  BY ElectedUnique, LeaderElected, Zenon
<1> QED  BY <1>1, PTL

\* What was elected stays elected, and who crowned a term never runs in it again.
LEMMA CrownedStays ==
    ASSUME TypeOK, TypeOK', TermsMove, NEW t, Crowned(t)
    PROVE  Crowned(t)'
<1> t \in Nat
  BY Zenon DEF Crowned
<1>1. PICK i \in Server : /\ Elected(i, t) /\ currentTerm[i] >= t
                          /\ currentTerm[i] = t => state[i] # Candidate
  BY Zenon DEF Crowned
<1>2. /\ \A j : Granted(j, i, t) => Granted(j, i, t)'
      /\ Requested(i, t) => Requested(i, t)'
  BY Zenon DEF TermsMove, Granted, Requested
<1>3. Elected(i, t)'
  <2>1. PICK Q \in SUBSET Server :
            Cardinality(Q) >= quorumSize /\ \A j \in Q \ {i} : Granted(j, i, t)
    BY <1>1, Zenon DEF Elected
  <2>2. \A j \in Q \ {i} : Granted(j, i, t)'
    BY <1>2, <2>1, Zenon
  <2>3. Peers(i) # {} => Requested(i, t)'
    BY <1>1, <1>2, Zenon DEF Elected
  <2> QED  BY <2>1, <2>2, <2>3, Zenon DEF Elected
<1>4. currentTerm[i] \in Nat /\ currentTerm'[i] \in Nat
  BY Zenon DEF TypeOK
<1>5. currentTerm'[i] >= t /\ (currentTerm'[i] = t => state'[i] # Candidate)
  BY <1>1, <1>4 DEF TermsMove
<1> QED  BY <1>3, <1>5, Zenon DEF Crowned

\* When a node becomes leader, there is no entry of its term yet.
LEMMA NewLeaderFirst ==
    ASSUME ElectionInv, ElectionInv', TermsMove, NEW i \in Server, state'[i] = Leader,
           ~ (state[i] = Leader /\ currentTerm'[i] = currentTerm[i]),
           Crowned(currentTerm'[i])
    PROVE  FALSE
<1> USE DEF ElectionInv
<1>1. PICK t \in Nat : t = currentTerm'[i]
  BY Zenon DEF TypeOK
<1>2. PICK j \in Server : /\ Elected(j, t) /\ currentTerm[j] >= t
                          /\ currentTerm[j] = t => state[j] # Candidate
  BY <1>1, Zenon DEF Crowned
<1>3. Elected(j, t)'
  <2>1. PICK Q \in SUBSET Server :
            Cardinality(Q) >= quorumSize /\ \A k \in Q \ {j} : Granted(k, j, t)
    BY <1>2, Zenon DEF Elected
  <2>2. /\ \A k : Granted(k, j, t) => Granted(k, j, t)'
        /\ Requested(j, t) => Requested(j, t)'
    BY Zenon DEF TermsMove, Granted, Requested
  <2> QED  BY <1>2, <2>1, <2>2, Zenon DEF Elected
<1>4. Elected(i, currentTerm[i])'
  BY ElectedNext, Zenon
<1>5. i = j
  BY <1>1, <1>3, <1>4, ElectedNext, Zenon DEF Elected
<1>6. currentTerm[i] \in Nat /\ currentTerm'[i] \in Nat /\ state[i] \in {Follower, Candidate, Leader}
  BY Zenon DEF TypeOK
<1> QED  BY <1>1, <1>2, <1>5, <1>6 DEF TermsMove, Follower, Candidate, Leader

-----------------------------------------------------------------------------
(* One new copy. *)

\* Some copy has an entry of index n and term t.
Known(n, t) == \E d \in Copies : n \in Held(d) /\ At(d, n).term = t

\* c agrees with every copy and has no entry that none of them has.
Derived(c) ==
    /\ \A d \in Copies : Agree(c, d)
    /\ \A n \in Held(c) : Known(n, At(c, n).term)

\* The leader of term t writes an entry of index n in this step.
Written(n, t) ==
    \E i \in Server : /\ state[i] = Leader /\ currentTerm[i] = t
                      /\ state'[i] = Leader => n <= lastLogIndex(i)'

\* The invariant is kept by a step that adds one copy, if that agrees with the
\* others and its entries are old or written by a leader.
LEMMA MatchingStep ==
    ASSUME MatchingInv, ElectionInv', [Next]_vars, NEW c,
    Copies' \subseteq Copies \cup {c},
           \A d \in Copies : Agree(c, d),
           \A n \in Held(c) : Known(n, At(c, n).term) \/ Written(n, At(c, n).term),
           \A i \in Server : state'[i] = Leader => lastLogIndex(i)' >= lastLogIndex(i)
    PROVE  MatchingInv'
<1> USE DEF MatchingInv, ElectionInv
<1>1. TermsMove
  BY StepMovesTerms, Zenon
<1>2. ASSUME NEW n, NEW t, Known(n, t) \/ Written(n, t)
      PROVE  Crowned(t)
  <2>1. CASE Known(n, t)
    BY <2>1, Zenon DEF Known, TermsCrowned
  <2>2. CASE Written(n, t)
    <3>1. PICK i \in Server : state[i] = Leader /\ currentTerm[i] = t
      BY <2>2, Zenon DEF Written
    <3>2. Elected(i, t) /\ t \in Nat
      BY <3>1, LeaderElected, Zenon DEF TypeOK
    <3> QED  BY <3>1, <3>2 DEF Crowned, Leader, Candidate
  <2> QED  BY <1>2, <2>1, <2>2, Zenon
<1>3. ASSUME NEW d \in Copies', NEW n \in Held(d)
      PROVE  Known(n, At(d, n).term) \/ Written(n, At(d, n).term)
  BY <1>3, Zenon DEF Known
<1>4. Matching'
  <2>1. ASSUME NEW d \in Copies \cup {c}, NEW e \in Copies \cup {c} PROVE Agree(d, e)
    <3>1. Agree(c, c)
      BY Zenon DEF Agree
    <3> QED  BY <3>1, AgreeSymmetric, Zenon DEF Matching
  <2> QED  BY <2>1, Zenon DEF Matching, Agree, At, Held, Span, End
<1>5. TermsCrowned'
  <2> SUFFICES ASSUME NEW d \in Copies', NEW n \in Held(d) PROVE Crowned(At(d, n).term)'
    BY Zenon DEF TermsCrowned, Held, At, End
  <2> QED  BY <1>1, <1>2, <1>3, CrownedStays, Zenon
<1>6. LeaderOwns'
  <2> SUFFICES ASSUME NEW i \in Server, state'[i] = Leader, NEW d \in Copies',
  NEW n \in Held(d),
                      At(d, n).term = currentTerm'[i]
               PROVE  n <= lastLogIndex(i)'
    BY Zenon DEF LeaderOwns, Held, At, End
  <2>1. state[i] = Leader /\ currentTerm'[i] = currentTerm[i]
    BY <1>1, <1>2, <1>3, NewLeaderFirst, Zenon
  <2>2. CASE Known(n, currentTerm[i])
    <3>1. PICK e \in Copies : n \in Held(e) /\ At(e, n).term = currentTerm[i]
      BY <2>2, Zenon DEF Known
    <3>2. n <= lastLogIndex(i) /\ lastLogIndex(i)' >= lastLogIndex(i)
      BY <2>1, <3>1, Zenon DEF LeaderOwns
    <3>3. n \in Int
      BY <3>1, AllCopies DEF Held, IsCopy
    <3>4. lastLogIndex(i) \in Int /\ lastLogIndex(i)' \in Int
      <4>1. /\ log[i] \in Seq(Entry) /\ log'[i] \in Seq(Entry)
            /\ logOffset[i] \in Nat /\ logOffset'[i] \in Nat
        BY Zenon DEF TypeOK
      <4>2. Len(log[i]) \in Nat /\ Len(log'[i]) \in Nat
        BY <4>1, LenProperties, Zenon
      <4> QED  BY <4>1, <4>2 DEF lastLogIndex
    <3> QED  BY <3>2, <3>3, <3>4
  <2>3. CASE Written(n, currentTerm[i])
    <3>1. PICK j \in Server : /\ state[j] = Leader /\ currentTerm[j] = currentTerm[i]
                              /\ state'[j] = Leader => n <= lastLogIndex(j)'
      BY <2>3, Zenon DEF Written
    <3>2. i = j
      BY <2>1, <3>1, ElectedUnique, LeaderElected, Zenon
    <3> QED  BY <3>1, <3>2, Zenon
  <2> QED  BY <1>3, <2>1, <2>2, <2>3, Zenon
<1> QED  BY <1>4, <1>5, <1>6, Zenon

\* A step at one node, which may save, leaves at most its new log behind.
LEMMA NodeStep ==
    ASSUME MatchingInv, ElectionInv', [Next]_vars, NEW i \in Server, NEW offset \in Nat,
           NEW lg \in Seq(Entry), lg # <<>>,
           log' = [log EXCEPT ![i] = lg], logOffset' = [logOffset EXCEPT ![i] = offset],
           \/ disk' = disk
           \/ \E s : disk' = [disk EXCEPT ![i] = s] /\ s.log = lg /\ s.logOffset = offset,
           UNCHANGED appendRequests,
           \A d \in Copies : Agree(Copy(offset, lg), d),
           \A n \in Held(Copy(offset, lg)) :
               LET t == At(Copy(offset, lg), n).term IN Known(n, t) \/ Written(n, t),
           state'[i] = Leader => End(Copy(offset, lg)) >= lastLogIndex(i)
    PROVE  MatchingInv'
<1> USE DEF MatchingInv, ElectionInv
<1> DEFINE c == Copy(offset, lg)
<1>1. /\ log'[i] = lg /\ logOffset'[i] = offset
      /\ \A k \in Server \ {i} : log'[k] = log[k] /\ logOffset'[k] = logOffset[k]
  BY Zenon DEF TypeOK
<1>2. \A k \in Server : NodeCopy(k)' \in Copies \cup {c}
  <2>1. NodeCopy(i)' = c
    BY <1>1, Zenon DEF NodeCopy
  <2>2. ASSUME NEW k \in Server \ {i} PROVE NodeCopy(k)' = NodeCopy(k)
    BY <1>1, Zenon DEF NodeCopy
  <2> QED  BY <2>1, <2>2, Zenon DEF Copies
<1>3. \A k \in Server : DiskCopy(k)' \in Copies \cup {c}
  <2>1. CASE disk' = disk
    BY <2>1, Zenon DEF DiskCopy, Copies
  <2>2. ASSUME NEW s, disk' = [disk EXCEPT ![i] = s], s.log = lg, s.logOffset = offset
        PROVE  \A k \in Server : DiskCopy(k)' \in Copies \cup {c}
    <3>1. disk'[i] = s /\ \A k \in Server \ {i} : disk'[k] = disk[k]
      BY <2>2, Zenon DEF TypeOK
    <3>2. DiskCopy(i)' = c
      BY <2>2, <3>1, Zenon DEF DiskCopy
    <3>3. ASSUME NEW k \in Server \ {i} PROVE DiskCopy(k)' = DiskCopy(k)
      BY <3>1, Zenon DEF DiskCopy
    <3> QED  BY <3>2, <3>3, Zenon DEF Copies
  <2> QED  BY <2>1, <2>2, Zenon
<1>4. Copies' \subseteq Copies \cup {c}
  <2> SUFFICES ASSUME NEW d \in Copies' PROVE d \in Copies \cup {c}
    BY Zenon
  <2>1. CASE \E m \in appendRequests : d = CallCopy(m)
    BY <2>1, Zenon DEF Copies
  <2> QED  BY <1>2, <1>3, <2>1, Zenon DEF Copies, CallCopy, Copy
<1>5. ASSUME NEW k \in Server, state'[k] = Leader PROVE lastLogIndex(k)' >= lastLogIndex(k)
  <2>1. lastLogIndex(k) \in Int
    BY LogFacts
  <2>2. CASE k = i
    BY <1>1, <1>5, <2>2, LogCopies DEF lastLogIndex
  <2>3. CASE k # i
    BY <1>1, <2>1, <2>3 DEF lastLogIndex
  <2> QED  BY <2>2, <2>3, Zenon
<1> HIDE DEF c
<1> QED  BY <1>4, <1>5, MatchingStep, Zenon DEF c

\* An old copy, a section of one, an end alone and two spliced copies are derived.
LEMMA DerivedCopies ==
    ASSUME TypeOK, Matching
    PROVE  /\ \A c \in Copies : Derived(c)
           /\ \A a \in Copies : \A c : IsCopy(c) /\ Part(c, a) => Derived(c)
           /\ \A c : Held(c) = {} => Derived(c)
           /\ \A a, m \in Copies : \A p \in Nat :
                  \A c : IsCopy(c) /\ Spliced(c, a, m, p) => Derived(c)
<1>1. \A c \in Copies : Derived(c)
  BY Zenon DEF Derived, Known, Matching
<1>2. ASSUME NEW a \in Copies, NEW c, IsCopy(c), Part(c, a) PROVE Derived(c)
  <2>1. \A d \in Copies : Agree(c, d)
    BY <1>2, PartAgrees, AllCopies, Zenon DEF Matching
  <2>2. ASSUME NEW n \in Held(c) PROVE n \in Held(a) /\ At(a, n).term = At(c, n).term
    BY <1>2, AllCopies DEF Part, Held, Span, IsCopy
  <2> QED  BY <2>1, <2>2, Zenon DEF Derived, Known
<1>3. ASSUME NEW c, Held(c) = {} PROVE Derived(c)
  BY <1>3, Zenon DEF Derived, Agree
<1>4. ASSUME NEW a \in Copies, NEW m \in Copies, NEW p \in Nat, NEW c, IsCopy(c), Spliced(c, a, m, p)
      PROVE  Derived(c)
  <2>1. IsCopy(a) /\ IsCopy(m)
    BY AllCopies, Zenon
  <2>2. \A d \in Copies : Agree(c, d)
    BY <1>4, <2>1, SpliceAgrees, AllCopies, Zenon DEF Matching
  <2>3. ASSUME NEW n \in Held(c) PROVE Known(n, At(c, n).term)
    <3>1. n \in Int /\ c.offset < n /\ n <= End(c)
      BY <1>4 DEF Held, IsCopy
    <3>2. CASE n <= p
      <4>1. n \in Held(a) /\ n \in a.offset .. p
        BY <1>4, <2>1, <3>1, <3>2 DEF Held, IsCopy, Spliced
      <4> QED  BY <1>4, <4>1, Zenon DEF Known, Spliced
    <3>3. CASE p < n
      <4>1. n \in Held(m) /\ n \in p + 1 .. End(m)
        BY <1>4, <2>1, <3>1, <3>3 DEF Held, IsCopy, Spliced
      <4> QED  BY <1>4, <4>1, Zenon DEF Known, Spliced
    <3> QED  BY <3>1, <3>2, <3>3
  <2> QED  BY <2>2, <2>3, Zenon DEF Derived
<1> QED  BY <1>1, <1>2, <1>3, <1>4, Zenon

-----------------------------------------------------------------------------
(* The actions. *)

\* What persistLocked saves is the log the step leaves.
LEMMA PersistSaves ==
    ASSUME NEW i \in Server, PersistLocked(i)
    PROVE  \/ disk' = disk
           \/ \E s : /\ disk' = [disk EXCEPT ![i] = s]
                     /\ s.log = log'[i] /\ s.logOffset = logOffset'[i]
<1>1. Saved(i)'.log = log'[i] /\ Saved(i)'.logOffset = logOffset'[i]
  BY Zenon DEF Saved
<1> QED  BY <1>1, Zenon DEF PersistLocked

\* A step that makes a derived log of node i's.
LEMMA DerivedStep ==
    ASSUME MatchingInv, ElectionInv', [Next]_vars, NEW i \in Server, NEW offset \in Nat,
           NEW lg \in Seq(Entry), lg # <<>>,
           log' = [log EXCEPT ![i] = lg], logOffset' = [logOffset EXCEPT ![i] = offset],
           \/ disk' = disk
           \/ \E s : disk' = [disk EXCEPT ![i] = s] /\ s.log = lg /\ s.logOffset = offset,
           UNCHANGED appendRequests, Derived(Copy(offset, lg)),
           state'[i] = Leader => End(Copy(offset, lg)) >= lastLogIndex(i)
    PROVE  MatchingInv'
BY NodeStep, Zenon DEF Derived

\* A step that leaves logs and AppendEntries calls alone.
LEMMA LogsKept ==
    ASSUME MatchingInv, ElectionInv', [Next]_vars, NEW i \in Server,
           UNCHANGED <<log, logOffset, appendRequests>>, disk' = disk \/ PersistLocked(i)
    PROVE  MatchingInv'
<1> USE DEF MatchingInv, ElectionInv
<1>1. logOffset[i] \in Nat /\ log[i] \in Seq(Entry) /\ log[i] # <<>>
  BY Zenon DEF TypeOK
<1>2. log' = [log EXCEPT ![i] = log[i]] /\ logOffset' = [logOffset EXCEPT ![i] = logOffset[i]]
  BY Zenon DEF TypeOK
<1>3. \/ disk' = disk
      \/ \E s : disk' = [disk EXCEPT ![i] = s] /\ s.log = log[i] /\ s.logOffset = logOffset[i]
  BY PersistSaves, Zenon
<1>4. Derived(Copy(logOffset[i], log[i]))
  BY DerivedCopies, NodeCopies, Zenon DEF NodeCopy
<1>5. End(Copy(logOffset[i], log[i])) >= lastLogIndex(i)
  BY NodeCopies, LogFacts DEF NodeCopy
<1> HIDE DEF MatchingInv, ElectionInv
<1> QED  BY <1>1, <1>2, <1>3, <1>4, <1>5, DerivedStep, Zenon

\* Elections, the replies to calls, and the rest of what leaves logs alone.
LEMMA MatchingQuiet ==
    ASSUME MatchingInv, ElectionInv', [Next]_vars,
           \/ \E i \in Server : StartElection(i)
           \/ \E m \in voteRequests : HandleRequestVote(m)
           \/ \E r \in voteReplies : HandleRequestVoteReply(r)
           \/ \E r \in appendReplies : HandleAppendEntriesReply(r)
           \/ \E i \in Server : \E j \in Peers(i) : SendInstallSnapshot(i, j)
           \/ \E r \in snapshotReplies : HandleInstallSnapshotReply(r)
           \/ \E i \in Server : DiskFills(i)
           \/ UNCHANGED vars
    PROVE  MatchingInv'
<1> USE DEF MatchingInv, ElectionInv
<1>1. ASSUME NEW i \in Server, StartElection(i)
      PROVE  UNCHANGED <<log, logOffset, appendRequests>> /\ PersistLocked(i)
  BY <1>1, Zenon DEF StartElection, logVars, appendCalls
<1>2. ASSUME NEW m \in voteRequests, HandleRequestVote(m)
      PROVE  /\ UNCHANGED <<log, logOffset, appendRequests>> /\ m.to \in Server
             /\ disk' = disk \/ PersistLocked(m.to)
  <2>1. m.to \in Server
    BY Zenon DEF TypeOK, VoteRequest
  <2> QED  BY <1>2, <2>1, Zenon DEF HandleRequestVote, logVars, appendCalls
<1>3. ASSUME NEW r \in voteReplies, HandleRequestVoteReply(r)
      PROVE  /\ UNCHANGED <<log, logOffset, appendRequests>> /\ r.to \in Server
             /\ disk' = disk \/ PersistLocked(r.to)
  <2>1. r.to \in Server
    BY Zenon DEF TypeOK, VoteReply
  <2> QED  BY <1>3, <2>1, Zenon
           DEF HandleRequestVoteReply, logVars, persistentVars, appendCalls
<1>4. ASSUME NEW r \in appendReplies, HandleAppendEntriesReply(r)
      PROVE  /\ UNCHANGED <<log, logOffset, appendRequests>> /\ r.to \in Server
             /\ disk' = disk \/ PersistLocked(r.to)
  <2>1. r.to \in Server
    BY Zenon DEF TypeOK, AppendReply
  <2> QED  BY <1>4, <2>1, Zenon
           DEF HandleAppendEntriesReply, logVars, persistentVars, appendCalls
<1>5. ASSUME NEW i \in Server, NEW j \in Peers(i), SendInstallSnapshot(i, j)
      PROVE  UNCHANGED <<log, logOffset, appendRequests>> /\ disk' = disk
  BY <1>5, Zenon DEF SendInstallSnapshot, persistentVars, appendCalls
<1>6. ASSUME NEW r \in snapshotReplies, HandleInstallSnapshotReply(r)
      PROVE  /\ UNCHANGED <<log, logOffset, appendRequests>> /\ r.to \in Server
             /\ disk' = disk \/ PersistLocked(r.to)
  <2>1. r.to \in Server
    BY Zenon DEF TypeOK, SnapshotReply
  <2> QED  BY <1>6, <2>1, Zenon
           DEF HandleInstallSnapshotReply, logVars, persistentVars, appendCalls
<1>7. ASSUME NEW i \in Server, DiskFills(i)
      PROVE  UNCHANGED <<log, logOffset, appendRequests>> /\ disk' = disk
  BY <1>7, Zenon DEF DiskFills, persistentVars, appendCalls
<1>8. ASSUME UNCHANGED vars
      PROVE  UNCHANGED <<log, logOffset, appendRequests>> /\ disk' = disk
  BY <1>8, Zenon DEF vars, persistentVars, appendCalls
<1>9. Server # {}
  BY ServerAssumption, Zenon
<1>10. \E i \in Server : /\ UNCHANGED <<log, logOffset, appendRequests>>
                         /\ disk' = disk \/ PersistLocked(i)
  BY <1>1, <1>2, <1>3, <1>4, <1>5, <1>6, <1>7, <1>8, <1>9, Zenon
<1> QED  BY <1>10, LogsKept, Zenon

\* The log a leader appends a command to agrees with every copy, since no entry
\* of its term lies behind its log's end.
LEMMA LeaderWrites ==
    ASSUME MatchingInv, NEW i \in Server, state[i] = Leader,
           NEW e \in Entry, e.term = currentTerm[i],
           state'[i] = Leader => lastLogIndex(i)' = lastLogIndex(i) + 1
    PROVE  LET c == Copy(logOffset[i], Append(log[i], e))
           IN  /\ \A d \in Copies : Agree(c, d)
               /\ \A n \in Held(c) : Known(n, At(c, n).term) \/ Written(n, At(c, n).term)
               /\ End(c) = lastLogIndex(i) + 1
<1> USE DEF MatchingInv, ElectionInv
<1> DEFINE c == Copy(logOffset[i], Append(log[i], e))
           a == NodeCopy(i)
<1>1. IsCopy(c) /\ Extended(c, a, e)
  BY StartExtends, Zenon
<1>2. IsCopy(a) /\ a \in Copies /\ End(a) = lastLogIndex(i) /\ lastLogIndex(i) \in Nat
  BY NodeCopies, LogFacts, Zenon
<1> HIDE DEF c, a
<1>3. End(c) = lastLogIndex(i) + 1
  BY <1>1, <1>2, Zenon DEF Extended
<1>4. ASSUME NEW d \in Copies PROVE Agree(c, d)
  <2>1. IsCopy(d) /\ Agree(a, d)
    BY <1>2, AllCopies, Zenon DEF Matching
  <2>2. End(c) \in Held(d) => At(d, End(c)).term # e.term
    <3>1. ~ (End(c) <= lastLogIndex(i))
      BY <1>2, <1>3
    <3> QED  BY <3>1, Zenon DEF LeaderOwns
  <2> QED  BY <1>1, <1>2, <2>1, <2>2, ExtendedAgrees, Zenon
<1>5. ASSUME NEW n \in Held(c) PROVE Known(n, At(c, n).term) \/ Written(n, At(c, n).term)
  <2>1. CASE n = End(c)
    <3>1. At(c, n).term = currentTerm[i]
      BY <1>1, <2>1, Zenon DEF Extended
    <3>2. state'[i] = Leader => n <= lastLogIndex(i)'
      BY <1>2, <1>3, <2>1
    <3> QED  BY <3>1, <3>2, Zenon DEF Written
  <2>2. CASE n # End(c)
    <3>1. n \in Held(a) /\ n \in Span(a)
      BY <1>1, <1>2, <1>3, <2>2 DEF Held, Span, Extended, IsCopy
    <3> QED  BY <1>1, <1>2, <3>1, Zenon DEF Extended, Known
  <2> QED  BY <2>1, <2>2, Zenon
<1> QED  BY <1>3, <1>4, <1>5, Zenon DEF c

\* Start keeps the invariant.
LEMMA MatchingStart ==
    ASSUME MatchingInv, ElectionInv', [Next]_vars, NEW i \in Server, NEW x \in Command,
           Start(i, x)
    PROVE  MatchingInv'
<1> USE DEF MatchingInv, ElectionInv
<1> DEFINE e == [term |-> currentTerm[i], cmd |-> x]
           lg == Append(log[i], e)
<1>1. e \in Entry /\ e.term = currentTerm[i]
  BY Zenon DEF Entry, TypeOK
<1>2. logOffset[i] \in Nat /\ log[i] \in Seq(Entry)
  BY Zenon DEF TypeOK
<1> HIDE DEF e
<1>3. lg \in Seq(Entry) /\ lg # <<>> /\ Len(lg) = Len(log[i]) + 1
  BY <1>1, <1>2, AppendProperties
<1>4. /\ log' = [log EXCEPT ![i] = lg] /\ logOffset' = logOffset /\ state[i] = Leader
      /\ UNCHANGED appendRequests /\ PersistLocked(i)
  BY Zenon DEF Start, e, appendCalls
<1> HIDE DEF lg
<1>5. log'[i] = lg /\ logOffset'[i] = logOffset[i]
      /\ logOffset' = [logOffset EXCEPT ![i] = logOffset[i]]
  BY <1>4, Zenon DEF TypeOK
<1>6. lastLogIndex(i)' = lastLogIndex(i) + 1
  <2>1. lastLogIndex(i)' = logOffset[i] + Len(lg) - 1 /\ Len(log[i]) \in Nat
    BY <1>2, <1>5, LenProperties, Zenon DEF lastLogIndex
  <2> QED  BY <1>2, <1>3, <2>1 DEF lastLogIndex
<1>7. /\ \A d \in Copies : Agree(Copy(logOffset[i], lg), d)
      /\ \A n \in Held(Copy(logOffset[i], lg)) :
             LET t == At(Copy(logOffset[i], lg), n).term IN Known(n, t) \/ Written(n, t)
      /\ End(Copy(logOffset[i], lg)) = lastLogIndex(i) + 1
  BY <1>1, <1>4, <1>6, LeaderWrites, Zenon DEF lg
<1>8. End(Copy(logOffset[i], lg)) >= lastLogIndex(i)
  BY <1>7, LogFacts
<1>9. \/ disk' = disk
      \/ \E s : disk' = [disk EXCEPT ![i] = s] /\ s.log = lg /\ s.logOffset = logOffset[i]
  BY <1>4, <1>5, PersistSaves, Zenon
<1> HIDE DEF MatchingInv, ElectionInv
<1> QED  BY <1>2, <1>3, <1>4, <1>5, <1>7, <1>8, <1>9, NodeStep, Zenon

\* Snapshot keeps the invariant.
LEMMA MatchingSnapshot ==
    ASSUME MatchingInv, ElectionInv', [Next]_vars, NEW i \in Server,
           NEW index \in logOffset[i] + 1 .. commitIndex[i], Snapshot(i, index)
    PROVE  MatchingInv'
<1> USE DEF MatchingInv, ElectionInv
<1> DEFINE lg == CompactedLog(i, index)
<1>1. index \in Nat /\ logOffset[i] <= index /\ index <= lastLogIndex(i)
  BY DEF Snapshot, TypeOK
<1>2. /\ IsCopy(Copy(index, lg)) /\ Part(Copy(index, lg), NodeCopy(i))
      /\ End(Copy(index, lg)) = lastLogIndex(i)
  BY <1>1, SnapshotIsPart, Zenon
<1> HIDE DEF lg
<1>3. /\ log' = [log EXCEPT ![i] = lg] /\ logOffset' = [logOffset EXCEPT ![i] = index]
      /\ UNCHANGED appendRequests /\ PersistLocked(i)
  BY Zenon DEF Snapshot, appendCalls, lg
<1>4. log'[i] = lg /\ logOffset'[i] = index /\ lg \in Seq(Entry) /\ lg # <<>>
  BY <1>3, Zenon DEF TypeOK
<1>5. Derived(Copy(index, lg))
  BY <1>2, DerivedCopies, NodeCopies, Zenon
<1>6. End(Copy(index, lg)) >= lastLogIndex(i)
  BY <1>2, LogFacts
<1>7. \/ disk' = disk
      \/ \E s : disk' = [disk EXCEPT ![i] = s] /\ s.log = lg /\ s.logOffset = index
  BY <1>3, <1>4, PersistSaves
<1> HIDE DEF MatchingInv, ElectionInv
<1> QED  BY <1>1, <1>3, <1>4, <1>5, <1>6, <1>7, DerivedStep, Zenon

\* HandleInstallSnapshot keeps the invariant: the log it starts holds no entry.
LEMMA MatchingInstall ==
    ASSUME MatchingInv, ElectionInv', [Next]_vars, NEW m \in snapshotRequests,
           HandleInstallSnapshot(m)
    PROVE  MatchingInv'
<1> USE DEF MatchingInv, ElectionInv
<1> DEFINE i == m.to
<1>1. i \in Server /\ m.lastIncludedIndex \in Nat /\ m.lastIncludedTerm \in Nat
  BY Zenon DEF TypeOK, SnapshotRequest
<1>2. UNCHANGED appendRequests
  BY Zenon DEF HandleInstallSnapshot, appendCalls
<1>3. CASE UNCHANGED <<log, logOffset>> /\ (disk' = disk \/ PersistLocked(i))
  BY <1>1, <1>2, <1>3, LogsKept, Zenon
<1>4. CASE /\ logOffset' = [logOffset EXCEPT ![i] = m.lastIncludedIndex]
           /\ log' = [log EXCEPT ![i] = <<Sentinel(m.lastIncludedTerm)>>]
           /\ PersistLocked(i) /\ state' = [state EXCEPT ![i] = Follower]
  <2> DEFINE lg == <<Sentinel(m.lastIncludedTerm)>>
  <2>1. log'[i] = lg /\ logOffset'[i] = m.lastIncludedIndex /\ state'[i] # Leader
    BY <1>1, <1>4, Zenon DEF TypeOK, Follower, Leader
  <2>2. lg \in Seq(Entry) /\ lg # <<>> /\ Len(lg) = 1
    <3>1. Sentinel(m.lastIncludedTerm) \in Entry
      BY <1>1, Zenon DEF Sentinel, Entry
    <3> QED  BY <3>1
  <2> HIDE DEF lg
  <2>3. End(Copy(m.lastIncludedIndex, lg)) = m.lastIncludedIndex
        /\ Copy(m.lastIncludedIndex, lg).offset = m.lastIncludedIndex
    <3>1. PICK x \in Nat : x = m.lastIncludedIndex
      BY <1>1, Zenon
    <3>2. End(Copy(x, lg)) = x + 1 - 1 /\ Copy(x, lg).offset = x
      BY <2>2, LogCopies, Zenon
    <3>3. x + 1 - 1 = x
      OBVIOUS
    <3> QED  BY <3>1, <3>2, <3>3, Zenon
  <2>4. Derived(Copy(m.lastIncludedIndex, lg))
    <3>1. Held(Copy(m.lastIncludedIndex, lg)) = {}
      BY <1>1, <2>3 DEF Held
    <3> QED  BY <3>1, DerivedCopies, Zenon
  <2>5. \/ disk' = disk
        \/ \E s : disk' = [disk EXCEPT ![i] = s] /\ s.log = lg /\ s.logOffset = m.lastIncludedIndex
    BY <1>1, <1>4, <2>1, PersistSaves
  <2>6. log' = [log EXCEPT ![i] = lg]
    BY <1>4, Zenon DEF lg
  <2> HIDE DEF MatchingInv, ElectionInv
  <2> QED  BY <1>1, <1>2, <1>4, <2>1, <2>2, <2>4, <2>5, <2>6, DerivedStep, Zenon
<1> QED
  BY <1>3, <1>4, Zenon DEF HandleInstallSnapshot, BecomeFollower, logVars, persistentVars

\* SendAppendEntries keeps the invariant: a call carries a section of the log.
LEMMA MatchingSend ==
    ASSUME MatchingInv, ElectionInv', [Next]_vars, NEW i \in Server, NEW j \in Peers(i),
           SendAppendEntries(i, j)
    PROVE  MatchingInv'
<1> USE DEF MatchingInv, ElectionInv
<1>1. UNCHANGED <<log, logOffset, disk>>
  BY Zenon DEF SendAppendEntries, persistentVars
<1>2. CASE UNCHANGED appendRequests
  BY <1>1, <1>2, LogsKept, Zenon
<1>3. CASE appendRequests' # appendRequests
  <2> DEFINE next == IF nextIndex[i][j] = 0 THEN lastLogIndex(i) + 1 ELSE nextIndex[i][j]
             m == [from |-> i, to |-> j, term |-> currentTerm[i],
                   prevLogIndex |-> next - 1, prevLogTerm |-> termAt(i, next - 1),
                   entries |-> SubSeq(log[i], next - logOffset[i] + 1, Len(log[i])),
                   leaderCommit |-> commitIndex[i]]
  <2>1. next \in Nat
    <3>1. nextIndex[i][j] \in Nat
      BY DEF TypeOK, Peers
    <3>2. lastLogIndex(i) + 1 \in Nat
      BY LogFacts
    <3> QED  BY <3>1, <3>2, Zenon
  <2> HIDE DEF next
  <2>2. next > logOffset[i] /\ appendRequests' = appendRequests \cup {m}
    BY <1>3, Zenon DEF SendAppendEntries, next
  <2>3. IsCopy(CallCopy(m)) /\ (Part(CallCopy(m), NodeCopy(i)) \/ Held(CallCopy(m)) = {})
    BY <2>1, <2>2, CallIsPart, Zenon
  <2> HIDE DEF m
  <2>4. Derived(CallCopy(m))
    BY <2>3, DerivedCopies, NodeCopies, Zenon
  <2>5. Copies' \subseteq Copies \cup {CallCopy(m)}
    <3>1. \A k \in Server : NodeCopy(k)' = NodeCopy(k) /\ DiskCopy(k)' = DiskCopy(k)
      BY <1>1, Zenon DEF NodeCopy, DiskCopy
    <3> SUFFICES ASSUME NEW d \in Copies' PROVE d \in Copies \cup {CallCopy(m)}
      BY Zenon
    <3>2. CASE \E k \in Server : d = NodeCopy(k)' \/ d = DiskCopy(k)'
      BY <3>1, <3>2, Zenon DEF Copies
    <3>3. CASE \E r \in appendRequests' : d = CallCopy(r)
      BY <2>2, <3>3, Zenon DEF Copies
    <3> QED  BY <3>2, <3>3, Zenon DEF Copies, CallCopy, Copy
  <2>6. \A k \in Server : lastLogIndex(k)' >= lastLogIndex(k)
    BY <1>1, LogFacts DEF lastLogIndex
  <2> QED  BY <2>4, <2>5, <2>6, MatchingStep, Zenon DEF Derived
<1> QED  BY <1>2, <1>3, Zenon

\* What the append loop leaves is a derived copy.
LEMMA AppendDerived ==
    ASSUME MatchingInv, NEW m \in appendRequests, m.to \in Server, PrevMatches(m.to, m)
    PROVE  LET lg == AppendedLog(m.to, m.prevLogIndex, m.entries)
           IN  lg \in Seq(Entry) /\ lg # <<>> /\ Derived(Copy(logOffset[m.to], lg))
<1> USE DEF MatchingInv, ElectionInv
<1> DEFINE i == m.to
           lg == AppendedLog(i, m.prevLogIndex, m.entries)
<1>1. lg \in Seq(Entry) /\ lg # <<>>
  <2>1. m.prevLogIndex \in Nat /\ m.entries \in Seq(Entry)
    BY Zenon DEF TypeOK, AppendRequest
  <2> QED  BY <2>1, AppendedLogType, Zenon DEF PrevMatches
<1> HIDE DEF lg
<1>2. CallCopy(m) \in Copies /\ NodeCopy(i) \in Copies
  BY Zenon DEF Copies
<1>3. \/ lg = log[i]
      \/ /\ IsCopy(Copy(logOffset[i], lg))
         /\ \E p \in Nat : Spliced(Copy(logOffset[i], lg), NodeCopy(i), CallCopy(m), p)
  BY AppendSplices, Zenon DEF lg
<1>4. CASE lg = log[i]
  BY <1>1, <1>2, <1>4, DerivedCopies, Zenon DEF NodeCopy, lg
<1>5. CASE /\ IsCopy(Copy(logOffset[i], lg))
           /\ \E p \in Nat : Spliced(Copy(logOffset[i], lg), NodeCopy(i), CallCopy(m), p)
  BY <1>1, <1>2, <1>5, DerivedCopies, Zenon DEF lg
<1> QED  BY <1>3, <1>4, <1>5, Zenon

\* HandleAppendEntries keeps the invariant.
LEMMA MatchingAppend ==
    ASSUME MatchingInv, ElectionInv', [Next]_vars, NEW m \in appendRequests,
           HandleAppendEntries(m)
    PROVE  MatchingInv'
<1> USE DEF MatchingInv, ElectionInv
<1> DEFINE i == m.to
           lg == AppendedLog(i, m.prevLogIndex, m.entries)
<1>1. i \in Server /\ logOffset[i] \in Nat
  BY Zenon DEF TypeOK, AppendRequest
<1>2. UNCHANGED appendRequests
  BY Zenon DEF HandleAppendEntries
<1>3. CASE UNCHANGED <<log, logOffset>> /\ (disk' = disk \/ PersistLocked(i))
  BY <1>1, <1>2, <1>3, LogsKept, Zenon
<1>4. CASE /\ log' = [log EXCEPT ![i] = lg] /\ logOffset' = logOffset /\ PrevMatches(i, m)
           /\ PersistLocked(i) /\ state' = [state EXCEPT ![i] = Follower]
  <2>1. lg \in Seq(Entry) /\ lg # <<>> /\ Derived(Copy(logOffset[i], lg))
    BY <1>1, <1>4, AppendDerived, Zenon
  <2> HIDE DEF lg
  <2>2. log'[i] = lg /\ logOffset'[i] = logOffset[i] /\ state'[i] # Leader
        /\ logOffset' = [logOffset EXCEPT ![i] = logOffset[i]]
    BY <1>1, <1>4, Zenon DEF TypeOK, Follower, Leader
  <2>3. \/ disk' = disk
        \/ \E s : disk' = [disk EXCEPT ![i] = s] /\ s.log = lg /\ s.logOffset = logOffset[i]
    BY <1>1, <1>4, <2>2, PersistSaves
  <2> HIDE DEF MatchingInv, ElectionInv
  <2> QED  BY <1>1, <1>2, <1>4, <2>1, <2>2, <2>3, DerivedStep, Zenon
<1> HIDE DEF lg
<1> QED
  BY <1>3, <1>4, Zenon
  DEF HandleAppendEntries, RejectAppend, AcceptAppend, BecomeFollower, logVars,
      persistentVars, lg

\* A crash that leaves a derived log on disk keeps the invariant.
LEMMA MatchingCrash ==
    ASSUME MatchingInv, ElectionInv', [Next]_vars, NEW i \in Server, NEW s, Crash(i, s),
           s.log \in Seq(Entry), s.log # <<>>, s.logOffset \in Nat,
           \A d \in Copies : Agree(Copy(s.logOffset, s.log), d),
           \A n \in Held(Copy(s.logOffset, s.log)) :
               LET t == At(Copy(s.logOffset, s.log), n).term
               IN  Known(n, t) \/ (state[i] = Leader /\ currentTerm[i] = t)
    PROVE  MatchingInv'
<1> USE DEF MatchingInv, ElectionInv
<1>1. state'[i] # Leader
  BY DEF Crash, NewRaft, TypeOK, Follower, Leader
<1>2. \A t, n : state[i] = Leader /\ currentTerm[i] = t => Written(n, t)
  BY <1>1, Zenon DEF Written
<1>3. /\ log' = [log EXCEPT ![i] = s.log] /\ logOffset' = [logOffset EXCEPT ![i] = s.logOffset]
      /\ disk' = [disk EXCEPT ![i] = s] /\ UNCHANGED appendRequests
  BY Zenon DEF Crash, NewRaft, appendCalls
<1> HIDE DEF MatchingInv, ElectionInv
<1> QED  BY <1>1, <1>2, <1>3, NodeStep, Zenon

\* The crashes of the specification keep the invariant.
LEMMA MatchingCrashes ==
    ASSUME MatchingInv, ElectionInv', [Next]_vars, NEW i \in Server,
           \/ Restart(i)
           \/ CrashAfterTermSave(i)
           \/ \E x \in Command : CrashAfterStartSave(i, x)
           \/ CrashAfterLogSave(i)
    PROVE  MatchingInv'
<1> USE DEF MatchingInv, ElectionInv
<1>1. /\ logOffset[i] \in Nat /\ log[i] \in Seq(Entry) /\ log[i] # <<>>
      /\ disk[i].logOffset \in Nat /\ disk[i].log \in Seq(Entry) /\ disk[i].log # <<>>
  BY Zenon DEF TypeOK, PersistentState
<1>2. /\ Copy(logOffset[i], log[i]) \in Copies
      /\ Copy(disk[i].logOffset, disk[i].log) \in Copies
  BY Zenon DEF Copies, NodeCopy, DiskCopy
<1>3. CASE Restart(i)
  <2>1. Derived(Copy(disk[i].logOffset, disk[i].log))
    BY <1>2, DerivedCopies, Zenon
  <2> QED  BY <1>1, <1>3, <2>1, MatchingCrash, Zenon DEF Restart, Derived
<1>4. CASE CrashAfterTermSave(i)
  <2>1. Derived(Copy(logOffset[i], log[i]))
    BY <1>2, DerivedCopies, Zenon
  <2>2. PICK s : Crash(i, s) /\ s.log = log[i] /\ s.logOffset = logOffset[i]
    <3>1. PICK m \in voteRequests \cup appendRequests \cup snapshotRequests :
              Crash(i, [Saved(i) EXCEPT !.currentTerm = m.term, !.votedFor = Nil])
      BY <1>4, Zenon DEF CrashAfterTermSave
    <3> DEFINE t == [Saved(i) EXCEPT !.currentTerm = m.term, !.votedFor = Nil]
    <3>2. t.log = log[i] /\ t.logOffset = logOffset[i]
      BY Zenon DEF Saved
    <3> QED  BY <3>1, <3>2, Zenon
  <2> QED  BY <1>1, <2>1, <2>2, MatchingCrash, Zenon DEF Derived
<1>5. ASSUME NEW x \in Command, CrashAfterStartSave(i, x) PROVE MatchingInv'
  <2> DEFINE e == [term |-> currentTerm[i], cmd |-> x]
             lg == Append(log[i], e)
  <2>1. e \in Entry /\ e.term = currentTerm[i]
    BY Zenon DEF Entry, TypeOK
  <2>2. PICK s : Crash(i, s) /\ s.log = lg /\ s.logOffset = logOffset[i] /\ state[i] = Leader
    BY <1>5, Zenon DEF CrashAfterStartSave, Saved
  <2> HIDE DEF e
  <2>3. lg \in Seq(Entry) /\ lg # <<>>
    BY <1>1, <2>1, AppendProperties
  <2>4. IsCopy(Copy(logOffset[i], lg)) /\ Extended(Copy(logOffset[i], lg), NodeCopy(i), e)
    BY <2>1, StartExtends, Zenon
  <2>5. state'[i] # Leader
    BY <2>2 DEF Crash, NewRaft, TypeOK, Follower, Leader
  <2>6. /\ \A d \in Copies : Agree(Copy(logOffset[i], lg), d)
    BY <2>1, <2>2, <2>5, LeaderWrites, Zenon
  <2> HIDE DEF lg
  <2> DEFINE c == Copy(logOffset[i], lg)
  <2>7. ASSUME NEW n \in Held(c) PROVE Known(n, At(c, n).term) \/ At(c,
  n).term = currentTerm[i]
    <3> HIDE DEF c
    <3>1. CASE n = End(c)
      BY <2>1, <2>4, <3>1, Zenon DEF Extended, c
    <3>2. CASE n # End(c)
      <4>1. IsCopy(NodeCopy(i)) /\ IsCopy(c) /\ Extended(c, NodeCopy(i), e)
        BY <2>4, NodeCopies, Zenon DEF c
      <4>2. n \in Held(NodeCopy(i)) /\ n \in Span(NodeCopy(i))
        BY <3>2, <4>1 DEF Held, Span, Extended, IsCopy
      <4> QED  BY <4>1, <4>2, NodeCopies, Zenon DEF Extended, Known
    <3> QED  BY <3>1, <3>2, Zenon
  <2> HIDE DEF MatchingInv, ElectionInv
  <2> QED  BY <1>1, <2>2, <2>3, <2>6, <2>7, MatchingCrash, Zenon
<1>6. CASE CrashAfterLogSave(i)
  <2>1. PICK m \in appendRequests :
            /\ m.to = i /\ PrevMatches(i, m)
            /\ Crash(i, [Saved(i) EXCEPT
                     !.currentTerm = m.term,
                     !.votedFor = IF m.term > currentTerm[i] THEN Nil ELSE @,
                     !.log = AppendedLog(i, m.prevLogIndex, m.entries)])
    BY <1>6, Zenon DEF CrashAfterLogSave
  <2> DEFINE s == [Saved(i) EXCEPT
                     !.currentTerm = m.term,
                     !.votedFor = IF m.term > currentTerm[i] THEN Nil ELSE @,
                     !.log = AppendedLog(i, m.prevLogIndex, m.entries)]
  <2>2. s.log = AppendedLog(i, m.prevLogIndex, m.entries) /\ s.logOffset = logOffset[i]
    BY Zenon DEF Saved
  <2>3. Crash(i, s)
    BY <2>1, Zenon
  <2> HIDE DEF s
  <2>4. s.log \in Seq(Entry) /\ s.log # <<>> /\ Derived(Copy(s.logOffset, s.log))
    BY <2>1, <2>2, AppendDerived, Zenon
  <2> HIDE DEF MatchingInv, ElectionInv
  <2> QED  BY <1>1, <2>2, <2>3, <2>4, MatchingCrash, Zenon DEF Derived
<1> QED  BY <1>3, <1>4, <1>5, <1>6, Zenon

-----------------------------------------------------------------------------
\* Every step keeps the invariant.
LEMMA MatchingInvNext ==
    ASSUME DisksReliable
    PROVE  MatchingInv /\ [Next]_vars => MatchingInv'
<1> SUFFICES ASSUME MatchingInv, [Next]_vars PROVE MatchingInv'
  BY Zenon
<1>1. ElectionInv'
  BY ElectionInvNext, Zenon DEF MatchingInv
<1>2. ASSUME \E i \in Server, c \in Command : Start(i, c) PROVE MatchingInv'
  BY <1>1, <1>2, MatchingStart, Zenon
<1>3. ASSUME \E i \in Server : \E index \in logOffset[i] + 1 .. commitIndex[i] : Snapshot(i, index)
      PROVE  MatchingInv'
  BY <1>1, <1>3, MatchingSnapshot, Zenon
<1>4. ASSUME \E m \in snapshotRequests : HandleInstallSnapshot(m) PROVE MatchingInv'
  BY <1>1, <1>4, MatchingInstall, Zenon
<1>5. ASSUME \E i \in Server : \E j \in Peers(i) : SendAppendEntries(i, j) PROVE MatchingInv'
  BY <1>1, <1>5, MatchingSend, Zenon
<1>6. ASSUME \E m \in appendRequests : HandleAppendEntries(m) PROVE MatchingInv'
  BY <1>1, <1>6, MatchingAppend, Zenon
<1>7. ASSUME NEW i \in Server,
             \/ Restart(i) \/ CrashAfterTermSave(i)
             \/ \E c \in Command : CrashAfterStartSave(i, c)
             \/ CrashAfterLogSave(i)
      PROVE  MatchingInv'
  BY <1>1, <1>7, MatchingCrashes, Zenon
<1>8. ASSUME \/ \E i \in Server : StartElection(i)
             \/ \E m \in voteRequests : HandleRequestVote(m)
             \/ \E r \in voteReplies : HandleRequestVoteReply(r)
             \/ \E r \in appendReplies : HandleAppendEntriesReply(r)
             \/ \E i \in Server : \E j \in Peers(i) : SendInstallSnapshot(i, j)
             \/ \E r \in snapshotReplies : HandleInstallSnapshotReply(r)
             \/ \E i \in Server : DiskFills(i)
             \/ UNCHANGED vars
      PROVE  MatchingInv'
  BY <1>1, <1>8, MatchingQuiet, Zenon
<1> QED
  BY <1>2, <1>3, <1>4, <1>5, <1>6, <1>7, <1>8, Zenon
  DEF Next

\* In the first state the copies are the empty logs.
LEMMA MatchingInvInit == Init => MatchingInv
<1> SUFFICES ASSUME Init PROVE MatchingInv
  BY Zenon
<1>1. ElectionInv
  BY ElectionInvInit, Zenon
<1>2. ASSUME NEW c \in Copies PROVE Held(c) = {}
  <2> DEFINE lg == <<Sentinel(0)>>
  <2>1. c = Copy(0, lg)
    BY Zenon DEF Init, Copies, NodeCopy, DiskCopy, Saved
  <2>2. lg \in Seq(Entry) /\ lg # <<>> /\ Len(lg) = 1
    BY DEF Sentinel, Entry
  <2> HIDE DEF lg
  <2>3. Copy(0, lg).offset = 0 /\ End(Copy(0, lg)) = 0 + Len(lg) - 1
    BY <2>2, LogCopies, Zenon
  <2>4. c.offset = 0 /\ End(c) = 0
    BY <2>1, <2>2, <2>3
  <2> QED  BY <2>4 DEF Held
<1>3. Matching /\ TermsCrowned /\ LeaderOwns
  BY <1>2, Zenon DEF Matching, TermsCrowned, LeaderOwns, Agree
<1> QED  BY <1>1, <1>3, Zenon DEF MatchingInv

\* Agreement of the copies in memory is LogMatching.
LEMMA MatchingGivesLogMatching == TypeOK /\ Matching => LogMatching
<1> SUFFICES ASSUME TypeOK, Matching, NEW i \in Server, NEW j \in Server,
                    NEW n \in Retained(i) \cap Retained(j), termAt(i, n) = termAt(j, n),
                    NEW k \in Retained(i) \cap Retained(j), k <= n
             PROVE  EntryAt(i, k) = EntryAt(j, k)
  BY Zenon DEF LogMatching
<1>1. ASSUME NEW x \in Server
      PROVE  /\ NodeCopy(x) \in Copies /\ Held(NodeCopy(x)) = Retained(x)
             /\ \A l \in Retained(x) : /\ l \in Span(NodeCopy(x))
                                       /\ At(NodeCopy(x), l).term = termAt(x, l)
                                       /\ At(NodeCopy(x), l) = EntryAt(x, l)
  <2>1. Held(NodeCopy(x)) = Retained(x)
    BY NodeCopies, Zenon DEF Held, Retained
  <2>2. \A l \in Held(NodeCopy(x)) : l \in Span(NodeCopy(x))
    BY NodeCopies DEF Held, Span, IsCopy
  <2> QED  BY <2>1, <2>2, NodeCopies, Zenon DEF EntryAt
<1> QED  BY <1>1 DEF Matching, Agree

\* LogMatching holds in every state, for every cluster size and every bound, with
\* snapshots and with crashes at any of the modelled points.
THEOREM LogsMatch ==
    ASSUME DisksReliable
    PROVE  Spec => []LogMatching
<1>1. Init => MatchingInv
  BY MatchingInvInit, Zenon
<1>2. MatchingInv /\ [Next]_vars => MatchingInv'
  BY MatchingInvNext, Zenon
<1>3. MatchingInv => LogMatching
  BY MatchingGivesLogMatching, Zenon DEF MatchingInv, ElectionInv
<1> QED  BY <1>1, <1>2, <1>3, PTL DEF Spec

=============================================================================
