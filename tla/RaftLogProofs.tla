--------------------------- MODULE RaftLogProofs ----------------------------
(***************************************************************************)
(* Lemmas about the operators of module Raft that work on a node's log:    *)
(* they return entries, indexes and terms, and read inside the log.        *)
(***************************************************************************)
EXTENDS Raft, SequenceTheorems, WellFoundedInduction, TLAPS

-----------------------------------------------------------------------------
(* Least and greatest elements, for the CHOOSEs of the log operators. *)

\* Every nonempty set of naturals has a least element.
LEMMA NatMin ==
    ASSUME NEW S, S \subseteq Nat, S # {}
    PROVE  \E n \in S : \A m \in S : n <= m
<1>1. PICK n \in S : \A m \in S : ~ (<<m, n>> \in OpToRel(<, Nat))
  BY NatLessThanWellFounded, WFMin, Zenon
<1>2. \A m \in S : ~ (m < n)
  BY <1>1, Zenon DEF OpToRel
<1> QED  BY <1>2

\* Every nonempty set of naturals with an upper bound has a greatest element.
LEMMA NatMax ==
    ASSUME NEW S, S \subseteq Nat, S # {}, NEW b \in Nat, \A n \in S : n <= b
    PROVE  \E n \in S : \A m \in S : m <= n
<1> DEFINE T == {k \in Nat : b - k \in S}
<1>1. T \subseteq Nat /\ T # {}
  <2>1. PICK n \in S : TRUE
    BY Zenon
  <2>2. b - n \in Nat /\ b - (b - n) = n
    BY <2>1
  <2> QED  BY <2>2
<1>2. PICK k \in T : \A l \in T : k <= l
  <2> HIDE DEF T
  <2> QED  BY <1>1, NatMin, Zenon
<1>3. \A m \in S : m <= b - k
  <2> TAKE m \in S
  <2>1. b - m \in Nat /\ b - (b - m) = m
    OBVIOUS
  <2>2. b - m \in T
    BY <2>1
  <2> QED  BY <1>2, <2>1, <2>2
<1> QED  BY <1>2, <1>3

-----------------------------------------------------------------------------
(* The operators on the log of a node. *)

\* lastLogIndex, lastLogTerm and termAt read inside the log: the sentinel is
\* always there.
LEMMA LogFacts ==
    ASSUME TypeOK, NEW i \in Server
    PROVE  /\ log[i] \in Seq(Entry) /\ Len(log[i]) \in Nat /\ Len(log[i]) >= 1
           /\ logOffset[i] \in Nat
           /\ lastLogIndex(i) \in Nat /\ lastLogIndex(i) >= logOffset[i]
           /\ lastLogTerm(i) \in Nat
           /\ \A idx \in Int : termAt(i, idx) \in Nat \cup {-1}
           /\ \A idx \in Int : termAt(i, idx) = -1 <=>
                  ~ (logOffset[i] <= idx /\ idx <= lastLogIndex(i))
<1>1. /\ log[i] \in Seq(Entry) /\ Len(log[i]) \in Nat /\ Len(log[i]) >= 1
      /\ logOffset[i] \in Nat
  BY EmptySeq DEF TypeOK
<1>2. \A k \in 1 .. Len(log[i]) : log[i][k].term \in Nat
  <2>1. \A k \in 1 .. Len(log[i]) : log[i][k] \in Entry
    BY <1>1, ElementOfSeq
  <2> QED  BY <2>1 DEF Entry
<1>3. lastLogIndex(i) \in Nat /\ lastLogIndex(i) >= logOffset[i]
  BY <1>1 DEF lastLogIndex
<1>4. lastLogTerm(i) \in Nat
  BY <1>1, <1>2 DEF lastLogTerm
<1>5. ASSUME NEW idx \in Int, logOffset[i] <= idx, idx <= lastLogIndex(i)
      PROVE  termAt(i, idx) \in Nat
  <2>1. idx - logOffset[i] + 1 \in 1 .. Len(log[i])
    BY <1>1, <1>5 DEF lastLogIndex
  <2> QED  BY <1>2, <1>5, <2>1 DEF termAt
<1>6. ASSUME NEW idx \in Int, ~ (logOffset[i] <= idx /\ idx <= lastLogIndex(i))
      PROVE  termAt(i, idx) = -1
  BY <1>6 DEF termAt
<1> QED  BY <1>1, <1>3, <1>4, <1>5, <1>6

\* A suffix or prefix of a sequence of entries is one.
LEMMA SubSeqEntries ==
    ASSUME NEW s \in Seq(Entry), NEW a \in Nat \ {0}, NEW b \in Nat, b <= Len(s)
    PROVE  SubSeq(s, a, b) \in Seq(Entry)
<1>1. \A k \in a .. b : s[k] \in Entry
  BY LenProperties
<1> QED  BY <1>1, SubSeqProperties

\* lastIndexOfTerm is an index or -1.
LEMMA LastIndexOfTermType ==
    ASSUME TypeOK, NEW i \in Server, NEW t
    PROVE  lastIndexOfTerm(i, t) \in Nat \cup {-1}
<1> DEFINE S == {k \in logOffset[i] .. lastLogIndex(i) : termAt(i, k) = t}
<1>1. S \subseteq Nat /\ \A n \in S : n <= lastLogIndex(i)
  BY LogFacts
<1>2. lastLogIndex(i) \in Nat
  BY LogFacts
<1>3. CASE S # {}
  <2>1. \E n \in S : \A m \in S : m <= n
    <3> HIDE DEF S
    <3> QED  BY <1>1, <1>2, <1>3, NatMax, Zenon
  <2> QED  BY <1>1, <1>3, <2>1 DEF lastIndexOfTerm
<1>4. CASE S = {}
  BY <1>4 DEF lastIndexOfTerm
<1> QED  BY <1>3, <1>4

\* firstIndexOfRun is an index inside the log, at or before the one it is
\* asked for.
LEMMA FirstIndexOfRunType ==
    ASSUME TypeOK, NEW i \in Server, NEW idx \in Nat, logOffset[i] <= idx
    PROVE  firstIndexOfRun(i, idx) \in logOffset[i] .. idx
<1> DEFINE S == {k \in logOffset[i] .. idx :
                    \A l \in k .. idx : termAt(i, l) = termAt(i, idx)}
<1>1. logOffset[i] \in Nat
  BY LogFacts
<1>2. idx \in S /\ S \subseteq Nat
  BY <1>1
<1>3. PICK k \in S : \A l \in S : k <= l
  <2> HIDE DEF S
  <2> QED  BY <1>2, NatMin, Zenon
<1>4. k = logOffset[i] \/ termAt(i, k - 1) # termAt(i, idx)
  <2> SUFFICES ASSUME k # logOffset[i], termAt(i, k - 1) = termAt(i, idx)
               PROVE  FALSE
    OBVIOUS
  <2>1. k - 1 \in logOffset[i] .. idx
    BY <1>1, <1>3
  <2>2. \A l \in k - 1 .. idx : l = k - 1 \/ l \in k .. idx
    BY <1>1, <1>3
  <2>3. k - 1 \in S
    BY <1>3, <2>1, <2>2
  <2> QED  BY <1>1, <1>3, <2>3
<1> QED  BY <1>3, <1>4 DEF firstIndexOfRun

\* The loop of HandleAppendEntries leaves a log of entries that still has its
\* sentinel, when the previous entry was found inside the log.
LEMMA AppendedLogType ==
    ASSUME TypeOK, NEW i \in Server, NEW prev \in Nat, NEW entries \in Seq(Entry),
           logOffset[i] <= prev, prev <= lastLogIndex(i)
    PROVE  AppendedLog(i, prev, entries) \in Seq(Entry) /\ AppendedLog(i, prev, entries) # <<>>
<1> DEFINE new == {k \in 1 .. Len(entries) : termAt(i, prev + k) # entries[k].term}
           k == CHOOSE k \in new : \A l \in new : k <= l
<1>1. Len(entries) \in Nat /\ \A l \in 1 .. Len(entries) : entries[l] \in Entry
  BY LenProperties
<1>2. CASE new = {}
  BY <1>2, LogFacts DEF AppendedLog, TypeOK
<1>3. CASE new # {}
  <2>1. k \in new /\ \A l \in new : k <= l
    <3>1. new \subseteq Nat
      BY <1>1
    <3>2. \E n \in new : \A l \in new : n <= l
      <4> HIDE DEF new
      <4> QED  BY <1>3, <3>1, NatMin, Zenon
    <3> HIDE DEF new
    <3> QED  BY <3>2
  <2>2. k \in 1 .. Len(entries)
    BY <2>1
  <2> HIDE DEF k
  <2>3. prev + k - 1 <= lastLogIndex(i)
    <3>1. CASE k = 1
      BY <3>1, LogFacts
    <3>2. CASE k # 1
      <4>1. k - 1 \in 1 .. Len(entries) /\ k - 1 \notin new
        BY <1>1, <2>1, <2>2, <3>2
      <4>2. termAt(i, prev + (k - 1)) = entries[k - 1].term
        BY <4>1
      <4>3. termAt(i, prev + (k - 1)) # -1
        BY <1>1, <4>1, <4>2 DEF Entry
      <4> QED  BY <1>1, <2>2, <4>3, LogFacts
    <3> QED  BY <3>1, <3>2
  <2>4. prev + k - logOffset[i] \in 1 .. Len(log[i])
    <3>1. Len(log[i]) \in Nat /\ logOffset[i] \in Nat
      BY LogFacts
    <3>2. k \in Nat /\ k >= 1 /\ prev + k - 1 <= logOffset[i] + Len(log[i]) - 1
      BY <1>1, <2>2, <2>3 DEF lastLogIndex
    <3> QED  BY <3>1, <3>2
  <2>5. /\ SubSeq(log[i], 1, prev + k - logOffset[i]) \in Seq(Entry)
        /\ Len(SubSeq(log[i], 1, prev + k - logOffset[i])) = prev + k - logOffset[i]
    BY <2>4, LogFacts, SubSeqEntries, SubSeqProperties
  <2>6. SubSeq(entries, k, Len(entries)) \in Seq(Entry)
    BY <1>1, <2>2, SubSeqEntries
  <2>7. AppendedLog(i, prev, entries) =
            SubSeq(log[i], 1, prev + k - logOffset[i]) \o SubSeq(entries, k, Len(entries))
    BY <1>3, Zenon DEF AppendedLog, k
  <2> QED  BY <2>4, <2>5, <2>6, <2>7, ConcatProperties, EmptySeq
<1> QED  BY <1>2, <1>3

\* advanceCommitIndex returns an index.
LEMMA AdvancedCommitIndexType ==
    ASSUME TypeOK, NEW i \in Server, NEW lg \in Seq(Entry), NEW mi
    PROVE  AdvancedCommitIndex(i, lg, mi) \in Nat
<1> DEFINE last == logOffset[i] + Len(lg) - 1
           S == {idx \in commitIndex[i] + 1 .. last :
                    /\ lg[idx - logOffset[i] + 1].term = currentTerm[i]
                    /\ 1 + Cardinality({j \in Peers(i) : mi[j] >= idx}) >= quorumSize}
<1>1. commitIndex[i] \in Nat /\ logOffset[i] \in Nat /\ Len(lg) \in Nat
  BY LenProperties DEF TypeOK
<1>2. S \subseteq commitIndex[i] + 1 .. last
  OBVIOUS
<1>3. CASE S # {}
  <2>1. S \subseteq Nat /\ \A n \in S : n <= logOffset[i] + Len(lg)
    <3> HIDE DEF S
    <3> QED  BY <1>1, <1>2
  <2>2. PICK n \in S : \A m \in S : m <= n
    <3>1. logOffset[i] + Len(lg) \in Nat
      BY <1>1
    <3> HIDE DEF S
    <3> QED  BY <1>3, <2>1, <3>1, NatMax, Zenon
  <2> QED  BY <1>3, <2>1, <2>2, Zenon DEF AdvancedCommitIndex
<1>4. CASE S = {}
  BY <1>1, <1>4 DEF AdvancedCommitIndex
<1> QED  BY <1>3, <1>4, Zenon

=============================================================================
