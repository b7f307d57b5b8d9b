--------------------------- MODULE RaftCopyProofs ---------------------------
(***************************************************************************)
(* The copies of the log of module Raft: every log or part of a log that a *)
(* node holds in memory, has on disk, or that an AppendEntries call        *)
(* carries.  Each copy a handler makes is a section of one that exists, or *)
(* two of them spliced; what agrees with those agrees with it.             *)
(***************************************************************************)
EXTENDS RaftLogProofs

\* The first element stands for index offset: only its term counts.
Copy(offset, lg) == [offset |-> offset, log |-> lg]
NodeCopy(i) == Copy(logOffset[i], log[i])
DiskCopy(i) == Copy(disk[i].logOffset, disk[i].log)
CallCopy(m) == Copy(m.prevLogIndex, <<Sentinel(m.prevLogTerm)>> \o m.entries)
Copies ==
    {NodeCopy(i) : i \in Server} \cup {DiskCopy(i) : i \in Server}
        \cup {CallCopy(m) : m \in appendRequests}

End(c) == c.offset + Len(c.log) - 1
At(c, k) == c.log[k - c.offset + 1]
Span(c) == c.offset .. End(c)
Held(c) == c.offset + 1 .. End(c)

\* Two copies that have an entry of the same index and term agree up to it.
Agree(c, d) ==
    \A n \in Held(c) \cap Held(d) : At(c, n).term = At(d, n).term =>
        \A k \in Span(c) \cap Span(d) : k <= n =>
            /\ At(c, k).term = At(d, k).term
            /\ k \in Held(c) \cap Held(d) => At(c, k) = At(d, k)

Matching == \A c, d \in Copies : Agree(c, d)

-----------------------------------------------------------------------------
(* Copies. *)

IsCopy(c) == c.offset \in Nat /\ End(c) \in Nat /\ c.offset <= End(c)

\* Agreement is symmetric.
LEMMA AgreeSymmetric ==
    ASSUME NEW c, NEW d, Agree(c, d)
    PROVE  Agree(d, c)
BY Zenon DEF Agree

\* c is a section of a: a suffix, or a snapshot's end.
Part(c, a) ==
    /\ a.offset <= c.offset /\ End(c) <= End(a)
    /\ \A k \in Span(c) : At(c, k).term = At(a, k).term
    /\ \A k \in Held(c) : At(c, k) = At(a, k)

\* A section of a copy agrees with what the copy agrees with.
LEMMA PartAgrees ==
    ASSUME NEW c, NEW a, NEW d, IsCopy(c), IsCopy(a), IsCopy(d), Part(c, a), Agree(a, d)
    PROVE  Agree(c, d)
<1> SUFFICES ASSUME NEW n \in Held(c) \cap Held(d), At(c, n).term = At(d, n).term,
                    NEW k \in Span(c) \cap Span(d), k <= n
             PROVE  /\ At(c, k).term = At(d, k).term
                    /\ k \in Held(c) \cap Held(d) => At(c, k) = At(d, k)
  BY Zenon DEF Agree
<1>1. n \in Held(a) /\ k \in Span(a) /\ (k \in Held(c) => k \in Held(a)) /\ n \in Span(c)
  BY DEF Part, Held, Span, IsCopy
<1>2. At(a, n).term = At(d, n).term
  BY <1>1, Zenon DEF Part
<1>3. /\ At(a, k).term = At(d, k).term
      /\ k \in Held(a) \cap Held(d) => At(a, k) = At(d, k)
  BY <1>1, <1>2, Zenon DEF Agree
<1> QED  BY <1>1, <1>3, Zenon DEF Part

\* c is a up to index p and m behind it, where a and m have equal terms from the
\* start of m to p.
Spliced(c, a, m, p) ==
    /\ c.offset = a.offset /\ End(c) = End(m)
    /\ a.offset <= m.offset /\ m.offset <= p /\ p <= End(a) /\ p < End(m)
    /\ \A k \in a.offset .. p : At(c, k) = At(a, k)
    /\ \A k \in p + 1 .. End(m) : At(c, k) = At(m, k)
    /\ \A k \in m.offset .. p : At(a, k).term = At(m, k).term

\* What the append loop puts together agrees with what both its parts agree
\* with: the entry the two have in common carries the agreement down.
LEMMA SpliceAgrees ==
    ASSUME NEW c, NEW a, NEW m, NEW d, NEW p \in Nat,
           IsCopy(c), IsCopy(a), IsCopy(m), IsCopy(d),
           Spliced(c, a, m, p), Agree(a, m), Agree(a, d), Agree(m, d)
    PROVE  Agree(c, d)
<1> SUFFICES ASSUME NEW n \in Held(c) \cap Held(d), At(c, n).term = At(d, n).term,
                    NEW k \in Span(c) \cap Span(d), k <= n
             PROVE  /\ At(c, k).term = At(d, k).term
                    /\ k \in Held(c) \cap Held(d) => At(c, k) = At(d, k)
  BY Zenon DEF Agree
<1>1. /\ n \in Int /\ k \in Int /\ c.offset < n /\ d.offset < n /\ n <= End(c) /\ n <= End(d)
      /\ c.offset <= k /\ d.offset <= k
      /\ c.offset \in Nat /\ d.offset \in Nat /\ m.offset \in Nat /\ a.offset = c.offset
      /\ End(a) \in Nat /\ End(d) \in Nat /\ End(m) \in Nat /\ End(c) = End(m)
      /\ a.offset <= m.offset /\ m.offset <= p /\ p <= End(a) /\ p < End(m)
  BY DEF Held, Span, IsCopy, Spliced
<1>2. CASE n <= p
  <2>1. n \in Held(a) \cap Held(d) /\ k \in Span(a) \cap Span(d)
        /\ (k \in Held(c) => k \in Held(a))
    BY <1>1, <1>2 DEF Held, Span
  <2>2. At(c, n) = At(a, n) /\ At(c, k) = At(a, k)
    BY <1>1, <1>2 DEF Spliced
  <2> QED  BY <2>1, <2>2, Zenon DEF Agree
<1>3. CASE p < n
  <2>1. n \in Held(m) \cap Held(d) /\ At(m, n).term = At(d, n).term
    BY <1>1, <1>3 DEF Held, Spliced
  <2>2. CASE p < k
    <3>1. k \in Span(m) \cap Span(d) /\ k \in Held(m) /\ At(c, k) = At(m, k)
      BY <1>1, <2>2 DEF Held, Span, Spliced
    <3> QED  BY <2>1, <3>1, Zenon DEF Agree
  <2>3. CASE k <= p /\ m.offset < k
    <3>1. /\ k \in Span(m) \cap Span(d) /\ k \in Held(m) \cap Held(a)
          /\ At(c, k) = At(a, k) /\ At(a, k).term = At(m, k).term
          /\ k \in Span(a) \cap Span(m)
      BY <1>1, <2>3 DEF Held, Span, Spliced
    <3>2. At(a, k) = At(m, k)
      BY <1>1, <3>1 DEF Agree
    <3> QED  BY <2>1, <3>1, <3>2, Zenon DEF Agree
  <2>4. CASE k <= m.offset
    <3>1. /\ m.offset \in Span(m) \cap Span(d) /\ m.offset <= n
          /\ m.offset \in Span(a) /\ k \in Span(a) \cap Span(d) /\ At(c, k) = At(a, k)
          /\ At(a, m.offset).term = At(m, m.offset).term
      BY <1>1, <1>3, <2>4 DEF Span, Spliced
    <3>2. At(a, m.offset).term = At(d, m.offset).term
      BY <2>1, <3>1, Zenon DEF Agree
    <3>3. CASE m.offset \in Held(a) \cap Held(d)
      <4>1. k \in Held(c) => k \in Held(a)
        BY <1>1, <2>4 DEF Held
      <4> QED  BY <2>4, <3>1, <3>2, <3>3, <4>1, Zenon DEF Agree
    <3>4. CASE m.offset \notin Held(a) \cap Held(d)
      <4>1. k = m.offset /\ k \notin Held(c) \cap Held(d)
        BY <1>1, <1>3, <2>4, <3>4 DEF Held
      <4> QED  BY <3>1, <3>2, <4>1, Zenon
    <3> QED  BY <3>3, <3>4, Zenon
  <2> QED  BY <1>1, <2>2, <2>3, <2>4
<1> QED  BY <1>1, <1>2, <1>3

\* c is a with one entry more.
Extended(c, a, e) ==
    /\ c.offset = a.offset /\ End(c) = End(a) + 1
    /\ \A k \in Span(a) : At(c, k) = At(a, k)
    /\ At(c, End(c)) = e

\* A log with a new entry agrees with every copy that has no entry of its index
\* and term.
LEMMA ExtendedAgrees ==
    ASSUME NEW c, NEW a, NEW d, NEW e, IsCopy(c), IsCopy(a), IsCopy(d),
           Extended(c, a, e), Agree(a, d),
           End(c) \in Held(d) => At(d, End(c)).term # e.term
    PROVE  Agree(c, d)
<1> SUFFICES ASSUME NEW n \in Held(c) \cap Held(d), At(c, n).term = At(d, n).term,
                    NEW k \in Span(c) \cap Span(d), k <= n
             PROVE  /\ At(c, k).term = At(d, k).term
                    /\ k \in Held(c) \cap Held(d) => At(c, k) = At(d, k)
  BY Zenon DEF Agree
<1>1. n # End(c)
  BY Zenon DEF Extended
<1>2. n \in Held(a) /\ k \in Span(a) /\ n \in Span(a) /\ (k \in Held(c) => k \in Held(a))
  BY <1>1 DEF Held, Span, IsCopy, Extended
<1> QED  BY <1>2, Zenon DEF Agree, Extended

-----------------------------------------------------------------------------
(* The copies of a state. *)

\* A node's log and what is on its disk are copies, and their ends are inside.
LEMMA LogCopies ==
    ASSUME NEW offset \in Nat, NEW lg \in Seq(Entry), lg # <<>>
    PROVE  /\ IsCopy(Copy(offset, lg))
           /\ End(Copy(offset, lg)) = offset + Len(lg) - 1
           /\ Copy(offset, lg).offset = offset
           /\ \A k : At(Copy(offset, lg), k) = lg[k - offset + 1]
BY EmptySeq, LenProperties DEF Copy, IsCopy, End, At

\* The copy a node holds in memory.
LEMMA NodeCopies ==
    ASSUME TypeOK, NEW i \in Server
    PROVE  /\ IsCopy(NodeCopy(i)) /\ NodeCopy(i) \in Copies
           /\ NodeCopy(i).offset = logOffset[i] /\ End(NodeCopy(i)) = lastLogIndex(i)
           /\ \A k : At(NodeCopy(i), k) = log[i][k - logOffset[i] + 1]
           /\ \A k \in Span(NodeCopy(i)) : At(NodeCopy(i), k).term = termAt(i, k)
<1>1. logOffset[i] \in Nat /\ log[i] \in Seq(Entry) /\ log[i] # <<>>
  BY Zenon DEF TypeOK
<1>2. /\ IsCopy(NodeCopy(i)) /\ NodeCopy(i).offset = logOffset[i]
      /\ End(NodeCopy(i)) = lastLogIndex(i)
      /\ \A k : At(NodeCopy(i), k) = log[i][k - logOffset[i] + 1]
  BY <1>1, LogCopies, Zenon DEF NodeCopy, lastLogIndex
<1>3. \A k \in Span(NodeCopy(i)) : At(NodeCopy(i), k).term = termAt(i, k)
  BY <1>1, <1>2 DEF Span, termAt, IsCopy
<1> QED  BY <1>2, <1>3, Zenon DEF Copies

\* The copy an AppendEntries call carries.
LEMMA CallCopies ==
    ASSUME NEW m, m.prevLogIndex \in Nat, m.entries \in Seq(Entry)
    PROVE  /\ IsCopy(CallCopy(m))
           /\ CallCopy(m).offset = m.prevLogIndex
           /\ End(CallCopy(m)) = m.prevLogIndex + Len(m.entries)
           /\ Len(m.entries) \in Nat
           /\ At(CallCopy(m), m.prevLogIndex).term = m.prevLogTerm
           /\ \A k \in 1 .. Len(m.entries) : At(CallCopy(m), m.prevLogIndex + k) = m.entries[k]
<1> DEFINE s == Sentinel(m.prevLogTerm)
<1>1. <<s>> \in Seq(Entry \cup {s}) /\ m.entries \in Seq(Entry \cup {s}) /\ Len(<<s>>) = 1
      /\ <<s>>[1] = s /\ s.term = m.prevLogTerm
  <2>1. m.entries \in Seq(Entry \cup {s})
    BY SeqMonotonic, Zenon
  <2> QED  BY <2>1 DEF Sentinel
<1>2. Len(m.entries) \in Nat
  BY LenProperties, Zenon
<1> HIDE DEF s
<1>3. /\ Len(<<s>> \o m.entries) = 1 + Len(m.entries)
      /\ \A k \in 1 .. 1 + Len(m.entries) :
             (<<s>> \o m.entries)[k] = IF k <= 1 THEN <<s>>[k] ELSE m.entries[k - 1]
  BY <1>1, <1>2, ConcatProperties
<1>4. CallCopy(m).offset = m.prevLogIndex /\ CallCopy(m).log = <<s>> \o m.entries
  BY Zenon DEF CallCopy, Copy, s
<1> DEFINE lg == <<s>> \o m.entries
<1> HIDE DEF lg
<1>5. /\ CallCopy(m).log = lg /\ Len(lg) = 1 + Len(m.entries)
      /\ lg[1] = s
      /\ \A k \in 1 .. Len(m.entries) : lg[k + 1] = m.entries[k]
  BY <1>1, <1>2, <1>3, <1>4 DEF lg
<1>6. /\ At(CallCopy(m), m.prevLogIndex) = lg[1]
      /\ \A k \in 1 .. Len(m.entries) : At(CallCopy(m), m.prevLogIndex + k) = lg[k + 1]
  <2>1. \A k \in 0 .. Len(m.entries) : (m.prevLogIndex + k) - m.prevLogIndex + 1 = k + 1
    BY <1>2
  <2>2. \A k : At(CallCopy(m), k) = lg[k - m.prevLogIndex + 1]
    BY <1>4, <1>5, Zenon DEF At
  <2>3. m.prevLogIndex - m.prevLogIndex + 1 = 1
    OBVIOUS
  <2> QED  BY <1>2, <2>1, <2>2, <2>3
<1> QED  BY <1>1, <1>2, <1>4, <1>5, <1>6 DEF IsCopy, End

\* Every copy of a state is one.
LEMMA AllCopies ==
    ASSUME TypeOK, NEW c \in Copies
    PROVE  IsCopy(c)
<1>1. CASE \E i \in Server : c = NodeCopy(i)
  BY <1>1, NodeCopies, Zenon
<1>2. CASE \E i \in Server : c = DiskCopy(i)
  <2>1. PICK i \in Server : c = DiskCopy(i)
    BY <1>2, Zenon
  <2>2. disk[i].logOffset \in Nat /\ disk[i].log \in Seq(Entry) /\ disk[i].log # <<>>
    BY Zenon DEF TypeOK, PersistentState
  <2> QED  BY <2>1, <2>2, LogCopies, Zenon DEF DiskCopy
<1>3. CASE \E m \in appendRequests : c = CallCopy(m)
  BY <1>3, CallCopies, Zenon DEF TypeOK, AppendRequest
<1> QED  BY <1>1, <1>2, <1>3, Zenon DEF Copies

-----------------------------------------------------------------------------
(* The copies a step makes. *)

\* Start and CrashAfterStartSave extend the leader's log.
LEMMA StartExtends ==
    ASSUME TypeOK, NEW i \in Server, NEW e \in Entry
    PROVE  /\ IsCopy(Copy(logOffset[i], Append(log[i], e)))
           /\ Extended(Copy(logOffset[i], Append(log[i], e)), NodeCopy(i), e)
<1> DEFINE lg == Append(log[i], e)
<1>1. logOffset[i] \in Nat /\ log[i] \in Seq(Entry) /\ log[i] # <<>>
  BY Zenon DEF TypeOK
<1>2. /\ lg \in Seq(Entry) /\ lg # <<>> /\ Len(lg) = Len(log[i]) + 1 /\ Len(log[i]) \in Nat
      /\ \A k \in 1 .. Len(log[i]) : lg[k] = log[i][k]
      /\ lg[Len(log[i]) + 1] = e
  BY <1>1, AppendProperties, LenProperties
<1> HIDE DEF lg
<1>3. /\ IsCopy(Copy(logOffset[i], lg))
      /\ End(Copy(logOffset[i], lg)) = logOffset[i] + Len(lg) - 1
      /\ Copy(logOffset[i], lg).offset = logOffset[i]
      /\ \A k : At(Copy(logOffset[i], lg), k) = lg[k - logOffset[i] + 1]
  BY <1>1, <1>2, LogCopies, Zenon
<1>4. /\ NodeCopy(i).offset = logOffset[i]
      /\ End(NodeCopy(i)) = logOffset[i] + Len(log[i]) - 1
      /\ \A k : At(NodeCopy(i), k) = log[i][k - logOffset[i] + 1]
  BY NodeCopies, Zenon DEF lastLogIndex
<1>5. \A k \in Span(NodeCopy(i)) : k - logOffset[i] + 1 \in 1 .. Len(log[i])
  <2>1. \A o, n \in Nat : \A k \in o .. o + n - 1 : k - o + 1 \in 1 .. n
    OBVIOUS
  <2> QED  BY <1>1, <1>2, <1>4, <2>1, Zenon DEF Span
<1>6. End(Copy(logOffset[i], lg)) - logOffset[i] + 1 = Len(log[i]) + 1
  BY <1>1, <1>2, <1>3
<1>7. Extended(Copy(logOffset[i], lg), NodeCopy(i), e)
  <2>1. End(Copy(logOffset[i], lg)) = End(NodeCopy(i)) + 1
    BY <1>1, <1>2, <1>3, <1>4
  <2>2. \A k \in Span(NodeCopy(i)) : At(Copy(logOffset[i], lg), k) = At(NodeCopy(i), k)
    BY <1>2, <1>3, <1>4, <1>5, Zenon
  <2>3. At(Copy(logOffset[i], lg), End(Copy(logOffset[i], lg))) = e
    BY <1>2, <1>3, <1>6, Zenon
  <2> QED  BY <1>3, <1>4, <2>1, <2>2, <2>3, Zenon DEF Extended
<1> QED  BY <1>3, <1>7, Zenon DEF lg

\* m carries nothing that conflicts with a, nor anything a lacks.
Contains(a, m) ==
    /\ a.offset <= m.offset /\ End(m) <= End(a)
    /\ \A k \in Span(m) : At(a, k).term = At(m, k).term

\* The append loop keeps the log if the call's entries are all there, and else
\* splices them in at the first conflict or at the log's end.
LEMMA AppendSplices ==
    ASSUME TypeOK, NEW i \in Server, NEW m \in appendRequests, PrevMatches(i, m)
    PROVE  \/ /\ AppendedLog(i, m.prevLogIndex, m.entries) = log[i]
              /\ Contains(NodeCopy(i), CallCopy(m))
           \/ /\ IsCopy(Copy(logOffset[i], AppendedLog(i, m.prevLogIndex, m.entries)))
              /\ \E p \in Nat :
                     /\ Spliced(Copy(logOffset[i], AppendedLog(i, m.prevLogIndex, m.entries)),
                                NodeCopy(i), CallCopy(m), p)
                     /\ p + 1 <= lastLogIndex(i) =>
                            At(NodeCopy(i), p + 1).term # At(CallCopy(m), p + 1).term
<1> DEFINE prev == m.prevLogIndex
           entries == m.entries
           lg == AppendedLog(i, prev, entries)
           new == {k \in 1 .. Len(entries) : termAt(i, prev + k) # entries[k].term}
           a == NodeCopy(i)
           d == CallCopy(m)
<1>1. prev \in Nat /\ entries \in Seq(Entry) /\ Len(entries) \in Nat
  BY LenProperties, Zenon DEF TypeOK, AppendRequest
<1>2. /\ IsCopy(d) /\ d.offset = prev /\ End(d) = prev + Len(entries)
      /\ At(d, prev).term = m.prevLogTerm
      /\ \A k \in 1 .. Len(entries) : At(d, prev + k) = entries[k]
  BY <1>1, CallCopies, Zenon
<1>3. /\ logOffset[i] \in Nat /\ lastLogIndex(i) \in Nat /\ Len(log[i]) \in Nat
      /\ log[i] \in Seq(Entry) /\ lastLogIndex(i) = logOffset[i] + Len(log[i]) - 1
      /\ logOffset[i] <= prev /\ prev <= lastLogIndex(i) /\ termAt(i, prev) = m.prevLogTerm
  BY LogFacts, Zenon DEF PrevMatches, lastLogIndex
<1>4. /\ IsCopy(a) /\ a.offset = logOffset[i] /\ End(a) = lastLogIndex(i)
      /\ \A k : At(a, k) = log[i][k - logOffset[i] + 1]
      /\ \A k \in Span(a) : At(a, k).term = termAt(i, k)
  BY NodeCopies, Zenon
<1>5. \A k \in 1 .. Len(entries) : entries[k].term \in Nat
  <2>1. \A k \in 1 .. Len(entries) : entries[k] \in Entry
    BY <1>1, ElementOfSeq, Zenon
  <2> QED  BY <2>1, Zenon DEF Entry
<1>6. ASSUME NEW k \in 1 .. Len(entries), k \notin new
      PROVE  /\ prev + k \in Span(a) /\ At(a, prev + k).term = At(d, prev + k).term
  <2>1. termAt(i, prev + k) = entries[k].term /\ termAt(i, prev + k) # -1
    BY <1>5, <1>6
  <2>2. logOffset[i] <= prev + k /\ prev + k <= lastLogIndex(i)
    BY <1>1, <2>1, LogFacts
  <2>3. prev + k \in Span(a)
    BY <1>1, <1>3, <1>4, <2>2 DEF Span
  <2> QED  BY <1>2, <1>4, <2>1, <2>3, Zenon
<1>7. prev \in Span(a) /\ At(a, prev).term = At(d, prev).term
  <2>1. prev \in Span(a)
    BY <1>1, <1>3, <1>4 DEF Span
  <2> QED  BY <1>2, <1>3, <1>4, <2>1, Zenon
<1> HIDE DEF a, d, prev, entries
<1>8. CASE new = {}
  <2>1. lg = log[i]
    BY <1>8, Zenon DEF AppendedLog
  <2>2. \A k \in Span(d) : k = prev \/ (k - prev \in 1 .. Len(entries) /\ prev + (k - prev) = k)
    BY <1>1, <1>2 DEF Span
  <2>3. \A k \in Span(d) : k \in Span(a) /\ At(a, k).term = At(d, k).term
    BY <1>6, <1>7, <1>8, <2>2, Zenon
  <2>4. End(d) \in Span(d)
    BY <1>2 DEF Span, IsCopy
  <2>5. End(d) <= End(a)
    BY <1>2, <1>4, <2>3, <2>4 DEF Span, IsCopy
  <2> QED  BY <1>2, <1>3, <1>4, <2>1, <2>3, <2>5, Zenon DEF Contains, a, d, prev, entries
<1>9. CASE new # {}
  <2>1. PICK k \in Nat : /\ k = (CHOOSE l \in new : \A j \in new : l <= j)
                        /\ k \in new /\ \A j \in new : k <= j
    <3>1. new \subseteq Nat
      BY <1>1
    <3> HIDE DEF new
    <3>2. \E n \in new : \A j \in new : n <= j
      BY <1>9, <3>1, NatMin, Zenon
    <3> QED  BY <3>1, <3>2, Zenon
  <2>2. k \in 1 .. Len(entries) /\ \A j \in 1 .. k - 1 : j \in 1 .. Len(entries) /\ j \notin new
    <3>1. k \in 1 .. Len(entries)
      BY <2>1, Zenon
    <3>2. \A j \in 1 .. k - 1 : j \in 1 .. Len(entries) /\ ~ (k <= j)
      BY <1>1, <3>1
    <3> QED  BY <2>1, <3>1, <3>2, Zenon
  <2> DEFINE p == prev + k - 1
             l1 == SubSeq(log[i], 1, prev + k - logOffset[i])
             l2 == SubSeq(entries, k, Len(entries))
  <2>3. p \in Nat /\ prev <= p /\ p < End(d) /\ k \in Nat /\ k >= 1 /\ k <= Len(entries)
    BY <1>1, <1>2, <2>2
  <2>4. \A j \in prev .. p : j \in Span(a) /\ At(a, j).term = At(d, j).term
    <3>1. \A j \in prev .. p : j = prev \/ (j - prev \in 1 .. k - 1 /\ prev + (j - prev) = j)
      BY <1>1, <2>3
    <3> QED  BY <1>6, <1>7, <2>2, <3>1, Zenon
  <2>5. p <= lastLogIndex(i)
    <3>1. p \in Span(a)
      BY <1>1, <2>3, <2>4
    <3> QED  BY <1>3, <1>4, <3>1 DEF Span
  <2>6. lg = l1 \o l2
    BY <1>9, <2>1, Zenon DEF AppendedLog, new, prev, entries
  <2>7. /\ l1 \in Seq(Entry) /\ Len(l1) = p + 1 - logOffset[i]
        /\ \A j \in 1 .. Len(l1) : l1[j] = log[i][j]
    <3>1. prev + k - logOffset[i] \in Nat /\ prev + k - logOffset[i] <= Len(log[i])
          /\ prev + k - logOffset[i] = p + 1 - logOffset[i]
      <4>1. PICK o \in Nat, q \in Nat, n \in Nat :
                o = logOffset[i] /\ q = prev /\ n = Len(log[i])
        BY <1>1, <1>3, Zenon
      <4>2. o <= q /\ q + k - 1 <= o + n - 1 /\ k \in Nat /\ k >= 1
        BY <1>3, <2>3, <2>5, <4>1, Zenon
      <4>3. q + k - o \in Nat /\ q + k - o <= n /\ q + k - o = (q + k - 1) + 1 - o
        <5>1. o \in Nat /\ q \in Nat /\ n \in Nat
          BY <4>1, Zenon
        <5> QED  BY <4>2, <5>1
      <4> QED  BY <4>1, <4>3, Zenon DEF p
    <3>2. l1 \in Seq(Entry)
      BY <1>3, <3>1, SubSeqEntries
    <3>3. /\ Len(l1) = prev + k - logOffset[i]
          /\ \A j \in 1 .. prev + k - logOffset[i] : l1[j] = log[i][1 + j - 1]
      BY <1>3, <3>1, SubSeqProperties
    <3> QED  BY <3>1, <3>2, <3>3
  <2>8. /\ l2 \in Seq(Entry) /\ Len(l2) = Len(entries) - k + 1
        /\ \A j \in 1 .. Len(l2) : l2[j] = entries[k + j - 1]
    <3>1. l2 \in Seq(Entry)
      BY <1>1, <2>3, SubSeqEntries
    <3> QED  BY <1>1, <2>3, <3>1, SubSeqProperties
  <2> HIDE DEF l1, l2, p, new, lg
  <2>9. /\ lg \in Seq(Entry) /\ Len(lg) = Len(l1) + Len(l2) /\ Len(l1) \in Nat /\ Len(l2) \in Nat
        /\ \A j \in 1 .. Len(l1) + Len(l2) :
               lg[j] = IF j <= Len(l1) THEN l1[j] ELSE l2[j - Len(l1)]
    BY <2>6, <2>7, <2>8, ConcatProperties, LenProperties, Zenon
  <2>10. Len(lg) = p + 1 - logOffset[i] + Len(entries) - k + 1 /\ Len(lg) > 0 /\ lg # <<>>
    <3>1. Len(lg) = p + 1 - logOffset[i] + Len(entries) - k + 1 /\ Len(lg) > 0
      <4>1. PICK o \in Nat, q \in Nat, n \in Nat :
                o = logOffset[i] /\ q = prev /\ n = Len(entries)
        BY <1>1, <1>3, Zenon
      <4>2. Len(lg) = (q + k - 1) + 1 - o + (n - k + 1)
        BY <2>7, <2>8, <2>9, <4>1, Zenon DEF p
      <4>3. o <= q /\ k >= 1 /\ k <= n
        BY <1>3, <2>3, <4>1, Zenon
      <4>4. Len(lg) = (q + k - 1) + 1 - o + n - k + 1 /\ Len(lg) > 0
        BY <4>2, <4>3
      <4> QED  BY <4>1, <4>4, Zenon DEF p
    <3> QED  BY <2>9, <3>1, EmptySeq
  <2> DEFINE c == Copy(logOffset[i], lg)
  <2>11. /\ IsCopy(c) /\ c.offset = logOffset[i] /\ End(c) = logOffset[i] + Len(lg) - 1
         /\ \A j : At(c, j) = lg[j - logOffset[i] + 1]
    BY <1>3, <2>9, <2>10, LogCopies, Zenon
  <2> HIDE DEF c
  <2>12. End(c) = End(d)
    <3>1. PICK o \in Nat, q \in Nat, n \in Nat :
              o = logOffset[i] /\ q = prev /\ n = Len(entries)
      BY <1>1, <1>3, Zenon
    <3>2. End(c) = o + ((q + k - 1) + 1 - o + n - k + 1) - 1 /\ End(d) = q + n
      BY <1>2, <2>10, <2>11, <3>1, Zenon DEF p
    <3>3. o + ((q + k - 1) + 1 - o + n - k + 1) - 1 = q + n
      <4>1. o \in Nat /\ q \in Nat /\ n \in Nat /\ k \in Nat
        BY <2>3, <3>1, Zenon
      <4> QED  BY <4>1
    <3> QED  BY <3>2, <3>3, Zenon
  <2>13. ASSUME NEW j \in a.offset .. p PROVE At(c, j) = At(a, j)
    <3>1. j - logOffset[i] + 1 \in 1 .. Len(l1)
      <4>1. \A o, q \in Nat : \A x \in o .. q : x - o + 1 \in 1 .. q + 1 - o
        OBVIOUS
      <4> QED  BY <1>3, <1>4, <2>3, <2>7, <4>1, Zenon
    <3>2. j - logOffset[i] + 1 \in 1 .. Len(l1) + Len(l2) /\ j - logOffset[i] + 1 <= Len(l1)
      BY <2>9, <3>1
    <3> QED  BY <1>4, <2>7, <2>9, <2>11, <3>1, <3>2, Zenon
  <2>14. ASSUME NEW j \in p + 1 .. End(d) PROVE At(c, j) = At(d, j)
    <3> DEFINE q == j - logOffset[i] + 1
    <3>1. /\ q \in 1 .. Len(l1) + Len(l2) /\ ~ (q <= Len(l1)) /\ q - Len(l1) \in 1 .. Len(l2)
          /\ k + (q - Len(l1)) - 1 = j - prev /\ j - prev \in 1 .. Len(entries)
          /\ prev + (j - prev) = j
      <4>1. PICK o \in Nat, r \in Nat, n \in Nat, y \in Int :
                o = logOffset[i] /\ r = prev /\ n = Len(entries) /\ y = j
        <5>1. j \in Int
          BY <1>2, <2>3 DEF IsCopy
        <5> QED  BY <1>1, <1>3, <5>1, Zenon
      <4>2. o <= r /\ k >= 1 /\ k <= n /\ r + k <= y /\ y <= r + n
        <5>1. j \in (prev + k - 1) + 1 .. prev + Len(entries)
          BY <1>2, Zenon DEF p
        <5> QED  BY <1>3, <2>3, <4>1, <5>1
      <4>3. Len(l1) = r + k - o /\ Len(l2) = n - k + 1
        <5>1. Len(l1) = (r + k - 1) + 1 - o /\ Len(l2) = n - k + 1
          BY <2>7, <2>8, <4>1, Zenon DEF p
        <5> QED  BY <5>1
      <4>4. /\ y - o + 1 \in 1 .. (r + k - o) + (n - k + 1)
            /\ ~ (y - o + 1 <= r + k - o)
            /\ (y - o + 1) - (r + k - o) \in 1 .. n - k + 1
            /\ k + ((y - o + 1) - (r + k - o)) - 1 = y - r
            /\ y - r \in 1 .. n /\ r + (y - r) = y
        BY <4>2
      <4> QED  BY <4>1, <4>3, <4>4, Zenon
    <3>2. At(c, j) = l2[q - Len(l1)]
      BY <2>9, <2>11, <3>1, Zenon
    <3>3. l2[q - Len(l1)] = entries[j - prev]
      BY <2>8, <3>1, Zenon
    <3> QED  BY <1>2, <3>1, <3>2, <3>3, Zenon
  <2>15. Spliced(c, a, d, p)
    BY <1>2, <1>3, <1>4, <2>3, <2>4, <2>5, <2>11, <2>12, <2>13, <2>14, Zenon DEF Spliced
  <2>16. p + 1 <= lastLogIndex(i) => At(a, p + 1).term # At(d, p + 1).term
    <3> SUFFICES ASSUME p + 1 <= lastLogIndex(i) PROVE At(a, p + 1).term # At(d,
    p + 1).term
      BY Zenon
    <3>1. p + 1 = prev + k /\ p + 1 \in Span(a)
      BY <1>1, <1>3, <1>4, <2>3 DEF p, Span
    <3>2. termAt(i, prev + k) # entries[k].term
      BY <2>1, Zenon DEF new
    <3> QED  BY <1>2, <1>4, <2>2, <3>1, <3>2, Zenon
  <2> QED  BY <2>3, <2>11, <2>15, <2>16, Zenon DEF a, d, c, lg, prev, entries
<1> QED  BY <1>8, <1>9, Zenon

\* The suffix of a log behind index, after the term of index, is a section of it.
LEMMA SuffixIsPart ==
    ASSUME TypeOK, NEW i \in Server, NEW index \in Nat,
           logOffset[i] <= index, index <= lastLogIndex(i), NEW m,
           m.prevLogIndex = index, m.prevLogTerm = termAt(i, index),
           m.entries = SubSeq(log[i], index - logOffset[i] + 2, Len(log[i]))
    PROVE  /\ IsCopy(CallCopy(m)) /\ Part(CallCopy(m), NodeCopy(i))
           /\ End(CallCopy(m)) = lastLogIndex(i)
<1> DEFINE a == NodeCopy(i)
           c == CallCopy(m)
<1>1. PICK o \in Nat, n \in Nat : o = logOffset[i] /\ n = Len(log[i])
  BY LogFacts, Zenon
<1>2. lastLogIndex(i) = o + n - 1 /\ log[i] \in Seq(Entry) /\ o <= index /\ index <= o + n - 1
  BY <1>1, LogFacts, Zenon DEF lastLogIndex
<1>3. /\ m.entries \in Seq(Entry) /\ Len(m.entries) = o + n - 1 - index
      /\ \A k \in 1 .. o + n - 1 - index : m.entries[k] = log[i][(index - o + 2) + k - 1]
  <2>1. PICK x \in Nat : x = index - o + 2
    BY <1>2
  <2>2. x \in Nat \ {0} /\ x <= n + 1 /\ n - x + 1 = o + n - 1 - index
    BY <1>2, <2>1
  <2>3. PICK s \in Seq(Entry) : s = log[i] /\ Len(s) = n
    BY <1>1, <1>2, Zenon
  <2>4. m.entries = SubSeq(s, x, n)
    BY <1>1, <2>1, <2>3, Zenon
  <2>5. \A k \in x .. n : s[k] \in Entry
    <3>1. \A k \in 1 .. n : s[k] \in Entry
      BY <2>3, ElementOfSeq, Zenon
    <3>2. x .. n \subseteq 1 .. n
      BY <2>2
    <3> QED  BY <3>1, <3>2, Zenon
  <2>6. /\ SubSeq(s, x, n) \in Seq(Entry)
        /\ Len(SubSeq(s, x, n)) = IF x <= n THEN n - x + 1 ELSE 0
        /\ \A k \in 1 .. n - x + 1 : SubSeq(s, x, n)[k] = s[x + k - 1]
    BY <2>2, <2>5, SubSeqProperties
  <2>7. Len(SubSeq(s, x, n)) = n - x + 1
    BY <2>2, <2>6
  <2> DEFINE e == SubSeq(s, x, n)
  <2> HIDE DEF e
  <2>8. /\ e \in Seq(Entry) /\ Len(e) = o + n - 1 - index
        /\ \A k \in 1 .. o + n - 1 - index : e[k] = s[(index - o + 2) + k - 1]
    BY <2>1, <2>2, <2>6, <2>7, Zenon DEF e
  <2> QED  BY <2>3, <2>4, <2>8, Zenon DEF e
<1>4. /\ IsCopy(c) /\ c.offset = index /\ End(c) = index + (o + n - 1 - index)
      /\ At(c, index).term = termAt(i, index)
      /\ \A k \in 1 .. o + n - 1 - index : At(c, index + k) = m.entries[k]
  <2>1. m.prevLogIndex \in Nat /\ m.entries \in Seq(Entry)
    BY <1>3, Zenon
  <2>2. /\ IsCopy(c) /\ c.offset = m.prevLogIndex /\ End(c) = m.prevLogIndex + Len(m.entries)
        /\ At(c, m.prevLogIndex).term = m.prevLogTerm
        /\ \A k \in 1 .. Len(m.entries) : At(c, m.prevLogIndex + k) = m.entries[k]
    BY <2>1, CallCopies, Zenon
  <2> QED  BY <1>3, <2>2, Zenon
<1>5. /\ IsCopy(a) /\ a.offset = o /\ End(a) = o + n - 1
      /\ \A k : At(a, k) = log[i][k - o + 1]
      /\ \A k \in Span(a) : At(a, k).term = termAt(i, k)
  BY <1>1, <1>2, NodeCopies, Zenon
<1> HIDE DEF a, c
<1>6. End(c) = o + n - 1
  BY <1>2, <1>4
<1>7. ASSUME NEW k \in Held(c) PROVE At(c, k) = At(a, k)
  <2>1. k \in index + 1 .. o + n - 1
    BY <1>4, <1>6, Zenon DEF Held
  <2>2. /\ k - index \in 1 .. o + n - 1 - index /\ index + (k - index) = k
        /\ (index - o + 2) + (k - index) - 1 = k - o + 1
    <3>1. \A p, q, r \in Nat : \A x \in p + 1 .. q + r - 1 :
              /\ x - p \in 1 .. q + r - 1 - p /\ p + (x - p) = x
              /\ (p - q + 2) + (x - p) - 1 = x - q + 1
      OBVIOUS
    <3> QED  BY <2>1, <3>1
  <2>3. At(c, k) = m.entries[k - index]
    BY <1>4, <2>2, Zenon
  <2>4. m.entries[k - index] = log[i][k - o + 1]
    BY <1>3, <2>2, Zenon
  <2> QED  BY <1>5, <2>3, <2>4, Zenon
<1>8. ASSUME NEW k \in Span(c) PROVE At(c, k).term = At(a, k).term
  <2>1. k = index \/ k \in Held(c)
    BY <1>4, <1>6 DEF Held, Span
  <2>2. index \in Span(a)
    BY <1>2, <1>5 DEF Span
  <2> QED  BY <1>4, <1>5, <1>7, <2>1, <2>2, Zenon
<1> QED  BY <1>2, <1>4, <1>5, <1>6, <1>7, <1>8 DEF Part, a, c

\* What Snapshot keeps is a section of the log.
LEMMA SnapshotIsPart ==
    ASSUME TypeOK, NEW i \in Server, NEW index \in Nat,
           logOffset[i] <= index, index <= lastLogIndex(i)
    PROVE  /\ IsCopy(Copy(index, CompactedLog(i, index)))
           /\ Part(Copy(index, CompactedLog(i, index)), NodeCopy(i))
           /\ End(Copy(index, CompactedLog(i, index))) = lastLogIndex(i)
<1> DEFINE m == [prevLogIndex |-> index, prevLogTerm |-> termAt(i, index),
                 entries |-> SubSeq(log[i], index - logOffset[i] + 2, Len(log[i]))]
<1>1. CallCopy(m) = Copy(index, CompactedLog(i, index))
  BY Zenon DEF CallCopy, CompactedLog
<1> QED  BY <1>1, SuffixIsPart

\* What sendAppendEntries sends is a section of the leader's log, or nothing.
LEMMA CallIsPart ==
    ASSUME TypeOK, NEW i \in Server, NEW next \in Nat, next > logOffset[i], NEW m,
           m.prevLogIndex = next - 1, m.prevLogTerm = termAt(i, next - 1),
           m.entries = SubSeq(log[i], next - logOffset[i] + 1, Len(log[i]))
    PROVE  /\ IsCopy(CallCopy(m))
           /\ \/ Part(CallCopy(m), NodeCopy(i)) /\ End(CallCopy(m)) = lastLogIndex(i)
              \/ Held(CallCopy(m)) = {} /\ m.prevLogTerm = -1
<1>1. PICK o \in Nat, n \in Nat : o = logOffset[i] /\ n = Len(log[i])
  BY LogFacts, Zenon
<1>2. lastLogIndex(i) = o + n - 1 /\ log[i] \in Seq(Entry) /\ o < next
  BY <1>1, LogFacts, Zenon DEF lastLogIndex
<1>3. CASE next - 1 <= lastLogIndex(i)
  <2>1. PICK index \in Nat : index = next - 1
    BY <1>2
  <2>2. next - o + 1 = index - o + 2 /\ o <= index
    BY <1>2, <2>1
  <2>3. /\ logOffset[i] <= index /\ index <= lastLogIndex(i)
        /\ m.prevLogIndex = index /\ m.prevLogTerm = termAt(i, index)
        /\ m.entries = SubSeq(log[i], index - logOffset[i] + 2, Len(log[i]))
    BY <1>1, <1>3, <2>1, <2>2, Zenon
  <2> QED  BY <2>3, SuffixIsPart, Zenon
<1>4. CASE ~ (next - 1 <= lastLogIndex(i))
  <2>1. next - 1 \in Nat /\ next - o + 1 > n /\ next - o + 1 \in Nat \ {0}
    BY <1>2, <1>4
  <2>2. m.entries \in Seq(Entry) /\ Len(m.entries) = 0
    <3>1. m.entries = SubSeq(log[i], next - o + 1, n)
      BY <1>1, Zenon
    <3>2. PICK s \in Seq(Entry), x \in Nat \ {0} :
              s = log[i] /\ x = next - o + 1 /\ Len(s) = n /\ x > n
      BY <1>1, <1>2, <2>1, Zenon
    <3>3. SubSeq(s, x, n) \in Seq(Entry)
      BY <3>2, SubSeqEntries
    <3>4. \A k \in x .. n : s[k] \in Entry
      BY <3>2
    <3>5. Len(SubSeq(s, x, n)) = IF x <= n THEN n - x + 1 ELSE 0
      BY <3>4, SubSeqProperties
    <3>6. Len(SubSeq(s, x, n)) = 0
      BY <3>2, <3>5
    <3> QED  BY <3>1, <3>2, <3>3, <3>6, Zenon
  <2>3. IsCopy(CallCopy(m)) /\ CallCopy(m).offset = next - 1 /\ End(CallCopy(m)) = next - 1
    <3>1. /\ IsCopy(CallCopy(m)) /\ CallCopy(m).offset = m.prevLogIndex
          /\ End(CallCopy(m)) = m.prevLogIndex + Len(m.entries)
      BY <2>1, <2>2, CallCopies, Zenon
    <3> QED  BY <2>1, <2>2, <3>1
  <2>4. Held(CallCopy(m)) = {}
    BY <2>1, <2>3 DEF Held
  <2>5. m.prevLogTerm = -1
    BY <1>4, <2>1, LogFacts
  <2> QED  BY <2>3, <2>4, <2>5, Zenon
<1> QED  BY <1>3, <1>4, Zenon

=============================================================================
