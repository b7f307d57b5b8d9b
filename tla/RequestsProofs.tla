--------------------------- MODULE RequestsProofs ----------------------------
(***************************************************************************)
(* No wakeup is lost in module Requests, for any number of writes, terms   *)
(* and entries: a write waiting for its commit is woken, one waiting for   *)
(* its result gets it as long as no two calls of applyCommitted overlap,   *)
(* and no result goes to one that is gone.                                 *)
(***************************************************************************)
EXTENDS Requests, TLAPS

-----------------------------------------------------------------------------
(* The inductive invariants. *)

Entry == [term : Nat, cmd : Name]
Stores == {Replay(Commands(s)) : s \in Seq(Name)} \cup {NewStore}
Message == [snapshot : BOOLEAN, index : Index, cmds : Seq(Name), data : Stores]

Label ==
    {"new", "submitted", "waitCommit", "committed", "waitApply", "answered", "notLeader",
     "commitTimeout", "applyTimeout", "elsewhere", "reading", "read"}

Types ==
    /\ currentTerm \in Nat \ {0} /\ commitIndex \in Nat /\ lastApplied \in Nat
    /\ log \in Seq(Entry) /\ applied \in Seq(Name) /\ applyCh \in Seq(Message)
    /\ sending \in SUBSET Message
    /\ notifyCh \in [Index -> Channel \cup {None}]
    /\ applyWaiters \in [Index -> Handler \cup {None}]
    /\ applyResults \in [Index -> Result \cup {None}]
    /\ pc \in [Handler \cup Reader -> Label]
    /\ calls \in [Handler -> Nat]
    /\ index \in [Handler -> 0 .. MaxIndex] /\ term \in [Handler -> Nat]
    /\ waitsOn \in [Handler -> Channel \cup {None, Closed}]
    /\ result \in [Handler -> Result \cup {None}]

\* The node applies what is committed, and that is in its log.
Bounds == lastApplied <= commitIndex /\ commitIndex <= Len(log) /\ Len(log) <= MaxIndex

\* A write the node took in its present term, which it still leads.
Current(h) == term[h] = currentTerm

LeaderInv == \A h \in Handler : Current(h) => leader

\* Where a write is, and what it has by then.
PhaseInv ==
    \A h \in Handler :
        /\ term[h] <= currentTerm
        /\ Current(h) => index[h] >= 1 /\ index[h] <= Len(log)
        /\ pc[h] = "new" => index[h] = 0
        /\ pc[h] \in {"submitted", "waitCommit", "committed", "waitApply"} => index[h] >= 1
        /\ pc[h] \in {"new", "submitted", "waitCommit", "committed", "notLeader"}
               => result[h] = None

\* Writes of one term have entries of their own.
OwnIndex ==
    \A g, h \in Handler : Current(g) /\ Current(h) /\ g # h => index[g] # index[h]

\* A registered channel is its maker's last one, at its index, or a leftover; and
\* where a write of this term has its entry, no other's is registered.
ChannelInv ==
    /\ \A i \in Index : notifyCh[i] # None =>
           notifyCh[i][2] < calls[notifyCh[i][1]] \/ i = index[notifyCh[i][1]]
    /\ \A i \in Index : notifyCh[i] # None => notifyCh[i][2] <= calls[notifyCh[i][1]]
    /\ \A h \in Handler : Current(h) /\ notifyCh[index[h]] # None =>
           notifyCh[index[h]][1] = h /\ notifyCh[index[h]][2] = calls[h]
    /\ \A h \in Handler : pc[h] = "waitCommit" /\ waitsOn[h] # Closed =>
           waitsOn[h] # None /\ waitsOn[h][1] = h /\ waitsOn[h][2] = calls[h]

\* The channel a write of this term waits on is closed, or still to be closed.
WakeInv ==
    \A h \in Handler :
        pc[h] = "waitCommit" /\ Current(h) /\ waitsOn[h] # Closed =>
            notifyCh[index[h]] = waitsOn[h] /\ lastApplied < index[h]

\* The write has been woken, or need not be.
Woken(h) ==
    pc[h] \in {"committed", "waitApply"} \/ (pc[h] = "waitCommit" /\ waitsOn[h] = Closed)

\* It is woken for a committed entry, and never for one that a write of this
\* term has put in its place.
WokenInv ==
    \A g \in Handler : Woken(g) =>
        /\ index[g] <= commitIndex
        /\ \A h \in Handler : Current(h) /\ g # h => index[g] # index[h]

WaitersInv ==
    \A i \in Index : applyWaiters[i] # None =>
        /\ pc[applyWaiters[i]] = "waitApply" /\ index[applyWaiters[i]] = i
        /\ result[applyWaiters[i]] = None

\* What is sent, and what is on its way, is of entries taken before.
LabelInv ==
    /\ \A k \in 1 .. Len(applyCh) : applyCh[k].index <= lastApplied
    /\ \A m \in sending : m.index <= lastApplied

\* A message that continues what ends at index i.
Continues(m, i) ==
    IF m.snapshot THEN Len(m.cmds) = m.index ELSE Len(m.cmds) = 1 /\ m.index = i + 1

\* As long as no two calls overlap, what applyCh carries continues what the store
\* has, and what is on its way, if anything is, continues that.
Before(k) == IF k = 1 THEN Len(applied) ELSE applyCh[k - 1].index
OnItsWay ==
    \/ sending = {} /\ lastApplied = Before(Len(applyCh) + 1)
    \/ \E m \in sending : /\ sending = {m} /\ m.index = lastApplied
                         /\ Continues(m, Before(Len(applyCh) + 1))
QueueInv ==
    InOrder =>
        /\ Len(applied) <= lastApplied
        /\ \A k \in 1 .. Len(applyCh) : Continues(applyCh[k], Before(k))
        /\ OnItsWay

\* A snapshot in it ends before every write of this term.
SnapshotInv ==
    /\ \A k \in 1 .. Len(applyCh), h \in Handler :
           applyCh[k].snapshot /\ Current(h) => applyCh[k].index < index[h]
    /\ \A m \in sending, h \in Handler : m.snapshot /\ Current(h) => m.index < index[h]

\* As long as no two calls overlap, the result of a write of this term is kept,
\* handed over, or still to come.
ResultInv ==
    InOrder => \A h \in Handler : Current(h) =>
        /\ pc[h] \in {"submitted", "waitCommit", "committed"} /\ Len(applied) >= index[h]
               => applyResults[index[h]] # None
        /\ pc[h] = "waitApply" =>
               result[h] # None \/ (applyWaiters[index[h]] = h /\ Len(applied) < index[h])

WaitInv ==
    /\ LeaderInv /\ PhaseInv /\ OwnIndex /\ ChannelInv /\ WakeInv /\ WokenInv
    /\ WaitersInv /\ LabelInv /\ QueueInv /\ SnapshotInv /\ ResultInv

-----------------------------------------------------------------------------
(* Types. *)

\* Two sequences in a row.
LEMMA ConcatSeq ==
    ASSUME NEW S, NEW s \in Seq(S), NEW t \in Seq(S)
    PROVE  s \o t \in Seq(S) /\ Len(s \o t) = Len(s) + Len(t)
OBVIOUS

\* A command is answered with one of the results.
LEMMA ApplyErrResult ==
    ASSUME NEW d, NEW cmd
    PROVE  ApplyErr(d, cmd) \in Result
BY Zenon DEF ApplyErr, Result

\* The log another leader leaves is one, as long as what it keeps and adds.
LEMMA OtherLogType ==
    ASSUME log \in Seq(Entry), currentTerm \in Nat,
           NEW n \in 0 .. Len(log), NEW cmds \in Seq(Name)
    PROVE  OtherLog(n, cmds) \in Seq(Entry) /\ Len(OtherLog(n, cmds)) = n + Len(cmds)
<1> DEFINE kept == SubSeq(log, 1, n)
           added == [i \in DOMAIN cmds |-> [term |-> currentTerm, cmd |-> cmds[i]]]
<1>1. kept \in Seq(Entry) /\ Len(kept) = n
  OBVIOUS
<1>2. added \in Seq(Entry) /\ Len(added) = Len(cmds)
  <2>1. ASSUME NEW i \in 1 .. Len(cmds)
        PROVE  [term |-> currentTerm, cmd |-> cmds[i]] \in Entry
    BY DEF Entry
  <2> QED  BY <2>1
<1>3. OtherLog(n, cmds) = kept \o added
  BY Zenon DEF OtherLog
<1> HIDE DEF kept, added
<1>4. kept \o added \in Seq(Entry) /\ Len(kept \o added) = Len(kept) + Len(added)
  BY <1>1, <1>2, ConcatSeq, Zenon
<1> QED  BY <1>1, <1>2, <1>3, <1>4, Zenon

\* Messages are messages.
LEMMA MessageTypes ==
    ASSUME NEW s \in Seq(Entry), Len(s) >= 1, Len(s) <= MaxIndex
    PROVE  /\ SnapshotMsg(s) \in Message
           /\ SnapshotMsg(s).snapshot = TRUE /\ SnapshotMsg(s).index = Len(s)
           /\ Len(SnapshotMsg(s).cmds) = Len(s)
<1> DEFINE c == [i \in DOMAIN s |-> s[i].cmd]
<1>1. c \in Seq(Name) /\ Len(c) = Len(s)
  <2>1. ASSUME NEW i \in 1 .. Len(s) PROVE s[i].cmd \in Name
    <3>1. s[i] \in Entry
      OBVIOUS
    <3> QED  BY <3>1, Zenon DEF Entry
  <2> QED  BY <2>1
<1>2. Replay(Commands(c)) \in Stores
  BY <1>1, Zenon DEF Stores
<1>3. Len(s) \in Index
  BY RequestsAssumption DEF Index
<1>4. SnapshotMsg(s) = [snapshot |-> TRUE, index |-> Len(s), cmds |-> c,
                        data |-> Replay(Commands(c))]
  BY Zenon DEF SnapshotMsg
<1> HIDE DEF c
<1> QED  BY <1>1, <1>2, <1>3, <1>4 DEF Message

\* What the node has of the log and of the queue, and what the writes wait for.
nodeVars == <<currentTerm, log, commitIndex, lastApplied, applied, applyCh, sending,
              overlapped>>
awaited == <<notifyCh, applyWaiters, applyResults>>
writeVars == <<pc, calls, index, term, waitsOn, result>>

\* Init is of the types.
LEMMA TypesInit == Init => Types /\ Bounds
<1> SUFFICES ASSUME Init PROVE Types /\ Bounds
  BY Zenon
<1>1. /\ currentTerm = 1 /\ log = <<>> /\ commitIndex = 0 /\ lastApplied = 0
      /\ applyCh = <<>> /\ applied = <<>> /\ sending = {}
      /\ notifyCh = [i \in Index |-> None] /\ applyWaiters = [i \in Index |-> None]
      /\ applyResults = [i \in Index |-> None]
      /\ pc = [h \in Handler \cup Reader |-> "new"] /\ calls = [h \in Handler |-> 1]
      /\ index = [h \in Handler |-> 0] /\ term = [h \in Handler |-> 0]
      /\ waitsOn = [h \in Handler |-> None] /\ result = [h \in Handler |-> None]
  BY Zenon DEF Init
<1> QED  BY <1>1, RequestsAssumption DEF Types, Bounds, Label

\* What fits is within the bound.
LEMMA FitsBound ==
    ASSUME NEW n \in Nat
    PROVE  (Fits(n) => n <= MaxIndex) /\ (Fits(n + 1) => n < MaxIndex)
BY RequestsAssumption DEF Fits

\* Types and bounds are kept.
LEMMA TypesNext ==
    ASSUME Types, Bounds, [Next]_vars
    PROVE  Types' /\ Bounds'
<1> USE RequestsAssumption DEF Types, Bounds
<1>0. Len(log) \in Nat
  OBVIOUS
<1>1. ASSUME NEW h \in Handler, Submit(h) PROVE Types' /\ Bounds'
  <2>1. /\ UNCHANGED <<currentTerm, commitIndex, lastApplied, applied, applyCh, sending,
                       overlapped, applyWaiters, applyResults, calls, waitsOn, result>>
        /\ \/ Goto(h, "notLeader") /\ UNCHANGED <<log, index, term, notifyCh>>
           \/ /\ Len(log) < MaxIndex
              /\ Goto(h, "submitted")
              /\ log' = Append(log, [term |-> currentTerm, cmd |-> h])
              /\ index' = [index EXCEPT ![h] = Len(log) + 1]
              /\ term' = [term EXCEPT ![h] = currentTerm]
              /\ notifyCh' = [notifyCh EXCEPT ![Len(log) + 1] = <<h, calls[h], "Start">>]
    BY <1>0, <1>1, FitsBound, Zenon DEF Submit, applyVars, sendVars
  <2>2. [term |-> currentTerm, cmd |-> h] \in Entry
    BY Zenon DEF Entry, Name
  <2>3. <<h, calls[h], "Start">> \in Channel
    BY Zenon DEF Channel
  <2>4. log' \in Seq(Entry) /\ Len(log') <= MaxIndex /\ Len(log) <= Len(log')
    <3>1. CASE UNCHANGED log
      BY <3>1
    <3>2. ASSUME NEW e \in Entry, Len(log) < MaxIndex, log' = Append(log, e)
          PROVE  log' \in Seq(Entry) /\ Len(log') <= MaxIndex /\ Len(log) <= Len(log')
      BY <3>2
    <3> QED  BY <2>1, <2>2, <3>1, <3>2, Zenon
  <2>5. pc' \in [Handler \cup Reader -> Label]
    BY <2>1, Zenon DEF Goto, Label
  <2>6. index' \in [Handler -> 0 .. MaxIndex]
    <3>1. ASSUME Len(log) < MaxIndex PROVE Len(log) + 1 \in 0 .. MaxIndex
      BY <3>1
    <3>2. UNCHANGED index \/ \E i \in 0 .. MaxIndex : index' = [index EXCEPT ![h] = i]
      BY <2>1, <3>1, Zenon
    <3> QED  BY <3>2, Zenon
  <2>7. term' \in [Handler -> Nat]
    BY <2>1, Zenon
  <2>8. notifyCh' \in [Index -> Channel \cup {None}]
    BY <2>1, <2>3, Zenon
  <2>9. UNCHANGED <<currentTerm, commitIndex, lastApplied, applied, applyCh, sending,
                    overlapped, applyWaiters, applyResults, calls, waitsOn, result>>
    BY <2>1, Zenon
  <2> QED  BY <2>4, <2>5, <2>6, <2>7, <2>8, <2>9
<1>2. ASSUME NEW h \in Handler, WaitForCommit(h) PROVE Types' /\ Bounds'
  <2>1. <<h, calls[h], "WaitForCommit">> \in Channel
    BY Zenon DEF Channel
  <2>2. PICK ch : /\ ch = IF notifyCh[index[h]] = None THEN <<h, calls[h], "WaitForCommit">>
                          ELSE notifyCh[index[h]]
                  /\ UNCHANGED <<nodeVars, applyWaiters, applyResults, calls, index, term,
                                 result>>
                  /\ \E l \in Label : Goto(h, l)
                  /\ \/ UNCHANGED <<notifyCh, waitsOn>>
                     \/ /\ ~ CommittedAlready(h)
                        /\ notifyCh' = [notifyCh EXCEPT ![index[h]] = ch]
                        /\ waitsOn' = [waitsOn EXCEPT ![h] = ch]
    BY <1>2, Zenon DEF WaitForCommit, raftVars, applyVars, sendVars, nodeVars, Label
  <2>3. ~ CommittedAlready(h) => index[h] \in Index
    BY DEF CommittedAlready, Index
  <2>4. index[h] \in Index => ch \in Channel
    BY <2>1, <2>2, Zenon
  <2>5. pc' \in [Handler \cup Reader -> Label]
    BY <2>2, Zenon DEF Goto
  <2>6. notifyCh' \in [Index -> Channel \cup {None}]
    BY <2>2, <2>3, <2>4, Zenon
  <2>7. waitsOn' \in [Handler -> Channel \cup {None, Closed}]
    BY <2>2, <2>3, <2>4, Zenon
  <2> QED  BY <2>2, <2>5, <2>6, <2>7, Zenon DEF nodeVars
<1>3. ASSUME NEW h \in Handler, CommitSeen(h) \/ CommitTimeout(h) PROVE Types' /\ Bounds'
  <2>1. /\ UNCHANGED <<nodeVars, applyWaiters, applyResults, calls, index, term, result>>
        /\ \E l \in Label : Goto(h, l)
        /\ waitsOn' = [waitsOn EXCEPT ![h] = None]
        /\ \/ UNCHANGED notifyCh
           \/ notifyCh' = [notifyCh EXCEPT ![index[h]] = IF @ = waitsOn[h] THEN None ELSE @]
    BY <1>3, Zenon
    DEF Label, CommitSeen, CommitTimeout, raftVars, applyVars, sendVars, waitVars, nodeVars
  <2>2. pc' \in [Handler \cup Reader -> Label]
    BY <2>1, Zenon DEF Goto
  <2>3. notifyCh' \in [Index -> Channel \cup {None}]
    BY <2>1, Zenon
  <2>4. waitsOn' \in [Handler -> Channel \cup {None, Closed}]
    BY <2>1, Zenon
  <2> QED  BY <2>1, <2>2, <2>3, <2>4, Zenon DEF nodeVars
<1>4. ASSUME NEW h \in Handler, WaitForApply(h) PROVE Types' /\ Bounds'
  <2>1. /\ UNCHANGED <<nodeVars, notifyCh, calls, index, term, waitsOn, result>>
        /\ \E l \in Label : Goto(h, l)
        /\ \/ applyResults' = [applyResults EXCEPT ![index[h]] = None] /\ UNCHANGED applyWaiters
           \/ applyWaiters' = [applyWaiters EXCEPT ![index[h]] = h] /\ UNCHANGED applyResults
    BY <1>4, Zenon DEF Label, WaitForApply, raftVars, applyVars, sendVars, nodeVars
  <2>2. pc' \in [Handler \cup Reader -> Label]
    BY <2>1, Zenon DEF Goto
  <2>3. applyWaiters' \in [Index -> Handler \cup {None}]
    BY <2>1, Zenon
  <2>4. applyResults' \in [Index -> Result \cup {None}]
    BY <2>1, Zenon
  <2> QED  BY <2>1, <2>2, <2>3, <2>4, Zenon DEF nodeVars
<1>5. ASSUME NEW h \in Handler, ApplySeen(h) \/ ApplyTimeout(h) PROVE Types' /\ Bounds'
  <2>1. /\ UNCHANGED <<nodeVars, notifyCh, applyResults, calls, index, term, waitsOn>>
        /\ \E l \in Label : Goto(h, l)
        /\ result' = [result EXCEPT ![h] = None]
        /\ applyWaiters' = Withdrawn(h) \/ UNCHANGED applyWaiters
    BY <1>5, Zenon
    DEF Label, ApplySeen, ApplyTimeout, raftVars, applyVars, sendVars, waitVars, nodeVars
  <2>2. pc' \in [Handler \cup Reader -> Label]
    BY <2>1, Zenon DEF Goto
  <2>3. applyWaiters' \in [Index -> Handler \cup {None}]
    BY <2>1, Zenon DEF Withdrawn
  <2>4. result' \in [Handler -> Result \cup {None}]
    BY <2>1, Zenon
  <2> QED  BY <2>1, <2>2, <2>3, <2>4, Zenon DEF nodeVars
<1>6. ASSUME NEW h \in Handler, NEW here \in BOOLEAN, Redirect(h, here)
      PROVE  Types' /\ Bounds'
  <2>1. /\ UNCHANGED <<nodeVars, awaited, waitsOn, result>>
        /\ \E l \in Label : Goto(h, l)
        /\ calls' = [calls EXCEPT ![h] = @ + 1]
        /\ index' = [index EXCEPT ![h] = 0] /\ term' = [term EXCEPT ![h] = 0]
    BY <1>6, Zenon DEF Label, Redirect, raftVars, applyVars, sendVars, waitVars, nodeVars, awaited
  <2> QED  BY <2>1 DEF Goto, nodeVars, awaited
<1>7. ASSUME NEW r \in Reader, CheckLeader(r) \/ Read(r) PROVE Types' /\ Bounds'
  <2>1. /\ UNCHANGED <<nodeVars, awaited, calls, index, term, waitsOn, result>>
        /\ \E l \in Label : Goto(r, l)
    BY <1>7, Zenon
    DEF Label, CheckLeader, Read, raftVars, applyVars, sendVars, waitVars, nodeVars, awaited
  <2> QED  BY <2>1 DEF Goto, nodeVars, awaited
<1>8. ASSUME NEW elected \in BOOLEAN, NewTerm(elected) PROVE Types' /\ Bounds'
  <2>1. /\ currentTerm' = currentTerm + 1
        /\ UNCHANGED <<log, commitIndex, lastApplied, applied, applyCh, sending, overlapped,
                       awaited, writeVars>>
    BY <1>8, Zenon DEF NewTerm, applyVars, sendVars, waitVars, handlerVars, awaited, writeVars
  <2> QED  BY <2>1 DEF awaited, writeVars
<1>9. ASSUME NEW n \in 0 .. Len(log), Replace(n) PROVE Types' /\ Bounds'
  <2>1. PICK cmd \in Name : log' = OtherLog(n, <<cmd>>)
    BY <1>9, Zenon DEF Replace, Elsewhere, Name
  <2>2. <<cmd>> \in Seq(Name) /\ Len(<<cmd>>) = 1
    OBVIOUS
  <2>3. log' \in Seq(Entry) /\ Len(log') = n + 1
    BY <2>1, <2>2, OtherLogType, Zenon
  <2>4. /\ commitIndex <= n /\ Fits(n + 1)
        /\ UNCHANGED <<currentTerm, commitIndex, lastApplied, applied, applyCh, sending,
                       overlapped, awaited, writeVars>>
    BY <1>9, Zenon DEF Replace, applyVars, sendVars, waitVars, handlerVars, awaited, writeVars
  <2>5. n \in Nat /\ n < MaxIndex
    BY <1>0, <2>4, FitsBound
  <2> QED  BY <2>3, <2>4, <2>5 DEF awaited, writeVars
<1>10. ASSUME NEW n \in 0 .. Len(log), NEW k \in 0 .. MaxIndex, NEW cmds \in [1 .. k -> Foreign],
              InstallSnapshot(n, cmds)
       PROVE  Types' /\ Bounds'
  <2>1. cmds \in Seq(Name)
    BY DEF Name
  <2> DEFINE s == OtherLog(n, cmds)
  <2>2. s \in Seq(Entry) /\ Len(s) \in Nat
    BY <2>1, OtherLogType
  <2>3. /\ Len(s) > commitIndex /\ Len(s) <= MaxIndex
        /\ log' = s /\ commitIndex' = Len(s) /\ lastApplied' = Len(s)
        /\ sending' = sending \cup {SnapshotMsg(s)}
        /\ UNCHANGED <<currentTerm, applied, applyCh, awaited, writeVars>>
    BY <1>10, <2>2, FitsBound, Zenon
    DEF InstallSnapshot, Hold, waitVars, handlerVars, awaited, writeVars
  <2> HIDE DEF s
  <2>4. Len(s) >= 1
    BY <2>2, <2>3
  <2>5. SnapshotMsg(s) \in Message
    BY <2>2, <2>3, <2>4, MessageTypes, Zenon
  <2>6. sending' \in SUBSET Message
    BY <2>3, <2>5, Zenon
  <2> QED  BY <2>2, <2>3, <2>6 DEF awaited, writeVars
<1>11. ASSUME NEW i \in Index, Commit(i) PROVE Types' /\ Bounds'
  <2>1. /\ i > commitIndex
        /\ (i <= Len(log) /\ commitIndex' = i) \/ commitIndex' = min(i, Len(log))
        /\ UNCHANGED <<currentTerm, log, lastApplied, applied, applyCh, sending, overlapped,
                       awaited, writeVars>>
    BY <1>11, Zenon DEF Commit, applyVars, sendVars, waitVars, handlerVars, awaited, writeVars
  <2>2. commitIndex' \in Nat /\ commitIndex' >= commitIndex /\ commitIndex' <= Len(log)
    BY <2>1 DEF min, Index
  <2> QED  BY <2>1, <2>2 DEF awaited, writeVars
<1>12. CASE ApplyCommitted
  <2>1. UNCHANGED <<currentTerm, log, commitIndex, applied, applyCh, applyWaiters, applyResults,
                    pc, calls, index, term, result>>
    BY <1>12, Zenon DEF ApplyCommitted, raftVars
  <2>2. CASE UNCHANGED <<lastApplied, notifyCh, waitsOn, sending>>
    BY <2>1, <2>2
  <2>3. CASE /\ lastApplied < commitIndex /\ lastApplied' = lastApplied + 1
             /\ Notify({lastApplied + 1})
             /\ sending' = sending \cup {EntryMsg(lastApplied + 1)}
    <3>1. EntryMsg(lastApplied + 1) \in Message
      <4>1. lastApplied + 1 \in 1 .. Len(log)
        BY <2>3
      <4>2. log[lastApplied + 1] \in Entry
        BY <4>1
      <4>3. <<log[lastApplied + 1].cmd>> \in Seq(Name)
        BY <4>2 DEF Entry
      <4> QED  BY <4>1, <4>3 DEF EntryMsg, Message, Stores, Index
    <3>2. notifyCh' \in [Index -> Channel \cup {None}]
      BY <2>3, Zenon DEF Notify
    <3>3. waitsOn' \in [Handler -> Channel \cup {None, Closed}]
      BY <2>3, Zenon DEF Notify
    <3>4. sending' \in SUBSET Message
      BY <2>3, <3>1, Zenon
    <3> QED  BY <2>1, <2>3, <3>2, <3>3, <3>4
  <2> QED  BY <1>12, <2>2, <2>3, Zenon DEF ApplyCommitted, Hold
<1>15. ASSUME NEW m \in sending, Send(m) PROVE Types' /\ Bounds'
  <2>1. /\ UNCHANGED <<currentTerm, log, commitIndex, lastApplied, applied, awaited, writeVars>>
        /\ sending' = sending \ {m}
        /\ \/ applyCh' = Append(applyCh, m)
           \/ \E i \in m.index .. lastApplied : applyCh' = Append(applyCh, [m EXCEPT !.index = i])
    BY <1>15, Zenon DEF Send, raftVars, waitVars, handlerVars, awaited, writeVars
  <2>2. m \in Message /\ sending' \in SUBSET Message
    BY <2>1, Zenon
  <2>3. \A i \in m.index .. lastApplied : [m EXCEPT !.index = i] \in Message
    <3>1. \A i \in m.index .. lastApplied : i \in Index
      BY <2>2 DEF Message, Index
    <3> QED  BY <2>2, <3>1, Zenon DEF Message
  <2>4. applyCh' \in Seq(Message)
    <3>1. ASSUME NEW x \in Message, applyCh' = Append(applyCh, x) PROVE applyCh' \in Seq(Message)
      BY <3>1
    <3> QED  BY <2>1, <2>2, <2>3, <3>1, Zenon
  <2> QED  BY <2>1, <2>2, <2>4 DEF awaited, writeVars
<1>13. CASE ApplyLoop
  <2> DEFINE m == Head(applyCh)
  <2>1. m \in Message /\ applyCh' \in Seq(Message)
    BY <1>13 DEF ApplyLoop
  <2>2. m.index \in Index /\ m.cmds \in Seq(Name)
    BY <2>1, Zenon DEF Message
  <2>3. UNCHANGED <<currentTerm, log, commitIndex, lastApplied, sending, pc, calls, index,
                    term>>
    BY <1>13, Zenon DEF ApplyLoop, sendVars
  <2> HIDE DEF m
  <2>4. ASSUME ApplySnapshot(m) PROVE Types' /\ Bounds'
    <3>1. /\ applied' = m.cmds
          /\ applyWaiters' = [i \in Index |-> IF i <= m.index THEN None ELSE applyWaiters[i]]
          /\ UNCHANGED <<applyResults, notifyCh, waitsOn>>
      BY <2>4, Zenon DEF ApplySnapshot
    <3>2. result' \in [Handler -> Result \cup {None}]
      BY <2>4, Zenon DEF ApplySnapshot, Result
    <3>3. applyWaiters' \in [Index -> Handler \cup {None}]
      BY <3>1, Zenon
    <3> QED  BY <2>1, <2>2, <2>3, <3>1, <3>2, <3>3, Zenon
  <2>5. ASSUME ApplyEntry(m) PROVE Types' /\ Bounds'
    <3> DEFINE err == ApplyErr(data, Cmd[m.cmds[1]])
    <3>1. err \in Result
      BY ApplyErrResult, Zenon
    <3> HIDE DEF err
    <3>2. applied' \in Seq(Name)
      BY <2>2, <2>5, ConcatSeq, Zenon DEF ApplyEntry
    <3>3. (\E I : Notify(I)) \/ UNCHANGED <<notifyCh, waitsOn>>
      BY <2>5, Zenon DEF ApplyEntry
    <3>4. notifyCh' \in [Index -> Channel \cup {None}]
      BY <3>3, Zenon DEF Notify
    <3>5. waitsOn' \in [Handler -> Channel \cup {None, Closed}]
      BY <3>3, Zenon DEF Notify
    <3>6. \/ /\ applyWaiters' = [applyWaiters EXCEPT ![m.index] = None]
             /\ result' = [result EXCEPT ![applyWaiters[m.index]] = err]
             /\ UNCHANGED applyResults
          \/ /\ applyResults' = [applyResults EXCEPT ![m.index] = err] \/ UNCHANGED applyResults
             /\ UNCHANGED <<applyWaiters, result>>
      BY <2>5, Zenon DEF ApplyEntry, Kept, err
    <3>7. applyWaiters' \in [Index -> Handler \cup {None}]
      BY <2>2, <3>6, Zenon
    <3>8. result' \in [Handler -> Result \cup {None}]
      BY <3>1, <3>6, Zenon
    <3>9. applyResults' \in [Index -> Result \cup {None}]
      BY <2>2, <3>1, <3>6, Zenon
    <3> QED  BY <2>1, <2>3, <3>2, <3>4, <3>5, <3>7, <3>8, <3>9, Zenon
  <2> QED  BY <1>13, <2>4, <2>5, Zenon DEF ApplyLoop, m
<1>14. CASE UNCHANGED vars
  <2>1. UNCHANGED <<nodeVars, awaited, writeVars>>
    BY <1>14, Zenon
    DEF vars, raftVars, applyVars, sendVars, waitVars, handlerVars, nodeVars, awaited, writeVars
  <2> QED  BY <2>1, Zenon DEF nodeVars, awaited, writeVars
<1> HIDE DEF Types, Bounds
<1> QED
  BY <1>1, <1>2, <1>3, <1>4, <1>5, <1>6, <1>7, <1>8, <1>9, <1>10, <1>11, <1>12, <1>13,
     <1>14, <1>15, Zenon DEF Next
-----------------------------------------------------------------------------
(* One lemma per action. *)

\* What of the types the lemmas below need.
Plain ==
    /\ currentTerm \in Nat \ {0} /\ commitIndex \in Nat /\ lastApplied \in Nat
    /\ Len(log) \in Nat /\ Len(applied) \in Nat /\ Len(applyCh) \in Nat
    /\ lastApplied <= commitIndex /\ commitIndex <= Len(log)
    /\ \A h \in Handler :
           /\ index[h] \in Nat /\ term[h] \in Nat /\ calls[h] \in Nat
           /\ index[h] >= 1 => index[h] \in Index
    /\ \A i \in Index :
           /\ i \in Nat /\ i >= 1
           /\ applyWaiters[i] # None => applyWaiters[i] \in Handler
           /\ notifyCh[i] # None => notifyCh[i][1] \in Handler /\ notifyCh[i][2] \in Nat
           /\ notifyCh[i] # Closed
    /\ \A k \in 1 .. Len(applyCh) : applyCh[k].index \in Nat
    /\ \A m \in sending : m.index \in Nat

\* The types give it.
LEMMA TypesPlain == ASSUME Types, Bounds PROVE Plain
<1>1. \A i \in Index :
         /\ i \in Nat /\ i >= 1
         /\ applyWaiters[i] # None => applyWaiters[i] \in Handler
         /\ notifyCh[i] # None => notifyCh[i] \in Channel
         /\ notifyCh[i] # Closed
  BY RequestsAssumption, ValuesAssumption DEF Types, Index
<1>2. \A c \in Channel : c[1] \in Handler /\ c[2] \in Nat
  BY Zenon DEF Channel
<1>3. ASSUME NEW k \in 1 .. Len(applyCh) PROVE applyCh[k].index \in Nat
  <2>1. applyCh[k] \in Message
    BY DEF Types
  <2> QED  BY <2>1, RequestsAssumption DEF Message, Index
<1>4. \A h \in Handler :
         /\ index[h] \in Nat /\ term[h] \in Nat /\ calls[h] \in Nat
         /\ index[h] >= 1 => index[h] \in Index
  BY RequestsAssumption DEF Types, Index
<1>5. /\ currentTerm \in Nat \ {0} /\ commitIndex \in Nat /\ lastApplied \in Nat
      /\ Len(log) \in Nat /\ Len(applied) \in Nat /\ Len(applyCh) \in Nat
      /\ lastApplied <= commitIndex /\ commitIndex <= Len(log)
  BY DEF Types, Bounds
<1>6. ASSUME NEW m \in sending PROVE m.index \in Nat
  <2>1. m \in Message
    BY Zenon DEF Types
  <2> QED  BY <2>1, RequestsAssumption DEF Message, Index
<1> QED  BY <1>1, <1>2, <1>3, <1>4, <1>5, <1>6, Zenon DEF Plain

\* What does not touch the queue leaves it in order.
LEMMA QueueStays ==
    ASSUME WaitInv, UNCHANGED <<lastApplied, applied, applyCh, sending, overlapped>>
    PROVE  LabelInv' /\ QueueInv'
<1>1. LabelInv'
  BY Zenon DEF WaitInv, LabelInv
<1>2. OnItsWay' = OnItsWay
  BY Zenon DEF OnItsWay, Before, Continues
<1>3. QueueInv'
  BY <1>2, Zenon DEF WaitInv, QueueInv, InOrder, Before, Continues
<1> QED  BY <1>1, <1>3, Zenon

\* A step of a write that does not wait for its result leaves the waiters be.
LEMMA WaitersStay ==
    ASSUME Plain, WaitInv, NEW h \in Handler, pc[h] # "waitApply",
           \A g \in Handler : g = h \/ (pc'[g] = pc[g] /\ index'[g] = index[g]),
           applyWaiters' = applyWaiters, result' = result
    PROVE  WaitersInv'
<1> SUFFICES ASSUME NEW j \in Index, applyWaiters'[j] # None
             PROVE  /\ pc'[applyWaiters'[j]] = "waitApply" /\ index'[applyWaiters'[j]] = j
                    /\ result'[applyWaiters'[j]] = None
  BY Zenon DEF WaitersInv
<1>1. /\ pc[applyWaiters[j]] = "waitApply" /\ index[applyWaiters[j]] = j
      /\ result[applyWaiters[j]] = None
  BY Zenon DEF WaitInv, WaitersInv
<1>2. applyWaiters[j] \in Handler
  BY Zenon DEF Plain
<1> QED  BY <1>1, <1>2, Zenon

\* Submit: the new entry is behind every other, and nothing is known of it yet.
LEMMA SubmitKeeps ==
    ASSUME Types, Bounds, WaitInv, NEW h \in Handler, Submit(h)
    PROVE  WaitInv'
<1> USE DEF Current
<1>0. Plain
  BY TypesPlain, Zenon
<1>1. pc[h] = "new"
  BY Zenon DEF Submit
<1>2. UNCHANGED <<currentTerm, commitIndex, lastApplied, applied, applyCh, sending,
                  overlapped, applyWaiters, applyResults, calls, waitsOn, result>>
  BY Zenon DEF Submit, applyVars, sendVars
<1>3. CASE Goto(h, "notLeader") /\ UNCHANGED <<leader, log, index, term, notifyCh>>
  <2>1. \A g \in Handler : pc'[g] = IF g = h THEN "notLeader" ELSE pc[g]
    BY <1>3, Zenon DEF Goto, Types
  <2>2. LeaderInv' /\ OwnIndex' /\ SnapshotInv' /\ LabelInv' /\ QueueInv'
    BY <1>2, <1>3, QueueStays, Zenon DEF WaitInv, LeaderInv, OwnIndex, SnapshotInv
  <2>3. PhaseInv'
    BY <1>0, <1>1, <1>2, <1>3, <2>1, Zenon DEF Plain, WaitInv, PhaseInv
  <2>4. ChannelInv'
    BY <1>0, <1>1, <1>2, <1>3, <2>1, Zenon DEF Plain, WaitInv, ChannelInv
  <2>5. WakeInv'
    BY <1>0, <1>1, <1>2, <1>3, <2>1, Zenon DEF Plain, WaitInv, WakeInv
  <2>6. WokenInv'
    BY <1>0, <1>1, <1>2, <1>3, <2>1, Zenon DEF Plain, WaitInv, WokenInv, Woken
  <2>7. WaitersInv'
    BY <1>0, <1>1, <1>2, <1>3, <2>1, WaitersStay, Zenon
  <2>8. ResultInv'
    BY <1>0, <1>1, <1>2, <1>3, <2>1, Zenon DEF Plain, WaitInv, ResultInv, InOrder
  <2> QED  BY <2>2, <2>3, <2>4, <2>5, <2>6, <2>7, <2>8, Zenon DEF WaitInv
<1>4. CASE /\ leader /\ UNCHANGED leader
           /\ Goto(h, "submitted")
           /\ log' = Append(log, [term |-> currentTerm, cmd |-> h])
           /\ index' = [index EXCEPT ![h] = Len(log) + 1]
           /\ term' = [term EXCEPT ![h] = currentTerm]
           /\ notifyCh' = [notifyCh EXCEPT ![Len(log) + 1] = <<h, calls[h], "Start">>]
           /\ Fits(Len(log) + 1)
  <2> DEFINE i == Len(log) + 1
  <2>1. i \in Nat /\ i \in Index /\ i > Len(log) /\ Len(log') = i
    <3>1. ASSUME NEW e \in Entry, log' = Append(log, e) PROVE Len(log') = Len(log) + 1
      BY <3>1 DEF Types
    <3>2. [term |-> currentTerm, cmd |-> h] \in Entry
      BY <1>0, Zenon DEF Plain, Entry, Name
    <3>3. Len(log') = Len(log) + 1
      BY <1>4, <3>1, <3>2, Zenon
    <3>4. Len(log) < MaxIndex
      BY <1>0, <1>4, FitsBound, Zenon DEF Plain
    <3> QED  BY <1>0, <3>3, <3>4, RequestsAssumption DEF Plain, Index
  <2>2. /\ \A g \in Handler : pc'[g] = IF g = h THEN "submitted" ELSE pc[g]
        /\ \A g \in Handler : index'[g] = IF g = h THEN i ELSE index[g]
        /\ \A g \in Handler : term'[g] = IF g = h THEN currentTerm ELSE term[g]
    BY <1>4, Zenon DEF Goto, Types
  <2>3. \A j \in Index : notifyCh'[j] = IF j = i THEN <<h, calls[h], "Start">> ELSE notifyCh[j]
    BY <1>4, Zenon DEF Types
  <2>4. ~ Current(h) /\ index[h] = 0 /\ result[h] = None
    BY <1>0, <1>1 DEF Plain, WaitInv, PhaseInv
  <2>5. LeaderInv'
    BY <1>4, Zenon DEF LeaderInv
  <2> HIDE DEF i
  <2>6. PhaseInv'
    BY <1>0, <1>2, <2>1, <2>2, <2>4 DEF Plain, WaitInv, PhaseInv
  <2>7. OwnIndex'
    BY <1>0, <1>2, <2>1, <2>2 DEF Plain, WaitInv, OwnIndex, PhaseInv
  <2>8. ChannelInv'
    <3>1. \A j \in Index : notifyCh'[j] # None =>
             /\ notifyCh'[j][2] < calls'[notifyCh'[j][1]] \/ j = index'[notifyCh'[j][1]]
             /\ notifyCh'[j][2] <= calls'[notifyCh'[j][1]]
      <4> SUFFICES ASSUME NEW j \in Index, notifyCh'[j] # None
                   PROVE  /\ \/ notifyCh'[j][2] < calls'[notifyCh'[j][1]]
                             \/ j = index'[notifyCh'[j][1]]
                          /\ notifyCh'[j][2] <= calls'[notifyCh'[j][1]]
        BY Zenon
      <4>1. CASE j = i
        BY <1>0, <1>2, <2>2, <2>3, <4>1 DEF Plain
      <4>2. CASE j # i
        <5>1. notifyCh'[j] = notifyCh[j]
          BY <2>3, <4>2, Zenon
        <5>2. notifyCh[j][1] \in Handler /\ j # 0
          BY <1>0, <5>1 DEF Plain
        <5> QED  BY <1>2, <2>2, <2>4, <5>1, <5>2 DEF WaitInv, ChannelInv
      <4> QED  BY <4>1, <4>2, Zenon
    <3>2. ASSUME NEW g \in Handler, Current(g)', notifyCh'[index'[g]] # None
          PROVE  notifyCh'[index'[g]][1] = g /\ notifyCh'[index'[g]][2] = calls'[g]
      <4>1. CASE g = h
        BY <1>2, <2>1, <2>2, <2>3, <4>1
      <4>2. CASE g # h
        <5>1. Current(g) /\ index'[g] = index[g]
          BY <1>2, <2>2, <3>2, <4>2, Zenon
        <5>2. index[g] \in Index /\ index[g] # i
          BY <1>0, <2>1, <5>1 DEF WaitInv, PhaseInv, Plain
        <5> QED  BY <1>2, <2>3, <3>2, <5>1, <5>2 DEF WaitInv, ChannelInv
      <4> QED  BY <4>1, <4>2, Zenon
    <3>3. ASSUME NEW g \in Handler, pc'[g] = "waitCommit", waitsOn'[g] # Closed
          PROVE  waitsOn'[g] # None /\ waitsOn'[g][1] = g /\ waitsOn'[g][2] = calls'[g]
      BY <1>2, <2>2, <3>3, Zenon DEF WaitInv, ChannelInv
    <3> QED  BY <3>1, <3>2, <3>3, Zenon DEF ChannelInv
  <2>9. WakeInv'
    <3> SUFFICES ASSUME NEW g \in Handler, pc'[g] = "waitCommit", Current(g)',
                        waitsOn'[g] # Closed
                 PROVE  notifyCh'[index'[g]] = waitsOn'[g] /\ lastApplied' < index'[g]
      BY Zenon DEF WakeInv
    <3>1. g # h /\ Current(g) /\ pc[g] = "waitCommit" /\ index'[g] = index[g]
      BY <1>2, <2>2, Zenon
    <3>2. index[g] \in Index /\ index[g] # i
      BY <1>0, <2>1, <3>1 DEF WaitInv, PhaseInv, Plain
    <3> QED  BY <1>2, <2>3, <3>1, <3>2, Zenon DEF WaitInv, WakeInv
  <2>10. WokenInv'
    <3> SUFFICES ASSUME NEW g \in Handler, Woken(g)'
                 PROVE  /\ index'[g] <= commitIndex'
                        /\ \A k \in Handler : Current(k)' /\ g # k => index'[g] # index'[k]
      BY Zenon DEF WokenInv
    <3>1. g # h /\ Woken(g) /\ index'[g] = index[g]
      BY <1>1, <1>2, <2>2, Zenon DEF Woken
    <3>2. /\ index[g] <= commitIndex
          /\ \A k \in Handler : Current(k) /\ g # k => index[g] # index[k]
      BY <3>1, Zenon DEF WaitInv, WokenInv
    <3>3. index[g] # i
      <4>1. index[g] \in Nat /\ commitIndex \in Nat /\ commitIndex <= Len(log) /\ Len(log) \in Nat
        BY <1>0, Zenon DEF Plain
      <4> QED  BY <2>1, <3>2, <4>1
    <3> QED  BY <1>2, <2>2, <3>1, <3>2, <3>3, Zenon
  <2>11. WaitersInv'
    <3>1. pc[h] # "waitApply"
      BY <1>1, Zenon
    <3> QED  BY <1>0, <1>2, <2>2, <3>1, WaitersStay, Zenon
  <2>12. LabelInv' /\ QueueInv'
    BY <1>2, QueueStays, Zenon
  <2>13. SnapshotInv'
    <3>1. ASSUME NEW n \in Nat, n <= lastApplied PROVE n < i
      <4>1. lastApplied \in Nat /\ lastApplied <= commitIndex /\ commitIndex \in Nat
            /\ commitIndex <= Len(log) /\ Len(log) \in Nat
        BY <1>0, Zenon DEF Plain
      <4> QED  BY <2>1, <3>1, <4>1
    <3>2. /\ \A k \in 1 .. Len(applyCh) : applyCh[k].index < i
          /\ \A m \in sending : m.index < i
      BY <1>0, <3>1, Zenon DEF Plain, WaitInv, LabelInv
    <3>3. \A g \in Handler : Current(g)' => (g = h /\ index'[g] = i)
                                          \/ (Current(g) /\ index'[g] = index[g])
      BY <1>2, <2>2, Zenon
    <3> QED  BY <1>2, <3>2, <3>3, Zenon DEF WaitInv, SnapshotInv
  <2>14. ResultInv'
    <3>1. InOrder => Len(applied') < i /\ Len(applied) = Len(applied')
      BY <1>0, <1>2, <2>1 DEF Plain, WaitInv, QueueInv
    <3> SUFFICES ASSUME InOrder, NEW g \in Handler, Current(g)'
                 PROVE  /\ /\ pc'[g] \in {"submitted", "waitCommit", "committed"}
                           /\ Len(applied') >= index'[g]
                           => applyResults'[index'[g]] # None
                        /\ pc'[g] = "waitApply" =>
                              \/ result'[g] # None
                              \/ applyWaiters'[index'[g]] = g /\ Len(applied') < index'[g]
      BY <1>2, Zenon DEF ResultInv, InOrder
    <3>2. CASE g = h
      BY <1>0, <2>1, <2>2, <3>1, <3>2 DEF Plain
    <3>3. CASE g # h
      BY <1>2, <2>2, <3>1, <3>3, Zenon DEF WaitInv, ResultInv
    <3> QED  BY <3>2, <3>3, Zenon
  <2> QED  BY <2>5, <2>6, <2>7, <2>8, <2>9, <2>10, <2>11, <2>12, <2>13, <2>14, Zenon
           DEF WaitInv
<1> QED  BY <1>3, <1>4, Zenon DEF Submit

\* WaitForCommit: only a write of this term waits, on a channel of its own.
LEMMA WaitForCommitKeeps ==
    ASSUME Types, Bounds, WaitInv, NEW h \in Handler, WaitForCommit(h)
    PROVE  WaitInv'
<1> USE DEF Current
<1>0. Plain
  BY TypesPlain, Zenon
<1>1. pc[h] = "submitted"
  BY Zenon DEF WaitForCommit
<1>2. UNCHANGED <<nodeVars, applyWaiters, applyResults, calls, index, term, result>>
  BY Zenon DEF WaitForCommit, raftVars, applyVars, sendVars, nodeVars
<1>3. LeaderInv' /\ OwnIndex' /\ LabelInv' /\ QueueInv' /\ SnapshotInv'
  <2>1. UNCHANGED leader
    BY Zenon DEF WaitForCommit, raftVars
  <2>2. LabelInv' /\ QueueInv'
    BY <1>2, QueueStays, Zenon DEF nodeVars
  <2> QED  BY <1>2, <2>1, <2>2, Zenon DEF WaitInv, nodeVars, LeaderInv, OwnIndex, SnapshotInv
<1>4. CASE Goto(h, "notLeader") /\ UNCHANGED <<notifyCh, waitsOn>>
  <2>1. \A g \in Handler : pc'[g] = IF g = h THEN "notLeader" ELSE pc[g]
    BY <1>4, Zenon DEF Goto, Types
  <2>2. PhaseInv'
    BY <1>1, <1>2, <2>1, Zenon DEF WaitInv, PhaseInv, nodeVars
  <2>3. ChannelInv' /\ WakeInv'
    BY <1>1, <1>2, <1>4, <2>1, Zenon DEF WaitInv, ChannelInv, WakeInv, nodeVars
  <2>4. WokenInv' /\ ResultInv'
    BY <1>1, <1>2, <1>4, <2>1 DEF WaitInv, WokenInv, Woken, ResultInv, InOrder, nodeVars
  <2>5. WaitersInv'
    BY <1>0, <1>1, <1>2, <2>1, WaitersStay, Zenon
  <2> QED  BY <1>3, <2>2, <2>3, <2>4, <2>5, Zenon DEF WaitInv
<1>5. CASE /\ Current(h) /\ CommittedAlready(h)
           /\ Goto(h, "committed") /\ UNCHANGED <<notifyCh, waitsOn>>
  <2>1. \A g \in Handler : pc'[g] = IF g = h THEN "committed" ELSE pc[g]
    BY <1>5, Zenon DEF Goto, Types
  <2>2. PhaseInv'
    BY <1>1, <1>2, <2>1, Zenon DEF WaitInv, PhaseInv, nodeVars
  <2>3. ChannelInv' /\ WakeInv'
    BY <1>1, <1>2, <1>5, <2>1, Zenon DEF WaitInv, ChannelInv, WakeInv, nodeVars
  <2>4. index[h] <= commitIndex
    BY <1>0, <1>5, Zenon DEF CommittedAlready, Plain
  <2>5. WokenInv'
    BY <1>2, <1>5, <2>1, <2>4, Zenon DEF WaitInv, WokenInv, Woken, OwnIndex, nodeVars
  <2>6. ResultInv'
    BY <1>1, <1>2, <2>1, Zenon DEF WaitInv, ResultInv, InOrder, nodeVars
  <2>7. WaitersInv'
    BY <1>0, <1>1, <1>2, <2>1, WaitersStay, Zenon
  <2> QED  BY <1>3, <2>2, <2>3, <2>5, <2>6, <2>7, Zenon DEF WaitInv
<1>6. ASSUME NEW ch, ch = IF notifyCh[index[h]] = None THEN <<h, calls[h], "WaitForCommit">>
                          ELSE notifyCh[index[h]],
             Current(h), ~ CommittedAlready(h), Goto(h, "waitCommit"),
             notifyCh' = [notifyCh EXCEPT ![index[h]] = ch],
             waitsOn' = [waitsOn EXCEPT ![h] = ch]
      PROVE  WaitInv'
  <2>1. /\ \A g \in Handler : pc'[g] = IF g = h THEN "waitCommit" ELSE pc[g]
        /\ \A g \in Handler : waitsOn'[g] = IF g = h THEN ch ELSE waitsOn[g]
    BY <1>6, Zenon DEF Goto, Types
  <2>2. index[h] \in Index /\ index[h] > lastApplied
    BY <1>0, <1>6 DEF CommittedAlready, Plain
  <2>3. \A j \in Index : notifyCh'[j] = IF j = index[h] THEN ch ELSE notifyCh[j]
    BY <1>6, Zenon DEF Types
  <2>4. ch # None /\ ch # Closed /\ ch[1] = h /\ ch[2] = calls[h]
    <3>1. <<h, calls[h], "WaitForCommit">> \in Channel
      BY <1>0, Zenon DEF Channel, Plain
    <3>2. CASE notifyCh[index[h]] = None
      BY <1>6, <3>1, <3>2, ValuesAssumption, Zenon
    <3>3. CASE notifyCh[index[h]] # None
      BY <1>0, <1>6, <2>2, <3>3, Zenon DEF WaitInv, ChannelInv, Plain
    <3> QED  BY <3>2, <3>3, Zenon
  <2>5. PhaseInv'
    BY <1>1, <1>2, <2>1, Zenon DEF WaitInv, PhaseInv, nodeVars
  <2>6. ChannelInv'
    <3>1. \A j \in Index : notifyCh'[j] # None =>
             /\ notifyCh'[j][2] < calls'[notifyCh'[j][1]] \/ j = index'[notifyCh'[j][1]]
             /\ notifyCh'[j][2] <= calls'[notifyCh'[j][1]]
      <4> SUFFICES ASSUME NEW j \in Index, notifyCh'[j] # None
                   PROVE  /\ \/ notifyCh'[j][2] < calls'[notifyCh'[j][1]]
                             \/ j = index'[notifyCh'[j][1]]
                          /\ notifyCh'[j][2] <= calls'[notifyCh'[j][1]]
        BY Zenon
      <4>1. CASE j = index[h]
        BY <1>0, <1>2, <2>3, <2>4, <4>1 DEF Plain
      <4>2. CASE j # index[h]
        <5>1. notifyCh'[j] = notifyCh[j] /\ index' = index /\ calls' = calls
          BY <1>2, <2>3, <4>2, Zenon
        <5>2. ChannelInv
          BY Zenon DEF WaitInv
        <5> QED  BY <5>1, <5>2, Zenon DEF ChannelInv
      <4> QED  BY <4>1, <4>2, Zenon
    <3>2. ASSUME NEW g \in Handler, Current(g)', notifyCh'[index'[g]] # None
          PROVE  notifyCh'[index'[g]][1] = g /\ notifyCh'[index'[g]][2] = calls'[g]
      <4>1. CASE g = h
        BY <1>2, <2>2, <2>3, <2>4, <4>1, Zenon
      <4>2. CASE g # h
        <5>1. index[g] \in Index /\ index[g] # index[h] /\ Current(g)
          BY <1>0, <1>2, <1>6, <3>2, <4>2, Zenon
          DEF WaitInv, PhaseInv, OwnIndex, Plain, nodeVars
        <5> QED  BY <1>2, <2>3, <3>2, <5>1 DEF WaitInv, ChannelInv
      <4> QED  BY <4>1, <4>2, Zenon
    <3>3. ASSUME NEW g \in Handler, pc'[g] = "waitCommit", waitsOn'[g] # Closed
          PROVE  waitsOn'[g] # None /\ waitsOn'[g][1] = g /\ waitsOn'[g][2] = calls'[g]
      BY <1>2, <2>1, <2>4, <3>3 DEF WaitInv, ChannelInv
    <3> QED  BY <3>1, <3>2, <3>3, Zenon DEF ChannelInv
  <2>7. WakeInv'
    <3> SUFFICES ASSUME NEW g \in Handler, pc'[g] = "waitCommit", Current(g)',
                        waitsOn'[g] # Closed
                 PROVE  notifyCh'[index'[g]] = waitsOn'[g] /\ lastApplied' < index'[g]
      BY Zenon DEF WakeInv
    <3>1. CASE g = h
      BY <1>0, <1>2, <2>1, <2>2, <2>3, <3>1, Zenon DEF nodeVars, Plain
    <3>2. CASE g # h
      <4>1. index[g] \in Index /\ index[g] # index[h] /\ Current(g)
        BY <1>0, <1>2, <1>6, <3>2, Zenon DEF WaitInv, PhaseInv, OwnIndex, Plain, nodeVars
      <4> QED  BY <1>2, <2>1, <2>3, <3>2, <4>1, Zenon DEF WaitInv, WakeInv, nodeVars
    <3> QED  BY <3>1, <3>2, Zenon
  <2>8. WokenInv'
    BY <1>1, <1>2, <2>1, <2>4 DEF WaitInv, WokenInv, Woken, nodeVars
  <2>9. ResultInv'
    BY <1>1, <1>2, <2>1, Zenon DEF WaitInv, ResultInv, InOrder, nodeVars
  <2>10. WaitersInv'
    BY <1>0, <1>1, <1>2, <2>1, WaitersStay, Zenon
  <2> QED  BY <1>3, <2>5, <2>6, <2>7, <2>8, <2>9, <2>10, Zenon DEF WaitInv
<1> QED  BY <1>4, <1>5, <1>6, Zenon DEF WaitForCommit
\* CommitSeen and CommitTimeout: a write that gives up takes its own channel with
\* it, never another's.
LEMMA CommitEndsKeeps ==
    ASSUME Types, Bounds, WaitInv, NEW h \in Handler, CommitSeen(h) \/ CommitTimeout(h)
    PROVE  WaitInv'
<1> USE DEF Current
<1>0. Plain
  BY TypesPlain, Zenon
<1>1. pc[h] = "waitCommit"
  BY Zenon DEF CommitSeen, CommitTimeout
<1>2. UNCHANGED <<nodeVars, applyWaiters, applyResults, calls, index, term, result>>
  BY Zenon DEF CommitSeen, CommitTimeout, raftVars, applyVars, sendVars, waitVars, nodeVars
<1>6. \A g \in Handler : g # h => waitsOn'[g] = waitsOn[g]
  BY Zenon DEF CommitSeen, CommitTimeout, Types
<1>3. LeaderInv' /\ OwnIndex' /\ LabelInv' /\ QueueInv' /\ SnapshotInv'
  <2>1. UNCHANGED leader
    BY Zenon DEF CommitSeen, CommitTimeout, raftVars
  <2>2. LabelInv' /\ QueueInv'
    BY <1>2, QueueStays, Zenon DEF nodeVars
  <2> QED  BY <1>2, <2>1, <2>2, Zenon DEF WaitInv, nodeVars, LeaderInv, OwnIndex, SnapshotInv
<1>4. CASE waitsOn[h] = Closed /\ Goto(h, "committed") /\ UNCHANGED notifyCh
  <2>1. \A g \in Handler : pc'[g] = IF g = h THEN "committed" ELSE pc[g]
    BY <1>4, Zenon DEF Goto, Types
  <2>2. PhaseInv'
    BY <1>1, <1>2, <2>1, Zenon DEF WaitInv, PhaseInv, nodeVars
  <2>3. ChannelInv' /\ WakeInv'
    <3>1. UNCHANGED <<currentTerm, lastApplied, notifyCh, calls, index, term>>
      BY <1>2, <1>4, Zenon DEF nodeVars
    <3>2. \A g \in Handler :
             pc'[g] = "waitCommit" => pc[g] = "waitCommit" /\ waitsOn'[g] = waitsOn[g]
      BY <1>6, <2>1, Zenon
    <3>3. ChannelInv'
      BY <3>1, <3>2, Zenon DEF WaitInv, ChannelInv
    <3>4. WakeInv'
      BY <3>1, <3>2, Zenon DEF WaitInv, WakeInv
    <3> QED  BY <3>3, <3>4, Zenon
  <2>4. WokenInv'
    BY <1>1, <1>2, <1>4, <1>6, <2>1, Zenon DEF WaitInv, WokenInv, Woken, nodeVars
  <2>5. ResultInv'
    BY <1>1, <1>2, <2>1, Zenon DEF WaitInv, ResultInv, InOrder, nodeVars
  <2>6. WaitersInv'
    BY <1>0, <1>1, <1>2, <2>1, WaitersStay, Zenon
  <2> QED  BY <1>3, <2>2, <2>3, <2>4, <2>5, <2>6, Zenon DEF WaitInv
<1>5. CASE /\ Goto(h, "commitTimeout")
           /\ notifyCh' = [notifyCh EXCEPT ![index[h]] = IF @ = waitsOn[h] THEN None ELSE @]
  <2>1. \A g \in Handler : pc'[g] = IF g = h THEN "commitTimeout" ELSE pc[g]
    BY <1>5, Zenon DEF Goto, Types
  <2>2. \A j \in Index : \/ notifyCh'[j] = notifyCh[j]
                         \/ notifyCh[j] = waitsOn[h] /\ notifyCh'[j] = None
    <3> DEFINE new == IF notifyCh[index[h]] = waitsOn[h] THEN None ELSE notifyCh[index[h]]
    <3>1. notifyCh' = [notifyCh EXCEPT ![index[h]] = new] /\ DOMAIN notifyCh = Index
      BY <1>5, Zenon DEF Types
    <3> HIDE DEF new
    <3>2. \A j \in Index : notifyCh'[j] = IF j = index[h] THEN new ELSE notifyCh[j]
      BY <3>1, Zenon
    <3> QED  BY <3>2, Zenon DEF new
  <2>3. PhaseInv'
    BY <1>1, <1>2, <2>1, Zenon DEF WaitInv, PhaseInv, nodeVars
  <2>4. ChannelInv'
    <3>1. \A j \in Index : notifyCh'[j] # None =>
             /\ notifyCh'[j][2] < calls'[notifyCh'[j][1]] \/ j = index'[notifyCh'[j][1]]
             /\ notifyCh'[j][2] <= calls'[notifyCh'[j][1]]
      BY <1>2, <2>2, Zenon DEF WaitInv, ChannelInv
    <3>2. ASSUME NEW g \in Handler, Current(g)', notifyCh'[index'[g]] # None
          PROVE  notifyCh'[index'[g]][1] = g /\ notifyCh'[index'[g]][2] = calls'[g]
      <4>1. index[g] \in Index /\ Current(g)
        BY <1>0, <1>2, <3>2, Zenon DEF WaitInv, PhaseInv, Plain, nodeVars
      <4> QED  BY <1>2, <2>2, <3>2, <4>1 DEF WaitInv, ChannelInv
    <3>3. ASSUME NEW g \in Handler, pc'[g] = "waitCommit", waitsOn'[g] # Closed
          PROVE  waitsOn'[g] # None /\ waitsOn'[g][1] = g /\ waitsOn'[g][2] = calls'[g]
      BY <1>2, <1>6, <2>1, <3>3, Zenon DEF WaitInv, ChannelInv
    <3> QED  BY <3>1, <3>2, <3>3, Zenon DEF ChannelInv
  <2>5. WakeInv'
    <3> SUFFICES ASSUME NEW g \in Handler, pc'[g] = "waitCommit", Current(g)',
                        waitsOn'[g] # Closed
                 PROVE  notifyCh'[index'[g]] = waitsOn'[g] /\ lastApplied' < index'[g]
      BY Zenon DEF WakeInv
    <3>1. g # h /\ pc[g] = "waitCommit" /\ Current(g) /\ waitsOn[g] # Closed
      BY <1>2, <1>6, <2>1, Zenon DEF nodeVars
    <3>2. index[g] \in Index /\ notifyCh[index[g]] = waitsOn[g] /\ lastApplied < index[g]
      BY <1>0, <3>1, Zenon DEF WaitInv, WakeInv, PhaseInv, Plain
    <3>3. waitsOn[g] # waitsOn[h]
      <4>1. waitsOn[g][1] = g
        BY <3>1, Zenon DEF WaitInv, ChannelInv
      <4>2. waitsOn[h] = Closed \/ waitsOn[h][1] = h
        BY <1>1, Zenon DEF WaitInv, ChannelInv
      <4> QED  BY <3>1, <4>1, <4>2, Zenon
    <3> QED  BY <1>2, <1>6, <2>2, <3>1, <3>2, <3>3, Zenon DEF nodeVars
  <2>6. WokenInv'
    BY <1>2, <1>6, <2>1, Zenon DEF WaitInv, WokenInv, Woken, nodeVars
  <2>7. ResultInv'
    BY <1>2, <2>1, Zenon DEF WaitInv, ResultInv, InOrder, nodeVars
  <2>8. WaitersInv'
    BY <1>0, <1>1, <1>2, <2>1, WaitersStay, Zenon
  <2> QED  BY <1>3, <2>3, <2>4, <2>5, <2>6, <2>7, <2>8, Zenon DEF WaitInv
<1> QED  BY <1>4, <1>5, Zenon DEF CommitSeen, CommitTimeout, waitVars

\* WaitForApply: a write takes the result kept for its entry, or registers for it
\* in time; it takes neither from another of this term.
LEMMA WaitForApplyKeeps ==
    ASSUME Types, Bounds, WaitInv, NEW h \in Handler, WaitForApply(h)
    PROVE  WaitInv'
<1> USE DEF Current
<1>0. Plain
  BY TypesPlain, Zenon
<1>1. pc[h] = "committed"
  BY Zenon DEF WaitForApply
<1>2. UNCHANGED <<nodeVars, notifyCh, calls, index, term, waitsOn, result>>
  BY Zenon DEF WaitForApply, raftVars, applyVars, sendVars, nodeVars
<1>3. LeaderInv' /\ OwnIndex' /\ LabelInv' /\ QueueInv' /\ SnapshotInv'
  <2>1. UNCHANGED leader
    BY Zenon DEF WaitForApply, raftVars
  <2>2. LabelInv' /\ QueueInv'
    BY <1>2, QueueStays, Zenon DEF nodeVars
  <2> QED  BY <1>2, <2>1, <2>2, Zenon DEF WaitInv, nodeVars, LeaderInv, OwnIndex, SnapshotInv
<1>4. index[h] \in Index /\ result[h] = None
  BY <1>0, <1>1, Zenon DEF WaitInv, PhaseInv, Plain
<1>5. \A g \in Handler : Current(g) /\ g # h => index[g] \in Index /\ index[g] # index[h]
  BY <1>0, <1>1, Zenon DEF WaitInv, WokenInv, Woken, PhaseInv, Plain
<1>6. CASE /\ Goto(h, "answered")
           /\ applyResults' = [applyResults EXCEPT ![index[h]] = None]
           /\ UNCHANGED applyWaiters
  <2>1. \A g \in Handler : pc'[g] = IF g = h THEN "answered" ELSE pc[g]
    BY <1>6, Zenon DEF Goto, Types
  <2>2. \A j \in Index : j # index[h] => applyResults'[j] = applyResults[j]
    BY <1>6, Zenon DEF Types
  <2>3. PhaseInv'
    BY <1>1, <1>2, <2>1, Zenon DEF WaitInv, PhaseInv, nodeVars
  <2>4. ChannelInv' /\ WakeInv'
    BY <1>2, <2>1, Zenon DEF WaitInv, ChannelInv, WakeInv, nodeVars
  <2>5. WokenInv'
    BY <1>2, <2>1, Zenon DEF WaitInv, WokenInv, Woken, nodeVars
  <2>6. WaitersInv'
    BY <1>0, <1>1, <1>2, <1>6, <2>1, WaitersStay, Zenon
  <2>7. ResultInv'
    BY <1>2, <1>5, <1>6, <2>1, <2>2 DEF WaitInv, ResultInv, InOrder, nodeVars
  <2> QED  BY <1>3, <2>3, <2>4, <2>5, <2>6, <2>7, Zenon DEF WaitInv
<1>7. CASE /\ applyResults[index[h]] = None
           /\ Goto(h, "waitApply")
           /\ applyWaiters' = [applyWaiters EXCEPT ![index[h]] = h]
           /\ UNCHANGED applyResults
  <2>1. \A g \in Handler : pc'[g] = IF g = h THEN "waitApply" ELSE pc[g]
    BY <1>7, Zenon DEF Goto, Types
  <2>2. \A j \in Index : applyWaiters'[j] = IF j = index[h] THEN h ELSE applyWaiters[j]
    BY <1>7, Zenon DEF Types
  <2>3. PhaseInv'
    BY <1>1, <1>2, <2>1, Zenon DEF WaitInv, PhaseInv, nodeVars
  <2>4. ChannelInv' /\ WakeInv'
    BY <1>2, <2>1, Zenon DEF WaitInv, ChannelInv, WakeInv, nodeVars
  <2>5. WokenInv'
    BY <1>1, <1>2, <2>1, Zenon DEF WaitInv, WokenInv, Woken, nodeVars
  <2>6. WaitersInv'
    <3> SUFFICES ASSUME NEW j \in Index, applyWaiters'[j] # None
                 PROVE  /\ pc'[applyWaiters'[j]] = "waitApply" /\ index'[applyWaiters'[j]] = j
                        /\ result'[applyWaiters'[j]] = None
      BY Zenon DEF WaitersInv
    <3>1. index' = index /\ result' = result /\ result[h] = None
      BY <1>1, <1>2, Zenon DEF WaitInv, PhaseInv
    <3>2. CASE j = index[h]
      BY <2>1, <2>2, <3>1, <3>2, Zenon
    <3>3. CASE j # index[h]
      <4>1. /\ applyWaiters'[j] = applyWaiters[j] /\ applyWaiters[j] \in Handler
            /\ pc[applyWaiters[j]] = "waitApply" /\ index[applyWaiters[j]] = j
            /\ result[applyWaiters[j]] = None
        BY <1>0, <2>2, <3>3, Zenon DEF Plain, WaitInv, WaitersInv
      <4> QED  BY <1>1, <2>1, <3>1, <4>1, Zenon
    <3> QED  BY <3>2, <3>3, Zenon
  <2>7. ResultInv'
    <3>1. InOrder /\ Current(h) => Len(applied) < index[h]
      BY <1>0, <1>1, <1>7 DEF Plain, WaitInv, ResultInv
    <3> QED  BY <1>2, <1>4, <1>5, <1>7, <2>1, <2>2, <3>1 DEF WaitInv, ResultInv, InOrder, nodeVars
  <2> QED  BY <1>3, <2>3, <2>4, <2>5, <2>6, <2>7, Zenon DEF WaitInv
<1> QED  BY <1>6, <1>7, Zenon DEF WaitForApply

\* ApplySeen and ApplyTimeout: a write that leaves is not registered any more.
LEMMA ApplyEndsKeeps ==
    ASSUME Types, Bounds, WaitInv, NEW h \in Handler, ApplySeen(h) \/ ApplyTimeout(h)
    PROVE  WaitInv'
<1> USE DEF Current
<1>0. Plain
  BY TypesPlain, Zenon
<1>1. pc[h] = "waitApply"
  BY Zenon DEF ApplySeen, ApplyTimeout
<1>2. UNCHANGED <<nodeVars, notifyCh, applyResults, calls, index, term, waitsOn>>
  BY Zenon DEF ApplySeen, ApplyTimeout, raftVars, applyVars, sendVars, waitVars, nodeVars
<1>3. LeaderInv' /\ OwnIndex' /\ LabelInv' /\ QueueInv' /\ SnapshotInv'
  <2>1. UNCHANGED leader
    BY Zenon DEF ApplySeen, ApplyTimeout, raftVars
  <2>2. LabelInv' /\ QueueInv'
    BY <1>2, QueueStays, Zenon DEF nodeVars
  <2> QED  BY <1>2, <2>1, <2>2, Zenon DEF WaitInv, nodeVars, LeaderInv, OwnIndex, SnapshotInv
<1>4. PICK l \in {"answered", "applyTimeout"} : Goto(h, l)
  BY Zenon DEF ApplySeen, ApplyTimeout
<1>5. \A g \in Handler : pc'[g] = IF g = h THEN l ELSE pc[g]
  BY <1>4, Zenon DEF Goto, Types
<1>6. \A j \in Index : \/ applyWaiters'[j] = applyWaiters[j] /\ applyWaiters[j] # h
                       \/ applyWaiters'[j] = None /\ applyWaiters[j] = h
  <2>1. \A j \in Index : applyWaiters[j] = h => j = index[h] /\ result[h] = None
    BY <1>0, RequestsAssumption DEF WaitInv, WaitersInv, Plain, Name
  <2>2. CASE result[h] # None /\ UNCHANGED applyWaiters
    BY <2>1, <2>2, Zenon
  <2>3. CASE applyWaiters' = Withdrawn(h)
    <3> DEFINE new == IF applyWaiters[index[h]] = h THEN None ELSE applyWaiters[index[h]]
    <3>1. applyWaiters' = [applyWaiters EXCEPT ![index[h]] = new] /\ DOMAIN applyWaiters = Index
      BY <2>3, Zenon DEF Types, Withdrawn
    <3> HIDE DEF new
    <3>2. \A j \in Index : applyWaiters'[j] = IF j = index[h] THEN new ELSE applyWaiters[j]
      BY <3>1, Zenon
    <3> QED  BY <2>1, <3>2, Zenon DEF new
  <2> QED  BY <2>2, <2>3, Zenon DEF ApplySeen, ApplyTimeout, waitVars
<1>12. \A g \in Handler : result'[g] = IF g = h THEN None ELSE result[g]
  BY Zenon DEF ApplySeen, ApplyTimeout, Types
<1>7. PhaseInv'
  BY <1>2, <1>4, <1>5, <1>12, Zenon DEF WaitInv, PhaseInv, nodeVars
<1>8. ChannelInv' /\ WakeInv'
  BY <1>2, <1>4, <1>5, Zenon DEF WaitInv, ChannelInv, WakeInv, nodeVars
<1>9. WokenInv'
  BY <1>2, <1>4, <1>5, Zenon DEF WaitInv, WokenInv, Woken, nodeVars
<1>10. WaitersInv'
  BY <1>0, <1>2, <1>5, <1>6, <1>12 DEF Plain, WaitInv, WaitersInv
<1>11. ResultInv'
  <2>1. \A g \in Handler : Current(g) => index[g] \in Index
    BY <1>0, Zenon DEF WaitInv, PhaseInv, Plain
  <2>2. UNCHANGED <<currentTerm, applied, overlapped, applyResults, index, term>>
    BY <1>2, <1>4, Zenon DEF nodeVars
  <2> SUFFICES ASSUME InOrder, NEW g \in Handler, Current(g)
               PROVE  /\ /\ pc'[g] \in {"submitted", "waitCommit", "committed"}
                         /\ Len(applied) >= index[g]
                         => applyResults[index[g]] # None
                      /\ pc'[g] = "waitApply" =>
                            \/ result'[g] # None
                            \/ applyWaiters'[index[g]] = g /\ Len(applied) < index[g]
    BY <2>2, Zenon DEF ResultInv, InOrder
  <2>3. CASE g = h
    BY <1>5, <2>3, Zenon
  <2>4. CASE g # h
    <3>1. pc'[g] = pc[g] /\ result'[g] = result[g]
      BY <1>5, <1>12, <2>4, Zenon
    <3>2. applyWaiters[index[g]] = g => applyWaiters'[index[g]] = g
      BY <1>6, <2>1, <2>4, Zenon
    <3> QED  BY <3>1, <3>2, Zenon DEF WaitInv, ResultInv
  <2> QED  BY <2>3, <2>4, Zenon
<1> QED  BY <1>3, <1>7, <1>8, <1>9, <1>10, <1>11, Zenon DEF WaitInv

\* Redirect: the write starts again, with nothing of its last call but channels
\* that nobody waits on.
LEMMA RedirectKeeps ==
    ASSUME Types, Bounds, WaitInv, NEW h \in Handler, NEW here \in BOOLEAN,
           Redirect(h, here)
    PROVE  WaitInv'
<1> USE DEF Current
<1>0. Plain
  BY TypesPlain, Zenon
<1>1. pc[h] = "notLeader"
  BY Zenon DEF Redirect
<1>2. UNCHANGED <<nodeVars, awaited, waitsOn, result>>
  BY Zenon DEF Redirect, raftVars, applyVars, sendVars, waitVars, nodeVars, awaited
<1>3. PICK l \in {"new", "elsewhere"} : Goto(h, l)
  BY Zenon DEF Redirect
<1>4. /\ \A g \in Handler : pc'[g] = IF g = h THEN l ELSE pc[g]
      /\ \A g \in Handler : calls'[g] = IF g = h THEN calls[h] + 1 ELSE calls[g]
      /\ \A g \in Handler : index'[g] = IF g = h THEN 0 ELSE index[g]
      /\ \A g \in Handler : term'[g] = IF g = h THEN 0 ELSE term[g]
  BY <1>3, Zenon DEF Redirect, Goto, Types
<1>5. \A g \in Handler : Current(g)' => g # h /\ Current(g)
  BY <1>0, <1>2, <1>4, Zenon DEF Plain, nodeVars
<1>6. LeaderInv'
  <2>1. UNCHANGED leader
    BY Zenon DEF Redirect, raftVars
  <2> QED  BY <1>5, <2>1, Zenon DEF WaitInv, LeaderInv
<1>7. PhaseInv'
  <2>1. result[h] = None
    BY <1>1, Zenon DEF WaitInv, PhaseInv
  <2> QED  BY <1>0, <1>2, <1>3, <1>4, <1>5, <2>1 DEF Plain, WaitInv, PhaseInv, nodeVars
<1>8. OwnIndex'
  BY <1>4, <1>5, Zenon DEF WaitInv, OwnIndex
<1>9. ChannelInv'
  <2>1. \A j \in Index : notifyCh'[j] # None =>
           /\ notifyCh'[j][2] < calls'[notifyCh'[j][1]] \/ j = index'[notifyCh'[j][1]]
           /\ notifyCh'[j][2] <= calls'[notifyCh'[j][1]]
    <3> SUFFICES ASSUME NEW j \in Index, notifyCh[j] # None
                 PROVE  /\ notifyCh[j][2] < calls'[notifyCh[j][1]] \/ j = index'[notifyCh[j][1]]
                        /\ notifyCh[j][2] <= calls'[notifyCh[j][1]]
      BY <1>2, Zenon DEF awaited
    <3>1. notifyCh[j][1] \in Handler /\ notifyCh[j][2] \in Nat
      BY <1>0, Zenon DEF Plain
    <3>2. /\ notifyCh[j][2] < calls[notifyCh[j][1]] \/ j = index[notifyCh[j][1]]
          /\ notifyCh[j][2] <= calls[notifyCh[j][1]]
      BY Zenon DEF WaitInv, ChannelInv
    <3>3. calls[notifyCh[j][1]] \in Nat
      BY <1>0, <3>1, Zenon DEF Plain
    <3>4. ASSUME NEW n \in Nat, NEW c \in Nat, n <= c PROVE n < c + 1 /\ n <= c + 1
      BY <3>4
    <3>5. CASE notifyCh[j][1] = h
      <4>1. notifyCh[j][2] < calls[h] + 1 /\ notifyCh[j][2] <= calls[h] + 1
        BY <3>1, <3>2, <3>3, <3>4, <3>5, Zenon
      <4> QED  BY <1>4, <3>5, <4>1, Zenon
    <3>6. CASE notifyCh[j][1] # h
      <4>1. /\ calls'[notifyCh[j][1]] = calls[notifyCh[j][1]]
            /\ index'[notifyCh[j][1]] = index[notifyCh[j][1]]
        BY <1>4, <3>1, <3>6, Zenon
      <4> QED  BY <3>2, <4>1, Zenon
    <3> QED  BY <3>5, <3>6, Zenon
  <2>2. ASSUME NEW g \in Handler, Current(g)', notifyCh'[index'[g]] # None
        PROVE  notifyCh'[index'[g]][1] = g /\ notifyCh'[index'[g]][2] = calls'[g]
    BY <1>2, <1>4, <1>5, <2>2 DEF WaitInv, ChannelInv, awaited
  <2>3. ASSUME NEW g \in Handler, pc'[g] = "waitCommit", waitsOn'[g] # Closed
        PROVE  waitsOn'[g] # None /\ waitsOn'[g][1] = g /\ waitsOn'[g][2] = calls'[g]
    BY <1>2, <1>3, <1>4, <2>3, Zenon DEF WaitInv, ChannelInv
  <2> QED  BY <2>1, <2>2, <2>3, Zenon DEF ChannelInv
<1>10. WakeInv'
  BY <1>2, <1>4, <1>5, Zenon DEF WaitInv, WakeInv, nodeVars, awaited
<1>11. WokenInv'
  <2>1. \A g \in Handler : Woken(g)' => g # h /\ Woken(g)
    BY <1>2, <1>3, <1>4, Zenon DEF Woken
  <2>2. \A g \in Handler : g # h => index'[g] = index[g]
    BY <1>4, Zenon
  <2>3. UNCHANGED commitIndex
    BY <1>2, Zenon DEF nodeVars
  <2>4. WokenInv
    BY Zenon DEF WaitInv
  <2> SUFFICES ASSUME NEW g \in Handler, Woken(g)'
               PROVE  /\ index'[g] <= commitIndex'
                      /\ \A k \in Handler : Current(k)' /\ g # k => index'[g] # index'[k]
    BY Zenon DEF WokenInv
  <2> HIDE DEF Current
  <2>5. g # h /\ Woken(g) /\ index'[g] = index[g]
    BY <2>1, <2>2, Zenon
  <2>6. /\ index[g] <= commitIndex
        /\ \A k \in Handler : Current(k) /\ g # k => index[g] # index[k]
    BY <2>4, <2>5, Zenon DEF WokenInv
  <2> QED  BY <1>5, <2>2, <2>3, <2>5, <2>6, Zenon
<1>12. WaitersInv'
  BY <1>0, <1>1, <1>2, <1>4, Zenon DEF WaitInv, WaitersInv, Plain, awaited
<1>13. LabelInv' /\ QueueInv'
  BY <1>2, QueueStays, Zenon DEF nodeVars
<1>14. SnapshotInv'
  BY <1>2, <1>4, <1>5, Zenon DEF WaitInv, SnapshotInv, nodeVars
<1>15. ResultInv'
  BY <1>2, <1>4, <1>5, Zenon DEF WaitInv, ResultInv, InOrder, nodeVars, awaited
<1> QED
  BY <1>6, <1>7, <1>8, <1>9, <1>10, <1>11, <1>12, <1>13, <1>14, <1>15, Zenon DEF WaitInv
\* A read, a commit: nothing that the writes wait for changes.
LEMMA FrameKeeps ==
    ASSUME Types, Bounds, WaitInv, commitIndex' \in Nat, commitIndex' >= commitIndex,
           UNCHANGED <<leader, currentTerm, log, lastApplied, applied, applyCh, sending,
                       overlapped, awaited, calls, index, term, waitsOn, result>>,
           \A h \in Handler : pc'[h] = pc[h]
    PROVE  WaitInv'
<1> USE DEF Current
<1>0. Plain
  BY TypesPlain, Zenon
<1>1. LeaderInv' /\ OwnIndex' /\ LabelInv' /\ QueueInv' /\ SnapshotInv'
  BY QueueStays, Zenon DEF WaitInv, LeaderInv, OwnIndex, SnapshotInv
<1>2. PhaseInv'
  BY Zenon DEF WaitInv, PhaseInv
<1>3. ChannelInv' /\ WakeInv'
  BY Zenon DEF WaitInv, ChannelInv, WakeInv, awaited
<1>4. WokenInv'
  <2>1. \A g \in Handler : Woken(g)' = Woken(g)
    BY Zenon DEF Woken
  <2>2. ASSUME NEW n \in Nat, n <= commitIndex PROVE n <= commitIndex'
    BY <1>0, <2>2 DEF Plain
  <2>3. \A g \in Handler : index[g] \in Nat
    BY <1>0, Zenon DEF Plain
  <2> QED  BY <2>1, <2>2, <2>3, Zenon DEF WaitInv, WokenInv
<1>5. WaitersInv'
  BY <1>0, Zenon DEF Plain, WaitInv, WaitersInv, awaited
<1>6. ResultInv'
  BY Zenon DEF WaitInv, ResultInv, InOrder, awaited
<1> QED  BY <1>1, <1>2, <1>3, <1>4, <1>5, <1>6, Zenon DEF WaitInv

\* The node loses its term or its log: then no write is of the present term.
LEMMA DeposedKeeps ==
    ASSUME Types, Bounds, WaitInv,
           currentTerm' \in Nat, currentTerm' >= currentTerm,
           commitIndex' \in Nat, commitIndex' >= commitIndex,
           UNCHANGED <<awaited, writeVars>>,
           \A h \in Handler : term[h] # currentTerm',
           LabelInv', QueueInv'
    PROVE  WaitInv'
<1> USE DEF Current
<1>0. Plain
  BY TypesPlain, Zenon
<1>1. \A h \in Handler : ~ Current(h)'
  BY Zenon DEF writeVars
<1>2. LeaderInv' /\ OwnIndex' /\ SnapshotInv' /\ WakeInv' /\ ResultInv'
  BY <1>1, Zenon DEF LeaderInv, OwnIndex, SnapshotInv, WakeInv, ResultInv
<1>3. PhaseInv'
  <2>1. \A h \in Handler : term[h] <= currentTerm'
    <3>1. ASSUME NEW n \in Nat, n <= currentTerm PROVE n <= currentTerm'
      BY <1>0, <3>1 DEF Plain
    <3>2. \A h \in Handler : term[h] \in Nat /\ term[h] <= currentTerm
      BY <1>0, Zenon DEF Plain, WaitInv, PhaseInv
    <3> QED  BY <3>1, <3>2, Zenon
  <2> QED  BY <1>1, <2>1, Zenon DEF WaitInv, PhaseInv, writeVars
<1>4. ChannelInv'
  <2>1. UNCHANGED <<notifyCh, pc, calls, index, waitsOn>>
    BY Zenon DEF awaited, writeVars
  <2> HIDE DEF Current
  <2>2. ChannelInv
    BY Zenon DEF WaitInv
  <2> QED  BY <1>1, <2>1, <2>2, Zenon DEF ChannelInv
<1>5. WokenInv'
  <2> HIDE DEF Current
  <2>1. \A g \in Handler : Woken(g)' = Woken(g) /\ index'[g] = index[g] /\ index[g] \in Nat
    BY <1>0, Zenon DEF Plain, Woken, writeVars
  <2>2. ASSUME NEW n \in Nat, n <= commitIndex PROVE n <= commitIndex'
    BY <1>0, <2>2 DEF Plain
  <2>3. WokenInv
    BY Zenon DEF WaitInv
  <2> QED  BY <1>1, <2>1, <2>2, <2>3, Zenon DEF WokenInv
<1>6. WaitersInv'
  BY <1>0, Zenon DEF Plain, WaitInv, WaitersInv, awaited, writeVars
<1> QED  BY <1>2, <1>3, <1>4, <1>5, <1>6, Zenon DEF WaitInv

\* What a call takes continues what is sent, or overlaps with another.
LEMMA QueueHold ==
    ASSUME Types, Bounds, LabelInv, QueueInv, NEW m \in Message, Hold(m),
           UNCHANGED <<applied, applyCh>>,
           lastApplied' = m.index, m.index > lastApplied, Continues(m, lastApplied)
    PROVE  LabelInv' /\ QueueInv'
<1>0. Plain
  BY TypesPlain, Zenon
<1>1. m.index \in Nat
  BY RequestsAssumption DEF Message, Index
<1>2. sending' = sending \cup {m} /\ (InOrder' => InOrder /\ sending = {})
  BY Zenon DEF Hold, InOrder
<1>3. LabelInv'
  <2>0. ASSUME NEW n \in Nat, n <= lastApplied PROVE n <= lastApplied'
    BY <1>0, <1>1, <2>0 DEF Plain
  <2>1. \A k \in 1 .. Len(applyCh) : applyCh[k].index <= lastApplied'
    BY <1>0, <2>0, Zenon DEF Plain, LabelInv
  <2>2. \A x \in sending : x.index <= lastApplied'
    BY <1>0, <2>0, Zenon DEF Plain, LabelInv
  <2>3. m.index <= lastApplied'
    BY <1>1
  <2> QED  BY <1>2, <2>1, <2>2, <2>3, Zenon DEF LabelInv
<1>4. ASSUME InOrder'
      PROVE  /\ Len(applied') <= lastApplied'
             /\ \A k \in 1 .. Len(applyCh') : Continues(applyCh'[k], Before(k)')
             /\ OnItsWay'
  <2>1. InOrder /\ sending = {} /\ sending' = {m}
    BY <1>2, <1>4, Zenon
  <2>2. lastApplied = Before(Len(applyCh) + 1) /\ Len(applied) <= lastApplied
    BY <2>1, Zenon DEF QueueInv, OnItsWay
  <2>3. \A k : Before(k)' = Before(k)
    BY Zenon DEF Before
  <2>4. Len(applied') <= lastApplied'
    BY <1>0, <1>1, <2>2 DEF Plain
  <2>5. \A k \in 1 .. Len(applyCh') : Continues(applyCh'[k], Before(k)')
    BY <2>1, <2>3, Zenon DEF QueueInv
  <2>6. Continues(m, Before(Len(applyCh) + 1)')
    BY <2>2, <2>3, Zenon
  <2> QED  BY <2>1, <2>4, <2>5, <2>6, Zenon DEF OnItsWay
<1> QED  BY <1>3, <1>4, Zenon DEF QueueInv

\* What is sent is put behind what it continues.
LEMMA QueueAppend ==
    ASSUME Types, Bounds, QueueInv, InOrder, NEW m \in Message,
           applyCh' = Append(applyCh, m), UNCHANGED <<applied, lastApplied>>,
           m.index = lastApplied, Continues(m, Before(Len(applyCh) + 1)), sending' = {}
    PROVE  QueueInv'
<1>0. Plain
  BY TypesPlain, Zenon
<1> PICK n \in Nat : n = Len(applyCh)
  BY <1>0, Zenon DEF Plain
<1>1. /\ Len(applyCh') = n + 1 /\ applyCh'[n + 1] = m
      /\ \A k \in 1 .. n : applyCh'[k] = applyCh[k]
  BY DEF Types
<1>2. \A k \in 1 .. n + 1 : Before(k)' = Before(k)
  BY <1>1 DEF Before
<1>3. Before(n + 2)' = m.index
  BY <1>1 DEF Before
<1>4. ASSUME NEW k \in 1 .. n + 1 PROVE Continues(applyCh'[k], Before(k)')
  <2>1. CASE k = n + 1
    BY <1>1, <1>2, <2>1, Zenon
  <2>2. CASE k # n + 1
    <3>1. k \in 1 .. n
      BY <2>2
    <3> QED  BY <1>1, <1>2, <3>1, Zenon DEF QueueInv
  <2> QED  BY <2>1, <2>2, Zenon
<1>5. Len(applied') <= lastApplied'
  BY Zenon DEF QueueInv
<1>6. Len(applyCh') + 1 = n + 2
  BY <1>1
<1>7. OnItsWay'
  BY <1>3, <1>6, Zenon DEF OnItsWay, Before
<1> QED  BY <1>1, <1>4, <1>5, <1>7, Zenon DEF QueueInv

\* Send: nothing that the writes wait for changes, and the queue goes on, unless
\* the message was labelled with another's index because two overlapped.
LEMMA SendKeeps ==
    ASSUME Types, Bounds, WaitInv, NEW m \in sending, Send(m)
    PROVE  WaitInv'
<1> USE DEF Current
<1>0. Plain
  BY TypesPlain, Zenon
<1>1. UNCHANGED <<leader, currentTerm, log, commitIndex, lastApplied, overlapped, applied,
                  awaited, writeVars>>
  BY Zenon DEF Send, raftVars, waitVars, handlerVars, awaited, writeVars
<1>2. sending' = sending \ {m} /\ m \in Message /\ m.index \in Nat /\ m.index <= lastApplied
  BY <1>0, Zenon DEF Send, Types, Plain, WaitInv, LabelInv
<1>3. PICK x : /\ applyCh' = Append(applyCh, x)
               /\ \/ m.snapshot /\ x = m
                  \/ /\ ~ m.snapshot
                     /\ \E i \in m.index .. lastApplied : x = [m EXCEPT !.index = i]
  BY Zenon DEF Send
<1>4. /\ x \in Message /\ x.index \in Nat /\ x.index <= lastApplied
      /\ m.index = lastApplied => x = m
      /\ x.snapshot => x = m
  <2>1. CASE x = m
    BY <1>2, <2>1, Zenon
  <2>2. ASSUME ~ m.snapshot, NEW i \in m.index .. lastApplied, x = [m EXCEPT !.index = i]
        PROVE  /\ x \in Message /\ x.index \in Nat /\ x.index <= lastApplied
               /\ m.index = lastApplied => x = m
               /\ x.snapshot => x = m
    <3>1. i \in Index /\ i \in Nat /\ i <= lastApplied /\ (m.index = lastApplied => i = m.index)
      <4>1. m.index \in Index
        BY <1>2, Zenon DEF Message
      <4>2. /\ lastApplied \in Nat /\ commitIndex \in Nat /\ Len(log) \in Nat
            /\ lastApplied <= commitIndex /\ commitIndex <= Len(log) /\ Len(log) <= MaxIndex
        BY <1>0, Zenon DEF Plain, Bounds
      <4> QED  BY <4>1, <4>2, RequestsAssumption DEF Index
    <3>2. m = [snapshot |-> m.snapshot, index |-> m.index, cmds |-> m.cmds, data |-> m.data]
      BY <1>2, Zenon DEF Message
    <3>3. x = [snapshot |-> m.snapshot, index |-> i, cmds |-> m.cmds, data |-> m.data]
      BY <1>2, <2>2, Zenon DEF Message
    <3> QED  BY <1>2, <2>2, <3>1, <3>2, <3>3 DEF Message
  <2> QED  BY <1>3, <2>1, <2>2, Zenon
<1>5. /\ Len(applyCh') = Len(applyCh) + 1 /\ applyCh'[Len(applyCh) + 1] = x
      /\ \A k \in 1 .. Len(applyCh) : applyCh'[k] = applyCh[k]
      /\ \A k \in 1 .. Len(applyCh) + 1 : k = Len(applyCh) + 1 \/ k \in 1 .. Len(applyCh)
  BY <1>3, <1>4 DEF Types
<1>6. LabelInv'
  BY <1>1, <1>2, <1>4, <1>5, Zenon DEF WaitInv, LabelInv
<1>7. QueueInv'
  <2>1. CASE InOrder
    <3>1. sending = {m} /\ m.index = lastApplied /\ Continues(m, Before(Len(applyCh) + 1))
      BY <2>1, Zenon DEF WaitInv, QueueInv, OnItsWay
    <3>2. x = m /\ sending' = {}
      BY <1>2, <1>4, <3>1, Zenon
    <3> QED  BY <1>1, <1>2, <1>3, <2>1, <3>1, <3>2, QueueAppend, Zenon DEF WaitInv
  <2>2. CASE ~ InOrder
    BY <1>1, <2>2, Zenon DEF QueueInv, InOrder
  <2> QED  BY <2>1, <2>2, Zenon
<1>8. SnapshotInv'
  <2>1. ASSUME NEW k \in 1 .. Len(applyCh) + 1, NEW h \in Handler, applyCh'[k].snapshot,
               Current(h)
        PROVE  applyCh'[k].index < index[h]
    BY <1>4, <1>5, <2>1, Zenon DEF WaitInv, SnapshotInv
  <2> QED  BY <1>1, <1>2, <1>5, <2>1, Zenon DEF WaitInv, SnapshotInv, writeVars
<1>9. LeaderInv' /\ OwnIndex'
  BY <1>1, Zenon DEF WaitInv, LeaderInv, OwnIndex, writeVars
<1>10. PhaseInv' /\ WaitersInv'
  BY <1>1, Zenon DEF WaitInv, PhaseInv, WaitersInv, awaited, writeVars
<1>11. ChannelInv' /\ WakeInv'
  BY <1>1, Zenon DEF WaitInv, ChannelInv, WakeInv, awaited, writeVars
<1>12. WokenInv' /\ ResultInv'
  BY <1>1, Zenon DEF WaitInv, WokenInv, Woken, ResultInv, InOrder, awaited, writeVars
<1> QED
  BY <1>6, <1>7, <1>8, <1>9, <1>10, <1>11, <1>12, Zenon DEF WaitInv

\* Notify: the channels closed are those of the writes whose indexes they are at,
\* and where a write of this term is, of no other.
LEMMA NotifyKeeps ==
    ASSUME Types, Bounds, WaitInv, NEW I, Notify(I),
           \A i \in I : i \in Index /\ i <= commitIndex,
           lastApplied' \in Nat,
           \A i \in Index : lastApplied < i /\ i \notin I => lastApplied' < i,
           UNCHANGED <<currentTerm, commitIndex, pc, calls, index, term>>
    PROVE  ChannelInv' /\ WakeInv' /\ WokenInv'
<1> USE DEF Current
<1>0. Plain
  BY TypesPlain, Zenon
<1>1. /\ \A i \in Index : notifyCh'[i] = IF i \in I THEN None ELSE notifyCh[i]
      /\ \A g \in Handler : waitsOn'[g] =
             IF waitsOn[g] \in {notifyCh[i] : i \in I} \ {None} THEN Closed ELSE waitsOn[g]
  BY Zenon DEF Notify
<1>2. \A g \in Handler : \/ waitsOn'[g] = waitsOn[g]
                         \/ /\ waitsOn'[g] = Closed
                            /\ \E i \in I : waitsOn[g] = notifyCh[i] /\ notifyCh[i] # None
  BY <1>1, Zenon
<1>3. ASSUME NEW g \in Handler, pc[g] = "waitCommit", waitsOn'[g] = Closed, waitsOn[g] # Closed
      PROVE  index[g] \in I /\ notifyCh[index[g]] # None /\ notifyCh[index[g]][1] = g
  <2>1. PICK i \in I : waitsOn[g] = notifyCh[i] /\ notifyCh[i] # None
    BY <1>2, <1>3, Zenon
  <2>2. notifyCh[i][1] = g /\ notifyCh[i][2] = calls[g]
    BY <1>3, <2>1, Zenon DEF WaitInv, ChannelInv
  <2>3. calls[g] \in Nat
    BY <1>0, Zenon DEF Plain
  <2>4. i = index[g]
    BY <2>1, <2>2, <2>3 DEF WaitInv, ChannelInv
  <2> QED  BY <2>1, <2>2, <2>4, Zenon
<1>4. \A g \in Handler : Current(g) => index[g] \in Index
  BY <1>0, Zenon DEF WaitInv, PhaseInv, Plain
<1>5. ChannelInv'
  <2>1. \A j \in Index : notifyCh'[j] # None =>
           /\ notifyCh'[j][2] < calls'[notifyCh'[j][1]] \/ j = index'[notifyCh'[j][1]]
           /\ notifyCh'[j][2] <= calls'[notifyCh'[j][1]]
    BY <1>1, Zenon DEF WaitInv, ChannelInv
  <2>2. ASSUME NEW g \in Handler, Current(g)', notifyCh'[index'[g]] # None
        PROVE  notifyCh'[index'[g]][1] = g /\ notifyCh'[index'[g]][2] = calls'[g]
    BY <1>1, <1>4, <2>2 DEF WaitInv, ChannelInv
  <2>3. ASSUME NEW g \in Handler, pc'[g] = "waitCommit", waitsOn'[g] # Closed
        PROVE  waitsOn'[g] # None /\ waitsOn'[g][1] = g /\ waitsOn'[g][2] = calls'[g]
    BY <1>2, <2>3, Zenon DEF WaitInv, ChannelInv
  <2> QED  BY <2>1, <2>2, <2>3, Zenon DEF ChannelInv
<1>6. WakeInv'
  <2> SUFFICES ASSUME NEW g \in Handler, pc[g] = "waitCommit", Current(g),
                      waitsOn'[g] # Closed
               PROVE  notifyCh'[index[g]] = waitsOn'[g] /\ lastApplied' < index[g]
    BY Zenon DEF WakeInv
  <2>1. waitsOn[g] # Closed /\ waitsOn'[g] = waitsOn[g]
    BY <1>2, Zenon
  <2>2. waitsOn[g] # None
    BY <2>1, Zenon DEF WaitInv, ChannelInv
  <2>3. index[g] \in Index /\ notifyCh[index[g]] = waitsOn[g] /\ lastApplied < index[g]
    BY <1>4, <2>1, Zenon DEF WaitInv, WakeInv
  <2>4. index[g] \notin I
    BY <1>1, <2>1, <2>2, <2>3, Zenon
  <2> QED  BY <1>1, <2>1, <2>3, <2>4, Zenon
<1>7. WokenInv'
  <2> SUFFICES ASSUME NEW g \in Handler, Woken(g)'
               PROVE  /\ index[g] <= commitIndex
                      /\ \A h \in Handler : Current(h) /\ g # h => index[g] # index[h]
    BY Zenon DEF WokenInv
  <2>1. CASE Woken(g)
    BY <2>1, Zenon DEF WaitInv, WokenInv
  <2>2. CASE ~ Woken(g)
    <3>1. pc[g] = "waitCommit" /\ waitsOn'[g] = Closed /\ waitsOn[g] # Closed
      BY <2>2, Zenon DEF Woken
    <3>2. index[g] \in I /\ notifyCh[index[g]] # None /\ notifyCh[index[g]][1] = g
      BY <1>3, <3>1, Zenon
    <3> QED  BY <3>2, Zenon DEF WaitInv, ChannelInv
  <2> QED  BY <2>1, <2>2, Zenon
<1> QED  BY <1>5, <1>6, <1>7, Zenon

\* ApplyCommitted: the channel of the entry taken is closed.
LEMMA ApplyCommittedKeeps ==
    ASSUME Types, Bounds, WaitInv, ApplyCommitted, lastApplied < commitIndex
    PROVE  WaitInv'
<1> USE DEF Current
<1>0. Plain
  BY TypesPlain, Zenon
<1>1. /\ lastApplied' = lastApplied + 1
      /\ Hold(EntryMsg(lastApplied + 1))
      /\ Notify({lastApplied + 1})
      /\ UNCHANGED <<currentTerm, log, commitIndex, applied, applyCh, applyWaiters,
                     applyResults, pc, calls, index, term, result>>
  <2>1. ~ (lastApplied >= commitIndex)
    BY <1>0 DEF Plain
  <2> QED  BY <2>1, Zenon DEF ApplyCommitted, raftVars
<1>2. LeaderInv'
  <2>1. UNCHANGED leader
    BY Zenon DEF ApplyCommitted, raftVars
  <2> QED  BY <1>1, <2>1, Zenon DEF WaitInv, LeaderInv
<1>3. ChannelInv' /\ WakeInv' /\ WokenInv'
  <2> PICK I : I = {lastApplied + 1}
    BY Zenon
  <2>1. lastApplied + 1 \in Index
    BY RequestsAssumption DEF Types, Bounds, Index
  <2>2. \A i \in I : i \in Index /\ i <= commitIndex
    BY <1>0, <2>1 DEF Plain
  <2>3. \A i \in Index : lastApplied < i /\ i \notin I => lastApplied' < i
    BY <1>0, <1>1 DEF Plain
  <2>4. lastApplied' \in Nat
    BY <1>0, <1>1 DEF Plain
  <2> QED  BY <1>1, <2>2, <2>3, <2>4, NotifyKeeps, Zenon
<1>4. PhaseInv' /\ OwnIndex'
  BY <1>1, Zenon DEF WaitInv, PhaseInv, OwnIndex
<1>5. WaitersInv'
  BY <1>0, <1>1, Zenon DEF Plain, WaitInv, WaitersInv
<1>6. InOrder' => InOrder
  BY <1>1, Zenon DEF Hold, InOrder
<1>7. ResultInv'
  BY <1>1, <1>6, Zenon DEF WaitInv, ResultInv
<1>8. PICK m : m = EntryMsg(lastApplied + 1)
  BY Zenon
<1>9. m \in Message /\ m.snapshot = FALSE /\ Len(m.cmds) = 1 /\ m.index = lastApplied + 1
  <2>1. lastApplied + 1 \in 1 .. Len(log) /\ lastApplied + 1 \in Index
    BY RequestsAssumption DEF Types, Bounds, Index
  <2>2. log[lastApplied + 1] \in Entry
    BY <2>1 DEF Types
  <2>3. <<log[lastApplied + 1].cmd>> \in Seq(Name) /\ Len(<<log[lastApplied + 1].cmd>>) = 1
    BY <2>2 DEF Entry
  <2> QED  BY <1>8, <2>1, <2>3, Zenon DEF EntryMsg, Message, Stores
<1>10. LabelInv' /\ QueueInv'
  <2>1. m.index > lastApplied
    BY <1>0, <1>9 DEF Plain
  <2>2. Continues(m, lastApplied)
    BY <1>9, Zenon DEF Continues
  <2>3. lastApplied' = m.index /\ Hold(m) /\ UNCHANGED <<applied, applyCh>>
    BY <1>1, <1>8, <1>9, Zenon
  <2>4. LabelInv /\ QueueInv
    BY Zenon DEF WaitInv
  <2> QED  BY <1>9, <2>1, <2>2, <2>3, <2>4, QueueHold, Zenon
<1>11. SnapshotInv'
  <2>1. sending' = sending \cup {m} /\ ~ m.snapshot
    BY <1>1, <1>8, <1>9, Zenon DEF Hold
  <2> QED  BY <1>1, <2>1, Zenon DEF WaitInv, SnapshotInv
<1> QED  BY <1>2, <1>3, <1>4, <1>5, <1>7, <1>10, <1>11, Zenon DEF WaitInv

\* The message applyLoop takes leaves the rest of the queue in order.
LEMMA QueueTail ==
    ASSUME Types, Bounds, LabelInv, QueueInv, applyCh # <<>>, applyCh' = Tail(applyCh),
           InOrder => Len(applied') = Head(applyCh).index,
           UNCHANGED <<lastApplied, sending, overlapped>>
    PROVE  LabelInv' /\ QueueInv'
<1>0. Plain
  BY TypesPlain, Zenon
<1> PICK n \in Nat : n = Len(applyCh)
  BY <1>0, Zenon DEF Plain
<1>1. n >= 1 /\ Head(applyCh) = applyCh[1]
  BY DEF Types
<1>2. /\ Len(applyCh') = n - 1
      /\ \A k \in 1 .. n - 1 : applyCh'[k] = applyCh[k + 1] /\ k + 1 \in 1 .. n
  BY <1>1 DEF Types
<1>3. LabelInv'
  BY <1>2, Zenon DEF LabelInv
<1>4. ASSUME InOrder, NEW k \in 1 .. n PROVE Before(k)' = Before(k + 1)
  <2>1. Before(k + 1) = applyCh[k].index
    BY DEF Before
  <2>2. CASE k = 1
    BY <1>1, <1>4, <2>1, <2>2, Zenon DEF Before
  <2>3. CASE k # 1
    <3>1. k - 1 \in 1 .. n - 1 /\ (k - 1) + 1 = k
      BY <2>3
    <3>2. applyCh'[k - 1] = applyCh[k]
      BY <1>2, <3>1, Zenon
    <3> QED  BY <2>1, <2>3, <3>2, Zenon DEF Before
  <2> QED  BY <2>2, <2>3, Zenon
<1>5. ASSUME InOrder
      PROVE  /\ Len(applied') <= lastApplied'
             /\ \A k \in 1 .. Len(applyCh') : Continues(applyCh'[k], Before(k)')
             /\ OnItsWay'
  <2>1. Len(applied') <= lastApplied'
    BY <1>1, <1>5 DEF LabelInv
  <2>2. ASSUME NEW k \in 1 .. n - 1 PROVE Continues(applyCh'[k], Before(k)')
    <3>1. k \in 1 .. n /\ k + 1 \in 1 .. n
      OBVIOUS
    <3>2. applyCh'[k] = applyCh[k + 1] /\ Before(k)' = Before(k + 1)
      BY <1>2, <1>4, <1>5, <3>1, Zenon
    <3> QED  BY <1>5, <3>1, <3>2, Zenon DEF QueueInv
  <2>3. Before(n)' = Before(n + 1) /\ (Len(applyCh) + 1)' = n
    <3>1. n \in 1 .. n /\ (n - 1) + 1 = n
      BY <1>1
    <3> QED  BY <1>2, <1>4, <1>5, <3>1, Zenon
  <2>4. Before(Len(applyCh) + 1)' = Before(Len(applyCh) + 1)
    BY <2>3, Zenon DEF Before
  <2>5. OnItsWay'
    BY <1>5, <2>4, Zenon DEF QueueInv, OnItsWay
  <2> QED  BY <1>2, <2>1, <2>2, <2>5, Zenon
<1>6. InOrder' => InOrder
  BY Zenon DEF InOrder
<1> QED  BY <1>3, <1>5, <1>6, Zenon DEF QueueInv

\* What applyLoop has at hand, and what it leaves alone.
LEMMA HeadFacts ==
    ASSUME Types, Bounds, WaitInv, ApplyLoop, NEW m, m = Head(applyCh)
    PROVE  /\ applyCh # <<>> /\ applyCh' = Tail(applyCh)
           /\ m \in Message /\ m.index \in Index /\ m.index \in Nat /\ m.index >= 1
           /\ m.index <= lastApplied /\ m.cmds \in Seq(Name)
           /\ InOrder => Continues(m, Len(applied))
           /\ \A h \in Handler : m.snapshot = TRUE /\ Current(h) => m.index < index[h]
           /\ UNCHANGED <<currentTerm, log, commitIndex, lastApplied, sending, overlapped,
                          pc, calls, index, term>>
           /\ UNCHANGED leader
           /\ LeaderInv' /\ OwnIndex' /\ SnapshotInv'
<1>0. Plain
  BY TypesPlain, Zenon
<1>1. /\ applyCh # <<>> /\ applyCh' = Tail(applyCh)
      /\ UNCHANGED <<currentTerm, log, commitIndex, lastApplied, sending, overlapped,
                     pc, calls, index, term>>
  BY Zenon DEF ApplyLoop, sendVars
<1>2. UNCHANGED leader
  BY Zenon DEF ApplyLoop
<1>3. m \in Message /\ m = applyCh[1] /\ 1 \in 1 .. Len(applyCh)
  BY <1>1 DEF Types
<1>4. m.index \in Index /\ m.cmds \in Seq(Name)
  BY <1>3, Zenon DEF Message
<1>5. m.index \in Nat /\ m.index >= 1
  BY <1>0, <1>4, Zenon DEF Plain
<1>6. m.index <= lastApplied
  BY <1>3, Zenon DEF WaitInv, LabelInv
<1>7. InOrder => Continues(m, Len(applied))
  <2>1. Before(1) = Len(applied)
    BY Zenon DEF Before
  <2> QED  BY <1>3, <2>1, Zenon DEF WaitInv, QueueInv
<1>8. \A h \in Handler : m.snapshot = TRUE /\ Current(h) => m.index < index[h]
  BY <1>3, Zenon DEF WaitInv, SnapshotInv
<1>9. LeaderInv' /\ OwnIndex'
  BY <1>1, <1>2, Zenon DEF WaitInv, LeaderInv, OwnIndex, Current
<1>10. SnapshotInv'
  <2> SUFFICES ASSUME NEW k \in 1 .. Len(applyCh'), NEW h \in Handler,
                      applyCh'[k].snapshot, Current(h)
               PROVE  applyCh'[k].index < index[h]
    BY <1>1, Zenon DEF WaitInv, SnapshotInv, Current
  <2>1. k + 1 \in 1 .. Len(applyCh) /\ applyCh'[k] = applyCh[k + 1]
    BY <1>1 DEF Types
  <2> QED  BY <2>1, Zenon DEF WaitInv, SnapshotInv
<1> QED
  BY <1>1, <1>2, <1>3, <1>4, <1>5, <1>6, <1>7, <1>8, <1>9, <1>10, Zenon
\* A snapshot answers writes it covers, and none of this term.
LEMMA ApplySnapshotKeeps ==
    ASSUME Types, Bounds, WaitInv, ApplyLoop, NEW m, m = Head(applyCh), m.snapshot = TRUE
    PROVE  WaitInv'
<1> USE DEF Current
<1>0. Plain
  BY TypesPlain, Zenon
<1>1. /\ applyCh # <<>> /\ applyCh' = Tail(applyCh)
      /\ m.index \in Nat /\ m.index <= lastApplied
      /\ InOrder => Len(m.cmds) = m.index
      /\ \A h \in Handler : Current(h) => m.index < index[h]
      /\ UNCHANGED <<currentTerm, log, commitIndex, lastApplied, sending, overlapped,
                     pc, calls, index, term>>
      /\ LeaderInv' /\ OwnIndex' /\ SnapshotInv'
  BY HeadFacts, Zenon DEF Continues
<1>2. ApplySnapshot(m)
  BY Zenon DEF ApplyLoop
<1>3. /\ applied' = m.cmds
      /\ UNCHANGED <<applyResults, notifyCh, waitsOn>>
      /\ \A j \in Index : applyWaiters'[j] = IF j <= m.index THEN None ELSE applyWaiters[j]
      /\ \A g \in Handler :
             \/ result'[g] = result[g] /\ \A j \in Index : j <= m.index => applyWaiters[j] # g
             \/ /\ result'[g] = Restored
                /\ \E j \in 1 .. m.index : applyWaiters[j] = g
  <2>1. /\ applied' = m.cmds
        /\ UNCHANGED <<applyResults, notifyCh, waitsOn>>
        /\ \A j \in Index : applyWaiters'[j] = IF j <= m.index THEN None ELSE applyWaiters[j]
    BY <1>2, Zenon DEF ApplySnapshot
  <2>2. ASSUME NEW g \in Handler
        PROVE  \/ result'[g] = result[g] /\ \A j \in Index : j <= m.index => applyWaiters[j] # g
               \/ /\ result'[g] = Restored
                  /\ \E j \in 1 .. m.index : applyWaiters[j] = g
    <3>1. result'[g] = IF g \in {applyWaiters[j] : j \in 1 .. m.index} \ {None}
                       THEN Restored ELSE result[g]
      BY <1>2, Zenon DEF ApplySnapshot
    <3>2. g # None
      BY RequestsAssumption, Zenon DEF Name
    <3>3. \A j \in Index : j <= m.index => j \in 1 .. m.index
      BY <1>0, <1>1 DEF Plain
    <3> QED  BY <3>1, <3>2, <3>3, Zenon
  <2> QED  BY <2>1, <2>2, Zenon
<1>4. \A j \in 1 .. m.index : j \in Index
  BY <1>1, RequestsAssumption DEF Types, Bounds, Index
<1>5. \A g \in Handler : result'[g] # result[g] => pc[g] = "waitApply" /\ index[g] <= m.index
  <2> SUFFICES ASSUME NEW g \in Handler, result'[g] # result[g]
               PROVE  pc[g] = "waitApply" /\ index[g] <= m.index
    BY Zenon
  <2>1. PICK j \in 1 .. m.index : applyWaiters[j] = g
    BY <1>3, Zenon
  <2>2. j \in Index /\ g # None /\ j <= m.index
    <3>1. m.index \in Nat
      BY <1>1, Zenon
    <3>2. j <= m.index
      BY <3>1
    <3> QED  BY <1>4, <3>2, RequestsAssumption, Zenon DEF Name
  <2>3. pc[g] = "waitApply" /\ index[g] = j
    BY <2>1, <2>2, Zenon DEF WaitInv, WaitersInv
  <2> QED  BY <2>2, <2>3, Zenon
<1>6. PhaseInv'
  BY <1>1, <1>5, Zenon DEF WaitInv, PhaseInv
<1>7. ChannelInv' /\ WakeInv' /\ WokenInv'
  BY <1>1, <1>3, Zenon DEF WaitInv, ChannelInv, WakeInv, WokenInv, Woken
<1>8. WaitersInv'
  <2> SUFFICES ASSUME NEW j \in Index, applyWaiters'[j] # None
               PROVE  /\ pc[applyWaiters'[j]] = "waitApply" /\ index[applyWaiters'[j]] = j
                      /\ result'[applyWaiters'[j]] = None
    BY <1>1, Zenon DEF WaitersInv
  <2>1. ~ (j <= m.index) /\ applyWaiters'[j] = applyWaiters[j] /\ applyWaiters[j] \in Handler
    BY <1>0, <1>3, Zenon DEF Plain
  <2>2. pc[applyWaiters[j]] = "waitApply" /\ index[applyWaiters[j]] = j
    BY <2>1, Zenon DEF WaitInv, WaitersInv
  <2>3. result[applyWaiters[j]] = None
    BY <2>1, Zenon DEF WaitInv, WaitersInv
  <2>4. result'[applyWaiters[j]] = result[applyWaiters[j]]
    BY <1>5, <2>1, <2>2, Zenon
  <2> QED  BY <2>1, <2>2, <2>3, <2>4, Zenon
<1>9. LabelInv' /\ QueueInv'
  <2>1. InOrder => Len(applied') = Head(applyCh).index
    BY <1>1, <1>3, Zenon
  <2>2. LabelInv /\ QueueInv
    BY Zenon DEF WaitInv
  <2> QED  BY <1>1, <2>1, <2>2, QueueTail, Zenon
<1>10. ResultInv'
  <2> SUFFICES ASSUME InOrder, NEW g \in Handler, Current(g)
               PROVE  /\ ~ (Len(applied') >= index[g]) /\ Len(applied') < index[g]
                      /\ pc[g] = "waitApply" =>
                            result'[g] # None \/ applyWaiters'[index[g]] = g
    BY <1>1, Zenon DEF ResultInv, InOrder
  <2>1. m.index < index[g] /\ Len(applied') = m.index /\ index[g] \in Nat
    BY <1>0, <1>1, <1>3, Zenon DEF Plain
  <2>2. index[g] \in Index
    BY <1>0, Zenon DEF WaitInv, PhaseInv, Plain
  <2>3. ~ (index[g] <= m.index) /\ ~ (Len(applied') >= index[g]) /\ Len(applied') < index[g]
    <3>1. m.index \in Nat
      BY <1>1, Zenon
    <3> QED  BY <2>1, <3>1
  <2>4. result'[g] = result[g]
    BY <1>5, <2>3, Zenon
  <2>5. applyWaiters'[index[g]] = applyWaiters[index[g]]
    BY <1>3, <2>2, <2>3, Zenon
  <2> QED  BY <2>3, <2>4, <2>5, Zenon DEF WaitInv, ResultInv
<1> QED  BY <1>1, <1>6, <1>7, <1>8, <1>9, <1>10, Zenon DEF WaitInv

\* The result of an entry goes to the write that waits for it or is kept; while
\* one of this term has the entry, no other waits there.
LEMMA ApplyEntryKeeps ==
    ASSUME Types, Bounds, WaitInv, ApplyLoop, NEW m, m = Head(applyCh), m.snapshot = FALSE
    PROVE  WaitInv'
<1> USE DEF Current
<1>0. Plain
  BY TypesPlain, Zenon
<1>1. /\ applyCh # <<>> /\ applyCh' = Tail(applyCh)
      /\ m.index \in Index /\ m.index \in Nat /\ m.index <= lastApplied
      /\ m.cmds \in Seq(Name)
      /\ InOrder => Len(m.cmds) = 1 /\ m.index = Len(applied) + 1
      /\ UNCHANGED <<currentTerm, log, commitIndex, lastApplied, sending, overlapped,
                     pc, calls, index, term>>
      /\ LeaderInv' /\ OwnIndex' /\ SnapshotInv'
  BY HeadFacts, Zenon DEF Continues
<1>2. ApplyEntry(m)
  BY Zenon DEF ApplyLoop
<1>3. PICK err : err = ApplyErr(data, Cmd[m.cmds[1]])
  BY Zenon
<1>4. err \in Result /\ err # None
  <2>1. err \in Result
    BY <1>3, ApplyErrResult, Zenon
  <2> QED  BY <2>1, ValuesAssumption, Zenon
<1>5. InOrder => Len(applied') = m.index
  <2>1. applied' = applied \o m.cmds
    BY <1>2, Zenon DEF ApplyEntry
  <2>2. applied \in Seq(Name)
    BY Zenon DEF Types
  <2>3. Len(applied \o m.cmds) = Len(applied) + Len(m.cmds)
    BY <1>1, <2>2, ConcatSeq, Zenon
  <2> QED  BY <1>1, <2>1, <2>3, Zenon
<1>6. PICK w : w = applyWaiters[m.index]
  BY Zenon
<1>7. \/ /\ w # None
         /\ applyWaiters' = [applyWaiters EXCEPT ![m.index] = None]
         /\ result' = [result EXCEPT ![w] = err]
         /\ UNCHANGED applyResults
      \/ /\ w = None
         /\ leader => applyResults' = [applyResults EXCEPT ![m.index] = err]
         /\ ~ leader => UNCHANGED applyResults
         /\ UNCHANGED <<applyWaiters, result>>
  BY <1>2, <1>3, <1>6, Zenon DEF ApplyEntry, Kept
<1>8. /\ \A j \in Index : applyWaiters'[j] = IF j = m.index THEN None ELSE applyWaiters[j]
      /\ \A g \in Handler : result'[g] = IF g = w THEN err ELSE result[g]
  <2>1. \A g \in Handler : g # None
    BY RequestsAssumption, Zenon DEF Name
  <2>2. CASE /\ applyWaiters' = [applyWaiters EXCEPT ![m.index] = None]
             /\ result' = [result EXCEPT ![w] = err]
    BY <2>2, Zenon DEF Types
  <2>3. CASE w = None /\ UNCHANGED <<applyWaiters, result>>
    BY <1>6, <2>1, <2>3, Zenon
  <2> QED  BY <1>7, <2>2, <2>3, Zenon
<1>9. w # None => w \in Handler /\ pc[w] = "waitApply" /\ index[w] = m.index
  BY <1>0, <1>1, <1>6, Zenon DEF Plain, WaitInv, WaitersInv
<1>10. PhaseInv'
  <2>1. \A g \in Handler : g = w => pc[g] = "waitApply"
    BY <1>9, RequestsAssumption, Zenon DEF Name
  <2>2. \A g \in Handler : pc[g] # "waitApply" => result'[g] = result[g]
    BY <1>8, <2>1, Zenon
  <2> QED  BY <1>1, <2>2, Zenon DEF WaitInv, PhaseInv
<1>11. ChannelInv' /\ WakeInv' /\ WokenInv'
  <2>1. CASE UNCHANGED <<notifyCh, waitsOn>>
    BY <1>1, <2>1, Zenon DEF WaitInv, ChannelInv, WakeInv, WokenInv, Woken
  <2>2. CASE Notify(1 .. m.index)
    <3> PICK I : I = 1 .. m.index
      BY Zenon
    <3>1. \A i \in I : i \in Index /\ i <= commitIndex
      BY <1>1, RequestsAssumption DEF Types, Bounds, Index
    <3>2. \A i \in Index : lastApplied < i /\ i \notin I => lastApplied' < i
      BY <1>1, Zenon
    <3>3. lastApplied' \in Nat
      BY <1>0, <1>1, Zenon DEF Plain
    <3> QED  BY <1>1, <2>2, <3>1, <3>2, <3>3, NotifyKeeps, Zenon
  <2> QED  BY <1>2, <2>1, <2>2, Zenon DEF ApplyEntry
<1>12. WaitersInv'
  BY <1>0, <1>1, <1>8, <1>9 DEF Plain, WaitInv, WaitersInv
<1>13. LabelInv' /\ QueueInv'
  <2>1. InOrder => Len(applied') = Head(applyCh).index
    BY <1>5, Zenon
  <2>2. LabelInv /\ QueueInv
    BY Zenon DEF WaitInv
  <2> QED  BY <1>1, <2>1, <2>2, QueueTail, Zenon
<1>14. ResultInv'
  <2> SUFFICES ASSUME InOrder, NEW g \in Handler, Current(g)
               PROVE  /\ /\ pc[g] \in {"submitted", "waitCommit", "committed"}
                         /\ Len(applied') >= index[g]
                         => applyResults'[index[g]] # None
                      /\ pc[g] = "waitApply" =>
                            \/ result'[g] # None
                            \/ applyWaiters'[index[g]] = g /\ Len(applied') < index[g]
    BY <1>1, Zenon DEF ResultInv, InOrder
  <2>1. index[g] \in Index /\ index[g] \in Nat /\ leader
    BY <1>0, Zenon DEF WaitInv, PhaseInv, LeaderInv, Plain
  <2>2. ASSUME pc[g] \in {"submitted", "waitCommit", "committed"},
  Len(applied') >= index[g]
        PROVE  applyResults'[index[g]] # None
    <3>1. CASE index[g] = m.index
      <4>1. w = None
        <5>1. SUFFICES ASSUME w # None PROVE FALSE
          BY Zenon
        <5>2. w # g /\ Woken(w) /\ w \in Handler /\ index[w] = index[g]
          BY <1>9, <2>2, <3>1, <5>1, Zenon DEF Woken
        <5> QED  BY <5>2, Zenon DEF WaitInv, WokenInv
      <4>2. applyResults' = [applyResults EXCEPT ![m.index] = err]
        BY <1>7, <2>1, <4>1, Zenon
      <4>3. applyResults'[m.index] = err
        BY <1>1, <4>2, Zenon DEF Types
      <4> QED  BY <1>4, <3>1, <4>3, Zenon
    <3>2. CASE index[g] # m.index
      <4>1. Len(applied) >= index[g]
        BY <1>0, <1>1, <1>5, <2>1, <2>2, <3>2 DEF Plain
      <4>2. applyResults[index[g]] # None
        BY <2>2, <4>1, Zenon DEF WaitInv, ResultInv
      <4>3. \/ UNCHANGED applyResults
            \/ applyResults' = [applyResults EXCEPT ![m.index] = err]
        BY <1>7, Zenon
      <4>4. applyResults'[index[g]] = applyResults[index[g]]
        BY <2>1, <3>2, <4>3, Zenon DEF Types
      <4> QED  BY <4>2, <4>4, Zenon
    <3> QED  BY <3>1, <3>2, Zenon
  <2>3. ASSUME pc[g] = "waitApply"
        PROVE  \/ result'[g] # None
               \/ applyWaiters'[index[g]] = g /\ Len(applied') < index[g]
    <3>1. CASE result[g] # None \/ g = w
      BY <1>4, <1>8, <3>1, Zenon
    <3>2. CASE result[g] = None /\ g # w
      <4>1. applyWaiters[index[g]] = g /\ Len(applied) < index[g]
        BY <2>3, <3>2, Zenon DEF WaitInv, ResultInv
      <4>2. index[g] # m.index
        BY <1>6, <3>2, <4>1, Zenon
      <4>3. Len(applied') < index[g]
        BY <1>0, <1>1, <1>5, <2>1, <4>1, <4>2 DEF Plain
      <4>4. applyWaiters'[index[g]] = g
        BY <1>8, <2>1, <4>1, <4>2, Zenon
      <4> QED  BY <4>3, <4>4, Zenon
    <3> QED  BY <3>1, <3>2, Zenon
  <2> QED  BY <2>2, <2>3, Zenon
<1> QED  BY <1>1, <1>10, <1>11, <1>12, <1>13, <1>14, Zenon DEF WaitInv
-----------------------------------------------------------------------------
(* The theorems. *)

\* At the start nobody waits.
LEMMA WaitInit == Init => WaitInv
<1> SUFFICES ASSUME Init PROVE WaitInv
  BY Zenon
<1>1. /\ currentTerm = 1 /\ log = <<>> /\ commitIndex = 0 /\ lastApplied = 0
      /\ applyCh = <<>> /\ applied = <<>> /\ sending = {}
      /\ notifyCh = [i \in Index |-> None] /\ applyWaiters = [i \in Index |-> None]
      /\ pc = [h \in Handler \cup Reader |-> "new"]
      /\ index = [h \in Handler |-> 0] /\ term = [h \in Handler |-> 0]
      /\ result = [h \in Handler |-> None]
  BY Zenon DEF Init
<1>2. \A h \in Handler : ~ Current(h) /\ pc[h] = "new"
  BY <1>1 DEF Current
<1>3. LeaderInv /\ OwnIndex /\ WakeInv /\ SnapshotInv /\ ResultInv
  BY <1>2, Zenon DEF LeaderInv, OwnIndex, WakeInv, SnapshotInv, ResultInv
<1>4. PhaseInv
  BY <1>1, <1>2 DEF PhaseInv
<1>5. ChannelInv /\ WokenInv /\ WaitersInv
  BY <1>1, <1>2, Zenon DEF ChannelInv, WokenInv, Woken, WaitersInv
<1>6. LabelInv /\ QueueInv
  BY <1>1 DEF LabelInv, QueueInv, OnItsWay, Before
<1> QED  BY <1>3, <1>4, <1>5, <1>6, Zenon DEF WaitInv

\* Every step keeps the invariant.
LEMMA WaitNext ==
    ASSUME Types, Bounds, WaitInv, [Next]_vars
    PROVE  WaitInv'
<1>0. Plain
  BY TypesPlain, Zenon
<1>1. ASSUME NEW h \in Handler, Submit(h) PROVE WaitInv'
  BY <1>1, SubmitKeeps, Zenon
<1>2. ASSUME NEW h \in Handler, WaitForCommit(h) PROVE WaitInv'
  BY <1>2, WaitForCommitKeeps, Zenon
<1>3. ASSUME NEW h \in Handler, CommitSeen(h) \/ CommitTimeout(h) PROVE WaitInv'
  BY <1>3, CommitEndsKeeps, Zenon
<1>4. ASSUME NEW h \in Handler, WaitForApply(h) PROVE WaitInv'
  BY <1>4, WaitForApplyKeeps, Zenon
<1>5. ASSUME NEW h \in Handler, ApplySeen(h) \/ ApplyTimeout(h) PROVE WaitInv'
  BY <1>5, ApplyEndsKeeps, Zenon
<1>6. ASSUME NEW h \in Handler, NEW here \in BOOLEAN, Redirect(h, here) PROVE WaitInv'
  BY <1>6, RedirectKeeps, RequestsAssumption, Zenon
<1>7. ASSUME NEW r \in Reader, CheckLeader(r) \/ Read(r) PROVE WaitInv'
  <2>1. /\ UNCHANGED <<leader, currentTerm, log, lastApplied, applied, applyCh, sending,
                       overlapped, awaited, calls, index, term, waitsOn, result>>
        /\ UNCHANGED commitIndex
        /\ \E l : Goto(r, l)
    BY <1>7, Zenon DEF CheckLeader, Read, raftVars, applyVars, sendVars, waitVars, awaited
  <2>2. \A h \in Handler : pc'[h] = pc[h]
    BY <2>1, RequestsAssumption, Zenon DEF Goto, Types
  <2>3. commitIndex' \in Nat /\ commitIndex' >= commitIndex
    BY <1>0, <2>1 DEF Plain
  <2> QED  BY <2>1, <2>2, <2>3, FrameKeeps, Zenon
<1>8. ASSUME NEW elected \in BOOLEAN, NewTerm(elected) PROVE WaitInv'
  <2>1. /\ currentTerm' = currentTerm + 1
        /\ UNCHANGED <<awaited, writeVars>>
        /\ UNCHANGED <<commitIndex, lastApplied, applied, applyCh, sending, overlapped>>
    BY <1>8, Zenon DEF NewTerm, applyVars, sendVars, waitVars, handlerVars, awaited, writeVars
  <2>2. /\ currentTerm' \in Nat /\ currentTerm' >= currentTerm
        /\ commitIndex' \in Nat /\ commitIndex' >= commitIndex
        /\ \A h \in Handler : term[h] # currentTerm'
    BY <1>0, <2>1 DEF Plain, WaitInv, PhaseInv
  <2>3. LabelInv' /\ QueueInv'
    BY <2>1, QueueStays, Zenon
  <2> QED  BY <2>1, <2>2, <2>3, DeposedKeeps, Zenon
<1>9. ASSUME NEW n \in 0 .. Len(log), Replace(n) PROVE WaitInv'
  <2>1. /\ UNCHANGED <<awaited, writeVars>>
        /\ UNCHANGED <<currentTerm, commitIndex, lastApplied, applied, applyCh, sending,
                       overlapped>>
    BY <1>9, Zenon DEF Replace, applyVars, sendVars, waitVars, handlerVars, awaited, writeVars
  <2>2. \A h \in Handler : term[h] # currentTerm'
    BY <1>9, <2>1, Zenon DEF Replace, WaitInv, LeaderInv, Current
  <2>3. /\ currentTerm' \in Nat /\ currentTerm' >= currentTerm
        /\ commitIndex' \in Nat /\ commitIndex' >= commitIndex
    BY <1>0, <2>1 DEF Plain
  <2>4. LabelInv' /\ QueueInv'
    BY <2>1, QueueStays, Zenon
  <2> QED  BY <2>1, <2>2, <2>3, <2>4, DeposedKeeps, Zenon
<1>10. ASSUME NEW n \in 0 .. Len(log), NEW k \in 0 .. MaxIndex, NEW cmds \in [1 .. k -> Foreign],
              InstallSnapshot(n, cmds)
       PROVE  WaitInv'
  <2>1. PICK s : s = OtherLog(n, cmds)
    BY Zenon
  <2>2. s \in Seq(Entry)
    <3>1. cmds \in Seq(Name)
      BY DEF Name
    <3> QED  BY <2>1, <3>1, OtherLogType, Zenon DEF Types
  <2>3. /\ Len(s) > commitIndex /\ Len(s) <= MaxIndex
        /\ commitIndex' = Len(s) /\ lastApplied' = Len(s)
        /\ Hold(SnapshotMsg(s))
        /\ UNCHANGED <<currentTerm, applied, applyCh>>
        /\ UNCHANGED <<awaited, writeVars>>
    <3>1. Len(s) \in Nat
      BY <2>2
    <3> QED  BY <1>10, <2>1, <3>1, FitsBound, Zenon
             DEF InstallSnapshot, waitVars, handlerVars, awaited, writeVars
  <2>4. \A h \in Handler : term[h] # currentTerm'
    BY <1>10, <2>3, Zenon DEF InstallSnapshot, WaitInv, LeaderInv, Current
  <2>5. /\ currentTerm' \in Nat /\ currentTerm' >= currentTerm
        /\ commitIndex' \in Nat /\ commitIndex' >= commitIndex
        /\ Len(s) >= 1 /\ Len(s) > lastApplied
    BY <1>0, <2>2, <2>3 DEF Plain
  <2>6. PICK m : m = SnapshotMsg(s)
    BY Zenon
  <2>7. m \in Message /\ m.snapshot = TRUE /\ m.index = Len(s) /\ Len(m.cmds) = m.index
    BY <2>2, <2>3, <2>5, <2>6, MessageTypes, Zenon
  <2>8. /\ Hold(m) /\ UNCHANGED <<applied, applyCh>>
        /\ lastApplied' = m.index /\ m.index > lastApplied /\ Continues(m, lastApplied)
    BY <2>3, <2>5, <2>6, <2>7, Zenon DEF Continues
  <2>9. LabelInv' /\ QueueInv'
    BY <2>7, <2>8, QueueHold, Zenon DEF WaitInv
  <2> QED  BY <2>3, <2>4, <2>5, <2>9, DeposedKeeps, Zenon
<1>11. ASSUME NEW i \in Index, Commit(i) PROVE WaitInv'
  <2>1. /\ UNCHANGED <<leader, currentTerm, log, lastApplied, applied, applyCh, sending,
                       overlapped, awaited, calls, index, term, waitsOn, result>>
        /\ UNCHANGED pc
    BY <1>11, Zenon DEF Commit, applyVars, sendVars, waitVars, handlerVars, awaited
  <2>2. i > commitIndex /\ (commitIndex' = i \/ commitIndex' = min(i, Len(log)))
    BY <1>11, Zenon DEF Commit
  <2>3. commitIndex' \in Nat /\ commitIndex' >= commitIndex
    BY <1>0, <2>2 DEF Plain, min
  <2> QED  BY <2>1, <2>3, FrameKeeps, Zenon
<1>12. CASE ApplyCommitted
  <2>1. CASE lastApplied < commitIndex
    BY <1>12, <2>1, ApplyCommittedKeeps, Zenon
  <2>2. CASE ~ (lastApplied < commitIndex)
    <3>1. /\ UNCHANGED <<leader, currentTerm, log, lastApplied, applied, applyCh, sending,
                         overlapped, awaited, calls, index, term, waitsOn, result>>
          /\ UNCHANGED <<pc, commitIndex>>
      BY <1>12, <2>2, Zenon DEF ApplyCommitted, raftVars, awaited
    <3>2. commitIndex' \in Nat /\ commitIndex' >= commitIndex
      BY <1>0, <3>1 DEF Plain
    <3> QED  BY <3>1, <3>2, FrameKeeps, Zenon
  <2> QED  BY <2>1, <2>2, Zenon
<1>15. ASSUME NEW m \in sending, Send(m) PROVE WaitInv'
  BY <1>15, SendKeeps, Zenon
<1>13. CASE ApplyLoop
  <2> PICK m : m = Head(applyCh)
    BY Zenon
  <2>1. m.snapshot = TRUE \/ m.snapshot = FALSE
    <3>1. m \in Message
      BY <1>13, HeadFacts, Zenon
    <3> QED  BY <3>1, Zenon DEF Message
  <2>2. CASE m.snapshot = TRUE
    BY <1>13, <2>2, ApplySnapshotKeeps, Zenon
  <2>3. CASE m.snapshot = FALSE
    BY <1>13, <2>3, ApplyEntryKeeps, Zenon
  <2> QED  BY <2>1, <2>2, <2>3, Zenon
<1>14. CASE UNCHANGED vars
  <2>1. /\ UNCHANGED <<leader, currentTerm, log, lastApplied, applied, applyCh, sending,
                       overlapped, awaited, calls, index, term, waitsOn, result>>
        /\ UNCHANGED <<pc, commitIndex>>
    BY <1>14, Zenon DEF vars, raftVars, applyVars, sendVars, waitVars, handlerVars, awaited
  <2>2. commitIndex' \in Nat /\ commitIndex' >= commitIndex
    BY <1>0, <2>1 DEF Plain
  <2> QED  BY <2>1, <2>2, FrameKeeps, Zenon
<1> QED
  BY <1>1, <1>2, <1>3, <1>4, <1>5, <1>6, <1>7, <1>8, <1>9, <1>10, <1>11, <1>12, <1>13,
     <1>14, <1>15, Zenon DEF Next

\* The invariant holds throughout.
LEMMA Invariant == Spec => [](Types /\ Bounds /\ WaitInv)
<1>1. Init => Types /\ Bounds /\ WaitInv
  BY TypesInit, WaitInit, Zenon
<1>2. Types /\ Bounds /\ WaitInv /\ [Next]_vars => (Types /\ Bounds /\ WaitInv)'
  BY TypesNext, WaitNext, Zenon
<1> QED  BY <1>1, <1>2, PTL DEF Spec

\* No wakeup is lost between WaitForCommit and applyCommitted, whatever number of
\* writes, terms and entries there is: a write waiting for its commit in its term
\* finds its channel closed once its entry is handed to applyCh.
THEOREM CommitsWake == Spec => []CommitWakes
<1>1. Types /\ Bounds /\ WaitInv => CommitWakes
  <2> SUFFICES ASSUME Types, Bounds, WaitInv, NEW h \in Handler, pc[h] = "waitCommit",
                      currentTerm = term[h], lastApplied >= index[h], waitsOn[h] # Closed
               PROVE  FALSE
    BY Zenon DEF CommitWakes
  <2>1. lastApplied < index[h]
    BY Zenon DEF WaitInv, WakeInv, Current
  <2>2. lastApplied \in Nat /\ index[h] \in Nat
    BY TypesPlain, Zenon DEF Plain
  <2> QED  BY <2>1, <2>2
<1> QED  BY <1>1, Invariant, PTL

\* Nor is a result lost between waitForApply and applyLoop, as long as no two
\* calls of applyCommitted overlap: while the node leads in the write's term, a
\* write waiting has its result once the store has its entry.
THEOREM ResultsWake == Spec => []ResultWakes
<1>1. Types /\ Bounds /\ WaitInv => ResultWakes
  <2> SUFFICES ASSUME Types, Bounds, WaitInv, InOrder, NEW h \in Handler, pc[h] = "waitApply",
                      currentTerm = term[h], Len(applied) >= index[h], result[h] = None
               PROVE  FALSE
    BY Zenon DEF ResultWakes
  <2>1. Len(applied) < index[h]
    BY Zenon DEF WaitInv, ResultInv, Current
  <2>2. Len(applied) \in Nat /\ index[h] \in Nat
    BY TypesPlain, Zenon DEF Plain
  <2> QED  BY <2>1, <2>2
<1> QED  BY <1>1, Invariant, PTL

\* And applyLoop hands no result to a write that is gone: what is registered in
\* applyWaiters waits, for that index.
THEOREM WaitersAreWaiting == Spec => []WaitersWait
<1>1. WaitInv => WaitersWait
  BY Zenon DEF WaitInv, WaitersInv, WaitersWait
<1> QED  BY <1>1, Invariant, PTL
=============================================================================
