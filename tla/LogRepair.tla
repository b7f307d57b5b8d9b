------------------------------ MODULE LogRepair ------------------------------
(***************************************************************************)
(* How a new leader brings one follower's log in line with its own: module *)
(* Raft's calls between the two (src/raft/raft.go), from every pair of     *)
(* logs that earlier leaders can have left behind.  nextIndex starts       *)
(* behind the leader's log and is moved by the conflict hints, or a        *)
(* snapshot is installed, until the follower accepts.                      *)
(*                                                                         *)
(* Module Raft never forgets a call, so that it may be delivered again at  *)
(* any time.  Here a call is delivered at most once: it and its reply are  *)
(* in flight, overtake each other and may be lost.                         *)
(***************************************************************************)
EXTENDS Raft

CONSTANTS
    L, F,               \* the leader and the follower
    Term,               \* the leader's term; the logs hold earlier ones
    MaxOldEntries,      \* bound: entries each log holds at first
    MaxInFlight         \* bound: calls and replies in flight

ASSUME LogRepairAssumption ==
    /\ L \in Server /\ F \in Server /\ L # F
    /\ Term \in Nat /\ MaxOldEntries \in Nat /\ MaxInFlight \in Nat

-----------------------------------------------------------------------------
(* The logs earlier leaders can have left. *)

\* The terms of a log's entries, which never decrease along it.
OldLogs ==
    UNION {{s \in [1 .. n -> 1 .. Term - 1] : \A k \in 1 .. n - 1 : s[k] <= s[k + 1]}
           : n \in 0 .. MaxOldEntries}

\* How many entries two logs share.
Agreement(s, t) ==
    LET same == {k \in 1 .. min(Len(s), Len(t)) : \A l \in 1 .. k : s[l] = t[l]}
    IN  Cardinality(same)

\* Entries of one term come from one leader, and with them everything before.
SameOrigin(s, t) ==
    \A p \in 1 .. Len(s), q \in 1 .. Len(t) :
        s[p] = t[q] => min(p, q) <= Agreement(s, t)

\* No leader of a later term lacked an entry that is committed up to c in s.
Committable(c, s, t) ==
    /\ c <= Len(s)
    /\ c > Agreement(s, t) /\ Len(t) > Agreement(s, t) => t[Len(t)] < s[c]

OldEntry(c, t) == [term |-> t, cmd |-> c]

\* The log with terms s of a node whose snapshot ends at offset.
CompactedOld(c, s, offset) ==
    <<Sentinel(IF offset = 0 THEN 0 ELSE s[offset])>>
        \o [k \in 1 .. Len(s) - offset |-> OldEntry(c, s[offset + k])]

\* L has just won its election (BecomeLeader); F may not have heard of the
\* term.  Either node has a snapshot of what it knows to be committed, or none.
RepairInit ==
    \E s, t \in OldLogs, c \in Command :
    \E commitL \in 0 .. Len(s), commitF \in 0 .. Agreement(s, t) :
    \E offsetL \in {0, commitL}, offsetF \in {0, commitF} :
        /\ SameOrigin(s, t) /\ Committable(commitL, s, t)
        /\ SnapshotThreshold <= 0 => offsetL = 0 /\ offsetF = 0
        /\ state = [i \in Server |-> IF i = L THEN Leader ELSE Follower]
        /\ \E old \in {Term - 1, Term} :
               currentTerm = [i \in Server |-> IF i = F THEN old ELSE Term]
        /\ votedFor = [i \in Server |-> IF i = F THEN Nil ELSE L]
        /\ log = [i \in Server |-> IF i = L THEN CompactedOld(c, s, offsetL)
                                   ELSE IF i = F THEN CompactedOld(c, t, offsetF)
                                   ELSE <<Sentinel(0)>>]
        /\ logOffset = [i \in Server |-> IF i = L THEN offsetL
                                         ELSE IF i = F THEN offsetF ELSE 0]
        /\ commitIndex = [i \in Server |-> IF i = L THEN commitL
                                           ELSE IF i = F THEN commitF ELSE 0]
        /\ leaderID = [i \in Server |-> IF i = L THEN L ELSE Nil]
        /\ nextIndex = [i \in Server |-> [j \in Server |-> IF i = L THEN Len(s) + 1 ELSE 0]]
        /\ matchIndex = [i \in Server |-> [j \in Server |->
                             IF i = L /\ j = L THEN Len(s) ELSE 0]]
        /\ votes = [i \in Server |-> IF i = L THEN Server \ {F} ELSE {}]
        /\ disk = [i \in Server |-> Saved(i)]
        /\ diskFull = {} /\ restarts = 0
        /\ voteRequests = {} /\ voteReplies = {}
        /\ appendRequests = {} /\ appendReplies = {}
        /\ installing = {} /\ snapshotRequests = {} /\ snapshotReplies = {}

-----------------------------------------------------------------------------
(* The calls, each delivered at most once: module Raft's handlers, with the  *)
(* call, or the reply, taken off the wire.                                   *)

CallTaken == INSTANCE Raft WITH appendRequests <- {}, snapshotRequests <- {}
ReplyTaken == INSTANCE Raft WITH appendReplies <- {}, snapshotReplies <- {}

calls == <<appendRequests, snapshotRequests>>
replies == <<appendReplies, snapshotReplies>>

RoomInFlight ==
    Cardinality(appendRequests) + Cardinality(snapshotRequests)
        + Cardinality(appendReplies) + Cardinality(snapshotReplies) < MaxInFlight

\* The heartbeat loop's sendAppendEntries, and the goroutine it may start.
Heartbeat == RoomInFlight /\ SendAppendEntries(L, F)
SendSnapshot == RoomInFlight /\ SendInstallSnapshot(L, F)

Deliver ==
    \/ \E m \in appendRequests :
           /\ CallTaken!HandleAppendEntries(m)
           /\ appendRequests' = appendRequests \ {m}
           /\ UNCHANGED snapshotRequests
    \/ \E m \in snapshotRequests :
           /\ CallTaken!HandleInstallSnapshot(m)
           /\ snapshotRequests' = snapshotRequests \ {m}
           /\ UNCHANGED appendRequests

Return ==
    \/ \E r \in appendReplies :
           /\ ReplyTaken!HandleAppendEntriesReply(r)
           /\ appendReplies' = appendReplies \ {r}
           /\ UNCHANGED snapshotReplies
    \/ \E r \in snapshotReplies :
           /\ ReplyTaken!HandleInstallSnapshotReply(r)
           /\ snapshotReplies' = snapshotReplies \ {r}
           /\ UNCHANGED appendReplies

\* The call fails, before or after F has handled it.
Lose ==
    /\ \/ \E m \in appendRequests :
              appendRequests' = appendRequests \ {m} /\ UNCHANGED <<snapshotRequests, replies>>
       \/ \E m \in snapshotRequests :
              snapshotRequests' = snapshotRequests \ {m} /\ UNCHANGED <<appendRequests, replies>>
       \/ \E r \in appendReplies :
              appendReplies' = appendReplies \ {r} /\ UNCHANGED <<snapshotReplies, calls>>
       \/ \E r \in snapshotReplies :
              snapshotReplies' = snapshotReplies \ {r} /\ UNCHANGED <<appendReplies, calls>>
    /\ UNCHANGED <<state, persistentVars, leaderID, leaderVars, votes, disk, faultVars,
                   voteCalls, installing>>

RepairNext ==
    \/ Heartbeat
    \/ SendSnapshot
    \/ Deliver
    \/ Return
    \/ Lose
    \/ \E c \in Command : Start(L, c)
    \/ \E index \in logOffset[L] + 1 .. commitIndex[L] : Snapshot(L, index)

\* The ticker keeps ticking and the goroutines run.  Of the calls made again
\* and again some get through, and so do some of their replies.
RepairFairness ==
    /\ WF_vars(Heartbeat) /\ WF_vars(SendSnapshot)
    /\ SF_vars(Deliver) /\ SF_vars(Return)

RepairSpec == RepairInit /\ [][RepairNext]_vars /\ RepairFairness

-----------------------------------------------------------------------------
\* F holds L's whole log and L knows it.
InLine ==
    /\ matchIndex[L][F] = lastLogIndex(L)
    /\ lastLogIndex(F) >= lastLogIndex(L)
    /\ \A idx \in Retained(L) \cap Retained(F) : EntryAt(L, idx) = EntryAt(F, idx)

\* Whatever logs earlier leaders left, whatever is lost or overtaken: the
\* conflict hints of HandleAppendEntries and the places handleAppendEntriesReply
\* moves nextIndex to never send the two round in circles, and in the end the
\* follower holds the leader's log and the leader knows it.
Repaired == <>[]InLine
=============================================================================
