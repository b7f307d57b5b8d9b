------------------------------ MODULE Requests ------------------------------
(***************************************************************************)
(* How one node serves clients: applyCommandInternal and waitForApply      *)
(* (src/server/server.go), run by one goroutine per write, with Start,     *)
(* WaitForCommit and the notifyCh map (src/raft/raft.go); getValueInternal *)
(* for reads; and the server's applyLoop, which applies entries and        *)
(* snapshots to the store and hands results back through applyWaiters and  *)
(* applyResults.  The clients send a write again to the node they are      *)
(* redirected to.                                                          *)
(*                                                                         *)
(* The rest of the cluster may take leadership away, replace entries that  *)
(* are not committed, commit entries and install snapshots, as module Raft *)
(* allows.  A command is named by the write it came from.                  *)
(***************************************************************************)
EXTENDS Integers, Sequences, FiniteSets, FiniteSetsExt, KVStore

CONSTANTS
    Handler,            \* the writes clients send to this node
    Reader,             \* the reads of the key
    Foreign,            \* the other commands leaders append
    Cmd,                \* the command of each write, and of Foreign
    Key,                \* the key the reads are of
    None,               \* no channel, no result
    Closed,             \* a channel that is closed
    maxRedirects,       \* how often a client sends one write
    MaxIndex,           \* bound: the length of the log
    Settings            \* what is looked at: [writes, reads : the clients there are,
                        \* redirected : the writes whose clients follow redirects,
                        \* threshold : SnapshotThreshold, installs : whether leaders
                        \* send snapshots, calls : bound on the calls at applyCh,
                        \* terms, length : bounds on the term and the log]

Name == Handler \cup Foreign

ASSUME RequestsAssumption ==
    /\ Handler \cap (Foreign \cup Reader) = {} /\ None \notin Name \cup Reader
    /\ DOMAIN Cmd = Name
    /\ maxRedirects \in Nat /\ MaxIndex \in Nat

\* A channel is named by the write that made it, the call, and where.
Channel == Handler \X Nat \X {"Start", "WaitForCommit"}

\* The nil of a snapshot restored, told apart from that of a command.
Restored == "restored"

\* What a write may be told.
Result == {Success, ErrKeyExists, ErrKeyNotFound, ErrUnknownOp, Restored}

ASSUME ValuesAssumption ==
    None # Closed /\ None \notin Channel \cup Result /\ Closed \notin Channel

VARIABLES
    setting,            \* the one of Settings, for good
    leader,             \* r.state == Leader
    currentTerm,
    log,                \* sequence of [term, cmd], compacted entries included
    commitIndex,
    logOffset,          \* also snapshot.LastIncludedIndex
    lastApplied,
    notifyCh,           \* per index: the channel a commit closes
    running,            \* the calls of applyCommitted at the top of the loop
    sending,            \* the messages taken by a call of its own, still to be sent
    overlapped,         \* history: two messages were on their way to applyCh at once
    applyCh,            \* sequence of [snapshot, index, cmds, data]
    data,               \* the store
    applied,            \* history: the commands behind it, in order
    applyWaiters,       \* per index: the write whose channel is registered
    applyResults,       \* per index: the result kept for a write to come
    pc,
    calls,              \* how often its client has sent each write
    index, term,        \* what Start returned to each write
    waitsOn,            \* the channel each write waits on for its commit, or Closed
    result,             \* what its buffered apply channel holds
    answer,             \* the result it returned, and whether still in its term
    found,              \* what each read returned
    floor               \* history: the last index answered when a read began

raftVars == <<setting, leader, currentTerm, log, commitIndex, logOffset>>
sendVars == <<running, sending, overlapped>>
applyVars == <<lastApplied, sendVars, applyCh, data, applied>>
waitVars == <<notifyCh, applyWaiters, applyResults>>
readVars == <<found, floor>>
handlerVars == <<pc, calls, index, term, waitsOn, result, answer, readVars>>
vars == <<raftVars, applyVars, waitVars, handlerVars>>

Index == 1 .. MaxIndex
Fits(n) == n <= MaxIndex /\ n <= setting.length
min(a, b) == IF a < b THEN a ELSE b

Goto(h, label) == pc' = [pc EXCEPT ![h] = label]

-----------------------------------------------------------------------------
(* A write. *)

\* applyCommandInternal up to Start; the leader check before Start is repeated
\* by Start.
Submit(h) ==
    /\ h \in setting.writes
    /\ pc[h] = "new"
    /\ \/ /\ ~ leader
          /\ Goto(h, "notLeader")
          /\ UNCHANGED <<log, index, term, notifyCh>>
       \/ /\ leader
          /\ Fits(Len(log) + 1)
          /\ Goto(h, "submitted")
          /\ log' = Append(log, [term |-> currentTerm, cmd |-> h])
          /\ index' = [index EXCEPT ![h] = Len(log) + 1]
          /\ term' = [term EXCEPT ![h] = currentTerm]
          /\ notifyCh' = [notifyCh EXCEPT ![Len(log) + 1] = <<h, calls[h], "Start">>]
    /\ UNCHANGED <<setting, leader, currentTerm, commitIndex, logOffset, applyVars,
                   applyWaiters, applyResults, calls, waitsOn, result, answer, readVars>>

\* Mutant: WaitForCommit does not look at commitIndex before it waits.
CommittedAlreadyUnchecked(h) == FALSE
CommittedAlready(h) == commitIndex >= index[h]

\* The critical section of WaitForCommit.
WaitForCommit(h) ==
    LET i == index[h]
        lost == currentTerm # term[h] \/ ~ leader
        ch == IF notifyCh[i] = None THEN <<h, calls[h], "WaitForCommit">> ELSE notifyCh[i]
    IN  /\ pc[h] = "submitted"
        /\ \/ /\ lost
              /\ Goto(h, "notLeader")
              /\ UNCHANGED <<notifyCh, waitsOn>>
           \/ /\ ~ lost /\ CommittedAlready(h)
              /\ Goto(h, "committed")
              /\ UNCHANGED <<notifyCh, waitsOn>>
           \/ /\ ~ lost /\ ~ CommittedAlready(h)
              /\ Goto(h, "waitCommit")
              /\ notifyCh' = [notifyCh EXCEPT ![i] = ch]
              /\ waitsOn' = [waitsOn EXCEPT ![h] = ch]
        /\ UNCHANGED <<raftVars, applyVars, applyWaiters, applyResults, calls,
                       index, term, result, answer, readVars>>

CommitSeen(h) ==
    /\ pc[h] = "waitCommit" /\ waitsOn[h] = Closed
    /\ Goto(h, "committed")
    /\ waitsOn' = [waitsOn EXCEPT ![h] = None]
    /\ UNCHANGED <<raftVars, applyVars, waitVars, calls, index, term, result,
                   answer, readVars>>

\* Mutant: a write whose context has expired goes on waiting.
CommitTimeoutIgnored(h) == FALSE /\ UNCHANGED vars

CommitTimeout(h) ==
    /\ pc[h] = "waitCommit"
    /\ Goto(h, "commitTimeout")
    /\ notifyCh' = [notifyCh EXCEPT ![index[h]] = IF @ = waitsOn[h] THEN None ELSE @]
    /\ waitsOn' = [waitsOn EXCEPT ![h] = None]
    /\ UNCHANGED <<raftVars, applyVars, applyWaiters, applyResults, calls, index,
                   term, result, answer, readVars>>

Answer(h, err) == [err |-> err, inTerm |-> currentTerm = term[h]]

\* Mutant: the write is answered as soon as it is committed.
WaitForApplySkipped(h) ==
    /\ pc[h] = "committed"
    /\ Goto(h, "answered")
    /\ answer' = [answer EXCEPT ![h] = Answer(h, Success)]
    /\ UNCHANGED <<raftVars, applyVars, waitVars, calls, index, term, waitsOn, result,
                   readVars>>

\* The critical section of waitForApply.
WaitForApply(h) ==
    LET i == index[h]
    IN  /\ pc[h] = "committed"
        /\ \/ /\ applyResults[i] # None
              /\ Goto(h, "answered")
              /\ answer' = [answer EXCEPT ![h] = Answer(h, applyResults[i])]
              /\ applyResults' = [applyResults EXCEPT ![i] = None]
              /\ UNCHANGED applyWaiters
           \/ /\ applyResults[i] = None
              /\ Goto(h, "waitApply")
              /\ applyWaiters' = [applyWaiters EXCEPT ![i] = h]
              /\ UNCHANGED <<answer, applyResults>>
        /\ UNCHANGED <<raftVars, applyVars, notifyCh, calls, index, term, waitsOn,
                       result, readVars>>

ApplySeen(h) ==
    /\ pc[h] = "waitApply" /\ result[h] # None
    /\ Goto(h, "answered")
    /\ answer' = [answer EXCEPT ![h] = Answer(h, result[h])]
    /\ result' = [result EXCEPT ![h] = None]
    /\ UNCHANGED <<raftVars, applyVars, waitVars, calls, index, term, waitsOn,
                   readVars>>

\* Mutant: the channel of a write that gave up stays registered.
WithdrawnNever(h) == applyWaiters
Withdrawn(h) == [applyWaiters EXCEPT ![index[h]] = IF @ = h THEN None ELSE @]

ApplyTimeout(h) ==
    /\ pc[h] = "waitApply"
    /\ Goto(h, "applyTimeout")
    /\ applyWaiters' = Withdrawn(h)
    /\ result' = [result EXCEPT ![h] = None]
    /\ UNCHANGED <<raftVars, applyVars, notifyCh, applyResults, calls, index,
                   term, waitsOn, answer, readVars>>

\* doMutate and doRequest: a client that is told of another leader sends the
\* write again, to a node that may redirect it back here.
Redirect(h, here) ==
    /\ h \in setting.redirected
    /\ pc[h] = "notLeader"
    /\ calls[h] < maxRedirects
    /\ calls' = [calls EXCEPT ![h] = @ + 1]
    /\ Goto(h, IF here THEN "new" ELSE "elsewhere")
    /\ index' = [index EXCEPT ![h] = 0] /\ term' = [term EXCEPT ![h] = 0]
    /\ UNCHANGED <<raftVars, applyVars, waitVars, waitsOn, result, answer, readVars>>

-----------------------------------------------------------------------------
(* A read: getValueInternal checks that the node leads, then reads the store. *)

Answered == {h \in Handler : pc[h] = "answered"}

CheckLeader(r) ==
    /\ r \in setting.reads
    /\ pc[r] = "new"
    /\ \/ /\ leader
          /\ Goto(r, "reading")
          /\ floor' = [floor EXCEPT ![r] = Max({0} \cup {index[h] : h \in Answered})]
       \/ /\ ~ leader
          /\ Goto(r, "notLeader")
          /\ UNCHANGED floor
    /\ UNCHANGED <<raftVars, applyVars, waitVars, calls, index, term, waitsOn, result,
                   answer, found>>

Read(r) ==
    /\ pc[r] = "reading"
    /\ Goto(r, "read")
    /\ found' = [found EXCEPT ![r] = Get(data, Key)]
    /\ floor' = [floor EXCEPT ![r] = 0]
    /\ UNCHANGED <<raftVars, applyVars, waitVars, calls, index, term, waitsOn, result,
                   answer>>

-----------------------------------------------------------------------------
(* The node. *)

\* A higher term is met, or the node wins the election of a new one.
NewTerm(elected) ==
    /\ currentTerm < setting.terms
    /\ currentTerm' = currentTerm + 1
    /\ leader' = elected
    /\ elected => ~ leader
    /\ UNCHANGED <<setting, log, commitIndex, logOffset, applyVars, waitVars, handlerVars>>

\* The commands another leader may append behind the entries s: not more of a
\* client's than it has sent.
Copies(s, h) == Cardinality({i \in DOMAIN s : s[i].cmd = h})
Elsewhere(s) == Foreign \cup {h \in Handler : calls[h] > 1 /\ Copies(s, h) < calls[h]}

\* A log of another leader that agrees with this one on the first n entries.
OtherLog(n, cmds) ==
    SubSeq(log, 1, n) \o [i \in DOMAIN cmds |-> [term |-> currentTerm, cmd |-> cmds[i]]]

\* HandleAppendEntries: another leader's entry behind the first n, in place of
\* a conflicting one and what follows it, or at the end; committed entries are
\* never replaced (module Raft).
Replace(n) ==
    /\ ~ leader
    /\ commitIndex <= n /\ Fits(n + 1)
    /\ n < Len(log) => log[n + 1].term # currentTerm
    /\ \E cmd \in Elsewhere(SubSeq(log, 1, n)) : log' = OtherLog(n, <<cmd>>)
    /\ UNCHANGED <<setting, leader, currentTerm, commitIndex, logOffset, applyVars, waitVars,
                   handlerVars>>

Commands(names) == [i \in DOMAIN names |-> Cmd[names[i]]]
EntryMsg(i) == [snapshot |-> FALSE, index |-> i, cmds |-> <<log[i].cmd>>, data |-> NewStore]
SnapshotMsg(s) ==
    LET cmds == [i \in DOMAIN s |-> s[i].cmd]
    IN  [snapshot |-> TRUE, index |-> Len(s), cmds |-> cmds, data |-> Replay(Commands(cmds))]

\* A call that holds the mutex takes a message, to send once it has let go of it.
Hold(m) ==
    /\ sending' = sending \cup {m}
    /\ overlapped' = (overlapped \/ sending # {})

Calls == running + Cardinality(sending)

\* HandleInstallSnapshot up to its send: the snapshot of another leader, whose
\* first entries are this node's first n, takes the place of the log.  (One that
\* ends before commitIndex is module ApplyPath's.)
InstallSnapshot(n, cmds) ==
    LET s == OtherLog(n, cmds)
    IN  /\ ~ leader /\ setting.installs
        /\ Calls < setting.calls
        /\ commitIndex <= n
        /\ Len(s) > commitIndex /\ Fits(Len(s))
        /\ cmds # <<>> /\ n < Len(log) => log[n + 1].term # currentTerm
        /\ log' = s
        /\ logOffset' = Len(s) /\ commitIndex' = Len(s) /\ lastApplied' = Len(s)
        /\ Hold(SnapshotMsg(s))
        /\ UNCHANGED <<setting, leader, currentTerm, running, applyCh, data, applied, waitVars,
                       handlerVars>>

\* advanceCommitIndex on a leader, HandleAppendEntries on a follower that learns
\* that the leader has committed up to i; both call applyCommitted.
Commit(i) ==
    /\ Calls < setting.calls
    /\ i > commitIndex
    /\ \/ /\ leader
          /\ i <= Len(log) /\ log[i].term = currentTerm
          /\ commitIndex' = i
       \/ /\ ~ leader
          /\ commitIndex' = min(i, Len(log))
    /\ running' = running + 1
    /\ UNCHANGED <<setting, leader, currentTerm, log, logOffset, lastApplied, sending,
                   overlapped, applyCh, data, applied, waitVars, handlerVars>>

\* Closes the channels of the indexes I and takes them out of notifyCh.
Notify(I) ==
    /\ notifyCh' = [i \in Index |-> IF i \in I THEN None ELSE notifyCh[i]]
    /\ waitsOn' = [h \in Handler |->
                      IF waitsOn[h] \in {notifyCh[i] : i \in I} \ {None} THEN Closed
                      ELSE waitsOn[h]]

\* applyCommitted's critical section, for one of the calls at the top of the
\* loop: it takes the next entry, or returns.  (The close that follows the
\* unlock is in it: a channel out of the map that is closed later only lets its
\* write wait longer.)
ApplyCommitted ==
    LET i == lastApplied + 1
    IN  /\ running > 0
        /\ running' = running - 1
        /\ \/ /\ lastApplied < commitIndex
              /\ lastApplied' = i
              /\ Notify({i})
              /\ Hold(EntryMsg(i))
           \/ /\ lastApplied >= commitIndex
              /\ UNCHANGED <<lastApplied, notifyCh, waitsOn, sending, overlapped>>
        /\ UNCHANGED <<raftVars, applyCh, data, applied, applyWaiters, applyResults, pc, calls,
                       index, term, result, answer, readVars>>

\* The send, outside the mutex.  Its Index is lastApplied read again: any value
\* from the entry's own up to it (those a snapshot skipped included).
Send(m) ==
    /\ m \in sending
    /\ sending' = sending \ {m}
    /\ \/ /\ m.snapshot
          /\ applyCh' = Append(applyCh, m)
          /\ UNCHANGED running
       \/ /\ ~ m.snapshot
          /\ \E i \in m.index .. lastApplied :
                 applyCh' = Append(applyCh, [m EXCEPT !.index = i])
          /\ running' = running + 1
    /\ UNCHANGED <<raftVars, lastApplied, overlapped, data, applied, waitVars, handlerVars>>

\* Mutants: a result nobody waits for yet is dropped, or kept for the last index
\* handed to applyCh.
KeptForLast(m, err) ==
    IF leader THEN [applyResults EXCEPT ![lastApplied] = err] ELSE applyResults
KeptNever(m, err) == applyResults
Kept(m, err) == IF leader THEN [applyResults EXCEPT ![m.index] = err] ELSE applyResults

\* applyLoop's turn for an entry, with the maybeSnapshot at its end; Snapshot
\* closes the channels of what it compacts.
ApplyEntry(m) ==
    LET cmd == Cmd[m.cmds[1]]
        err == ApplyErr(data, cmd)
        h == applyWaiters[m.index]
    IN  /\ data' = Apply(data, cmd)
        /\ applied' = applied \o m.cmds
        /\ IF h # None
           THEN /\ applyWaiters' = [applyWaiters EXCEPT ![m.index] = None]
                /\ result' = [result EXCEPT ![h] = err]
                /\ UNCHANGED applyResults
           ELSE /\ applyResults' = Kept(m, err)
                /\ UNCHANGED <<applyWaiters, result>>
        /\ IF setting.threshold > 0 /\ m.index - logOffset >= setting.threshold
           THEN logOffset' = m.index /\ Notify(1 .. m.index)
           ELSE UNCHANGED <<logOffset, notifyCh, waitsOn>>

\* Mutant: the snapshot is laid over what the store holds.
RestoreSnapshotMerging(d) ==
    [k \in DOMAIN data \cup DOMAIN d |-> IF k \in DOMAIN d THEN d[k] ELSE data[k]]
RestoreSnapshot(d) == d

\* applySnapshot, which answers every write registered up to its index.
ApplySnapshot(m) ==
    LET woken == {applyWaiters[i] : i \in 1 .. m.index} \ {None}
    IN  /\ data' = RestoreSnapshot(m.data)
        /\ applied' = m.cmds
        /\ applyWaiters' = [i \in Index |-> IF i <= m.index THEN None ELSE applyWaiters[i]]
        /\ result' = [h \in Handler |-> IF h \in woken THEN Restored ELSE result[h]]
        /\ UNCHANGED <<applyResults, logOffset, notifyCh, waitsOn>>

\* One turn of applyLoop.
ApplyLoop ==
    LET m == Head(applyCh)
    IN  /\ applyCh # <<>>
        /\ applyCh' = Tail(applyCh)
        /\ IF m.snapshot THEN ApplySnapshot(m) ELSE ApplyEntry(m)
        /\ UNCHANGED <<setting, leader, currentTerm, log, commitIndex, lastApplied, sendVars,
                       pc, calls, index, term, answer, readVars>>

-----------------------------------------------------------------------------
Init ==
    /\ setting \in Settings
    /\ leader = TRUE /\ currentTerm = 1 /\ log = <<>>
    /\ commitIndex = 0 /\ logOffset = 0 /\ lastApplied = 0
    /\ notifyCh = [i \in Index |-> None]
    /\ running = 0 /\ sending = {} /\ overlapped = FALSE
    /\ applyCh = <<>> /\ data = NewStore /\ applied = <<>>
    /\ applyWaiters = [i \in Index |-> None] /\ applyResults = [i \in Index |-> None]
    /\ pc = [h \in Handler \cup Reader |-> "new"]
    /\ calls = [h \in Handler |-> 1]
    /\ index = [h \in Handler |-> 0] /\ term = [h \in Handler |-> 0]
    /\ waitsOn = [h \in Handler |-> None] /\ result = [h \in Handler |-> None]
    /\ answer = [h \in Handler |-> None]
    /\ found = [r \in Reader |-> None] /\ floor = [r \in Reader |-> 0]

Next ==
    \/ \E h \in Handler : Submit(h)
    \/ \E h \in Handler : WaitForCommit(h)
    \/ \E h \in Handler : CommitSeen(h)
    \/ \E h \in Handler : CommitTimeout(h)
    \/ \E h \in Handler : WaitForApply(h)
    \/ \E h \in Handler : ApplySeen(h)
    \/ \E h \in Handler : ApplyTimeout(h)
    \/ \E h \in Handler, here \in BOOLEAN : Redirect(h, here)
    \/ \E r \in Reader : CheckLeader(r)
    \/ \E r \in Reader : Read(r)
    \/ \E elected \in BOOLEAN : NewTerm(elected)
    \/ \E n \in 0 .. Len(log) : Replace(n)
    \/ \E n \in 0 .. Len(log), cmds \in UNION {[1 .. k -> Foreign] : k \in 0 .. MaxIndex} :
           InstallSnapshot(n, cmds)
    \/ \E i \in Index : Commit(i)
    \/ ApplyCommitted
    \/ \E m \in sending : Send(m)
    \/ ApplyLoop

\* Goroutines that can run do run, and a context expires in the end; nothing
\* makes the cluster commit, or a client send.
Fairness ==
    /\ \A h \in Handler :
           /\ WF_vars(WaitForCommit(h)) /\ WF_vars(CommitTimeout(h))
           /\ WF_vars(WaitForApply(h)) /\ WF_vars(ApplyTimeout(h))

Spec == Init /\ [][Next]_vars /\ Fairness

-----------------------------------------------------------------------------
Returned == {"notLeader", "commitTimeout", "applyTimeout", "answered"}

\* What the first i - 1 entries leave the i-th to return.
ErrAt(i) == ApplyErr(Replay(Commands(SubSeq(applied, 1, i - 1))), Cmd[applied[i]])

\* What a write returned.
Err(h) == IF answer[h].err = Restored THEN Success ELSE answer[h].err

\* What the endpoints make of it (applyCommand and writeApplyError, or Set,
\* Insert and Delete over RPC; a timeout while waiting for the store is an error
\* of the store to both).
Status(h) ==
    CASE pc[h] = "commitTimeout" -> "commit timeout"
      [] pc[h] = "applyTimeout" -> "apply error"
      [] pc[h] = "answered" ->
             IF Err(h) = Success THEN "ok" ELSE Err(h)
      [] OTHER -> "not leader"

\* applyCh has had the entries in order, each under its own index: no two calls
\* of applyCommitted or HandleInstallSnapshot have held a message at once.  (What
\* becomes of the apply path if they do is module ApplyPath's.)
InOrder == ~ overlapped

\* "Entry is committed, then applied to the KV store.  Handler returns success
\* (or conflict for insert/delete)" (docs/DEVELOPER_GUIDE.md): what a write
\* returns is the result of its own command.
Own(h) == index[h] <= Len(applied) /\ applied[index[h]] = h /\ Err(h) = ErrAt(index[h])
OwnResult ==
    \A h \in Handler : pc[h] = "answered" => Own(h)

\* It is, if the node is still in the term in which it took the write when it
\* answers, and no two calls of applyCommitted overlapped before, also where the
\* write was sent before and is in the log twice.
OwnResultInTerm ==
    InOrder => \A h \in Handler : pc[h] = "answered" /\ answer[h].inTerm => Own(h)

\* As long as no two calls of applyCommitted overlap, what a write returns is in
\* any term the result of the command committed at its index, or the success of
\* restoring a snapshot that covers it, and the store has it before the answer
\* leaves.
AnswerIsApplied ==
    InOrder => \A h \in Handler : pc[h] = "answered" =>
        index[h] <= Len(applied) /\ answer[h].err \in {ErrAt(index[h]), Restored}

\* "insert only (409 if key exists)" (README.md): of two inserts of a key that
\* both succeed in their terms, the later found the key deleted in between,
\* whatever clients sent twice (as long as no two calls of applyCommitted overlap).
InsertExclusive ==
    InOrder => \A g, h \in Handler :
        /\ Status(g) = "ok" /\ answer[g].inTerm /\ Cmd[g].op = "insert"
        /\ Status(h) = "ok" /\ answer[h].inTerm /\ Cmd[h].op = "insert"
        /\ Cmd[g].key = Cmd[h].key /\ index[g] < index[h]
        => \E i \in index[g] + 1 .. index[h] - 1 :
               Cmd[applied[i]].op = "delete" /\ Cmd[applied[i]].key = Cmd[h].key

\* As long as no two calls of applyCommitted overlap, a read finds what some
\* committed prefix leaves, and one no shorter than any write answered here
\* before the read began, also if the node loses its leadership between
\* getValueInternal's check and the look into the store.
ReadsSeeAnswered ==
    [][InOrder => \A r \in Reader : found'[r] # found[r] =>
           \E n \in floor[r] .. Len(applied) :
               found'[r] = Get(Replay(Commands(SubSeq(applied, 1, n))), Key)]_vars

\* As long as no two calls of applyCommitted overlap, the store is what the
\* committed entries of the node's own log leave, up to the last one applyLoop
\* has handled, whoever appended them and whichever a snapshot brought.
StoreFollowsLog ==
    LET n == Len(applied)
    IN  InOrder =>
            /\ n <= commitIndex
            /\ data = Replay(Commands([i \in 1 .. n |-> log[i].cmd]))

\* No lost wakeup: a write still waiting for its commit in the term it was
\* taken in is woken once its entry is applied, whichever of WaitForCommit and
\* applyCommitted gets the mutex first.
CommitWakes ==
    \A h \in Handler :
        pc[h] = "waitCommit" /\ currentTerm = term[h] /\ lastApplied >= index[h]
        => waitsOn[h] = Closed

\* Nor is a result lost as long as no two calls of applyCommitted overlap: while
\* the node leads in the term it took the write, a write waiting for its result
\* gets it once applyLoop has applied it, whichever of waitForApply and applyLoop
\* gets applyMu first.
ResultWakes ==
    InOrder => \A h \in Handler :
        pc[h] = "waitApply" /\ currentTerm = term[h] /\ leader /\ Len(applied) >= index[h]
        => result[h] # None

\* A channel in applyWaiters belongs to a write that is still waiting for
\* that index, so applyLoop never hands a result to one that is gone.
WaitersWait ==
    \A i \in Index : LET h == applyWaiters[i] IN
        h # None => pc[h] = "waitApply" /\ index[h] = i

\* Every write returns, whatever happens to the node's leadership.
RequestsReturn ==
    \A h \in Handler : pc[h] = "submitted" ~> pc[h] \in Returned
=============================================================================
