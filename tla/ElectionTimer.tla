---------------------------- MODULE ElectionTimer ----------------------------
(***************************************************************************)
(* What starts an election and what holds it off: the goroutine            *)
(* runElectionTimer of a follower, the goroutine runHeartbeatLoop of its   *)
(* leader (src/raft/raft.go), the one-slot channel resetElectionCh between *)
(* the follower's handlers and its timer, and the clock both wait for, the *)
(* FakeClock of the tests (src/raft/fake_clock.go).                        *)
(*                                                                         *)
(* Time is what is left until a timer is due, so no clock grows.  Terms    *)
(* and votes are module Raft's; here a call is accepted or refused.        *)
(***************************************************************************)
EXTENDS Integers

CONSTANTS
    ElectionTimeout,    \* Config.ElectionTimeout
    HeartbeatInterval,  \* Config.HeartbeatInterval
    Steps,              \* by how much Advance moves the clock
    MaxInFlight         \* bound: heartbeats on their way

ASSUME ElectionTimerAssumption ==
    /\ ElectionTimeout \in Nat \ {0} /\ HeartbeatInterval \in Nat \ {0}
    /\ Steps \subseteq Nat \ {0} /\ MaxInFlight \in Nat

VARIABLES
    prompt,             \* does time pass only when every goroutine waits, as
                        \* after the tests' sleeps?
    state,              \* of the follower: "Follower", "Candidate" or "Leader"
    timerPc,            \* runElectionTimer: "arm", "select", "elect", "done"
    left,               \* time until its timer is due; 0: fired
    timerCh,            \* its timer's channel holds a value
    resetCh,            \* resetElectionCh holds a value
    leads,              \* is the leader still leader?
    heartbeatPc,        \* runHeartbeatLoop: "select", "done"
    tick,               \* time until its ticker's next tick
    tickerCh,           \* its ticker's channel holds a value
    heartbeats,         \* AppendEntries calls on their way
    dueTimer, dueTicks, \* what Advance has still to send, its mutex released
    stopped,            \* the nodes whose Stop was called
    sinceArmed,         \* time since the timer was made
    sinceReset,         \* time since a handler last reset it before it was due
    disturbed           \* has a call been lost, or the leader changed or stopped?

clockVars == <<left, timerCh, tick, tickerCh, dueTimer, dueTicks>>
followerVars == <<state, timerPc, resetCh>>
leaderVars == <<leads, heartbeatPc, heartbeats>>
sinceVars == <<sinceArmed, sinceReset>>
vars == <<prompt, clockVars, followerVars, leaderVars, stopped, sinceVars, disturbed>>

max(a, b) == IF a > b THEN a ELSE b
min(a, b) == IF a < b THEN a ELSE b

\* Times beyond this are not told apart.
Long == ElectionTimeout

-----------------------------------------------------------------------------
(* runElectionTimer. *)

randomizedElectionTimeout == ElectionTimeout .. 2 * ElectionTimeout - 1

\* Mutant: one timer is set again and again, its channel not drained.
ArmReused ==
    /\ timerPc = "arm"
    /\ timerPc' = "select"
    /\ left' \in randomizedElectionTimeout
    /\ sinceArmed' = 0
    /\ UNCHANGED <<prompt, state, resetCh, timerCh, tick, tickerCh, dueTimer, dueTicks,
                   leaderVars, stopped, sinceReset, disturbed>>

\* NewTimer, with a channel of its own: what Advance still sends to an earlier
\* timer nobody receives.
Arm ==
    /\ timerPc = "arm"
    /\ timerPc' = "select"
    /\ left' \in randomizedElectionTimeout
    /\ timerCh' = FALSE /\ dueTimer' = FALSE
    /\ sinceArmed' = 0
    /\ UNCHANGED <<prompt, state, resetCh, tick, tickerCh, dueTicks, leaderVars, stopped,
                   sinceReset, disturbed>>

\* The timer's case of the select.
Fire ==
    /\ timerPc = "select" /\ timerCh
    /\ timerCh' = FALSE
    /\ timerPc' = "elect"
    /\ UNCHANGED <<prompt, state, resetCh, left, tick, tickerCh, dueTimer, dueTicks,
                   leaderVars, stopped, sinceVars, disturbed>>

\* startElection, once it holds the mutex: a handler may have come first.
Elect ==
    /\ timerPc = "elect"
    /\ timerPc' = "arm"
    /\ state' = IF state = "Leader" THEN state ELSE "Candidate"
    /\ UNCHANGED <<prompt, resetCh, clockVars, leaderVars, stopped, sinceVars, disturbed>>

\* Mutant: the loop goes on waiting for the timer it has.
ResetIgnored ==
    /\ timerPc = "select" /\ resetCh
    /\ resetCh' = FALSE
    /\ UNCHANGED <<prompt, state, timerPc, clockVars, leaderVars, stopped, sinceVars,
                   disturbed>>

\* The reset's case: the timer is stopped, its channel drained.
Reset ==
    /\ timerPc = "select" /\ resetCh
    /\ resetCh' = FALSE
    /\ timerPc' = "arm"
    /\ timerCh' = FALSE
    /\ UNCHANGED <<prompt, state, left, tick, tickerCh, dueTimer, dueTicks, leaderVars,
                   stopped, sinceVars, disturbed>>

EndTimer ==
    /\ timerPc = "select" /\ "follower" \in stopped
    /\ timerPc' = "done"
    /\ UNCHANGED <<prompt, state, resetCh, clockVars, leaderVars, stopped, sinceVars,
                   disturbed>>

-----------------------------------------------------------------------------
(* The follower's handlers. *)

\* resetElectionTimerLocked: a value that is there already will do.
ResetElectionTimer ==
    /\ resetCh' = TRUE
    /\ sinceReset' = IF timerPc \in {"select", "elect"} /\ left = 0 THEN sinceReset ELSE 0

\* HandleAppendEntries, for a leader that is refused or accepted.  A follower
\* whose leader has not changed accepts it.
HandleHeartbeat(accepted) ==
    /\ heartbeats > 0
    /\ heartbeats' = heartbeats - 1
    /\ state = "Follower" => accepted
    /\ IF accepted
       THEN state' = "Follower" /\ ResetElectionTimer
       ELSE UNCHANGED <<state, resetCh, sinceReset>>
    /\ UNCHANGED <<prompt, timerPc, clockVars, leads, heartbeatPc, stopped, sinceArmed,
                   disturbed>>

\* HandleRequestVote grants the vote to the other node, which leads no longer.
GrantVote ==
    /\ ~ leads /\ "leader" \notin stopped
    /\ state' = "Follower"
    /\ ResetElectionTimer
    /\ UNCHANGED <<prompt, timerPc, clockVars, leaderVars, stopped, sinceArmed, disturbed>>

\* The candidate wins; the leader hears of it now or later.
Win ==
    /\ state = "Candidate"
    /\ state' = "Leader"
    /\ leads' \in {leads, FALSE}
    /\ UNCHANGED <<prompt, timerPc, resetCh, clockVars, heartbeatPc, heartbeats, stopped,
                   sinceVars, disturbed>>

-----------------------------------------------------------------------------
(* runHeartbeatLoop. *)

\* The ticker's case of the select: broadcastAppendEntries.
Broadcast ==
    /\ heartbeatPc = "select" /\ tickerCh
    /\ tickerCh' = FALSE
    /\ leads => heartbeats < MaxInFlight
    /\ heartbeats' = IF leads THEN heartbeats + 1 ELSE heartbeats
    /\ UNCHANGED <<prompt, followerVars, left, timerCh, tick, dueTimer, dueTicks, leads,
                   heartbeatPc, stopped, sinceVars, disturbed>>

\* Mutant: the loop does not look at stopCh.
EndHeartbeatsNever == FALSE /\ UNCHANGED vars
EndHeartbeats ==
    /\ heartbeatPc = "select" /\ "leader" \in stopped
    /\ heartbeatPc' = "done"
    /\ UNCHANGED <<prompt, clockVars, followerVars, leads, heartbeats, stopped, sinceVars,
                   disturbed>>

-----------------------------------------------------------------------------
(* The clock. *)

\* Nothing can run before more time passes.
AtRest ==
    /\ timerPc = "select" => ~ timerCh /\ ~ resetCh
    /\ timerPc \notin {"arm", "elect"}
    /\ heartbeatPc = "select" => ~ tickerCh
    /\ heartbeats = 0

\* Advance, its critical section: a timer fires once, a ticker as often as it
\* is due.  The test calls it when the last call has returned.
Advance(d) ==
    /\ ~ dueTimer /\ dueTicks = 0
    /\ prompt => AtRest
    /\ left' = max(0, left - d)
    /\ dueTimer' = (0 < left /\ left <= d /\ timerPc = "select")
    /\ \E ticks \in 0 .. d :
           /\ tick' = tick + ticks * HeartbeatInterval - d
           /\ 0 < tick' /\ tick' <= HeartbeatInterval
           /\ dueTicks' = IF heartbeatPc = "done" THEN 0 ELSE ticks
    /\ sinceArmed' = min(Long, sinceArmed + d)
    /\ sinceReset' = min(Long, sinceReset + d)
    /\ UNCHANGED <<prompt, followerVars, leaderVars, timerCh, tickerCh, stopped, disturbed>>

\* Mutant: the timer's value is not sent.
SendTimerNever ==
    /\ dueTimer
    /\ dueTimer' = FALSE
    /\ UNCHANGED <<prompt, followerVars, leaderVars, left, timerCh, tick, tickerCh, dueTicks,
                   stopped, sinceVars, disturbed>>

\* Its sends, which drop what the channel has no room for.
SendTimer ==
    /\ dueTimer
    /\ dueTimer' = FALSE
    /\ timerCh' = TRUE
    /\ UNCHANGED <<prompt, followerVars, leaderVars, left, tick, tickerCh, dueTicks, stopped,
                   sinceVars, disturbed>>

SendTick ==
    /\ ~ dueTimer /\ dueTicks > 0
    /\ dueTicks' = dueTicks - 1
    /\ tickerCh' = TRUE
    /\ UNCHANGED <<prompt, followerVars, leaderVars, left, timerCh, tick, dueTimer, stopped,
                   sinceVars, disturbed>>

-----------------------------------------------------------------------------
(* What disturbs the two. *)

Lose ==
    /\ heartbeats > 0
    /\ heartbeats' = heartbeats - 1
    /\ disturbed' = TRUE
    /\ UNCHANGED <<prompt, clockVars, followerVars, leads, heartbeatPc, stopped, sinceVars>>

\* The leader meets a higher term, or wins the election of one.
ChangeLeads ==
    /\ leads \/ "leader" \notin stopped
    /\ leads' = ~ leads
    /\ disturbed' = TRUE
    /\ UNCHANGED <<prompt, clockVars, followerVars, heartbeatPc, heartbeats, stopped,
                   sinceVars>>

Stop(node) ==
    /\ node \notin stopped
    /\ stopped' = stopped \cup {node}
    /\ disturbed' = TRUE
    /\ UNCHANGED <<prompt, clockVars, followerVars, leaderVars, sinceVars>>

Init ==
    /\ prompt \in BOOLEAN
    /\ state = "Follower" /\ timerPc = "arm" /\ left = 0 /\ timerCh = FALSE
    /\ resetCh = FALSE
    /\ leads = TRUE /\ heartbeatPc = "select" /\ tick = HeartbeatInterval
    /\ tickerCh = FALSE /\ heartbeats = 0
    /\ dueTimer = FALSE /\ dueTicks = 0
    /\ stopped = {} /\ disturbed = FALSE
    /\ sinceArmed = 0 /\ sinceReset = 0

Next ==
    \/ Arm
    \/ Fire
    \/ Elect
    \/ Reset
    \/ EndTimer
    \/ \E accepted \in BOOLEAN : HandleHeartbeat(accepted)
    \/ GrantVote
    \/ Win
    \/ Broadcast
    \/ EndHeartbeats
    \/ \E d \in Steps : Advance(d)
    \/ SendTimer
    \/ SendTick
    \/ Lose
    \/ ChangeLeads
    \/ \E node \in {"leader", "follower"} : Stop(node)

\* Goroutines run, the clock goes on, calls are answered.  A select takes a
\* case that is ready again and again in the end, as Go picks one at random.
Fairness ==
    /\ WF_vars(Arm) /\ WF_vars(Fire) /\ WF_vars(Elect) /\ WF_vars(Reset)
    /\ SF_vars(EndTimer)
    /\ WF_vars(Broadcast) /\ WF_vars(EndHeartbeats)
    /\ WF_vars(\E accepted \in BOOLEAN : HandleHeartbeat(accepted))
    /\ WF_vars(\E d \in Steps : Advance(d)) /\ WF_vars(SendTimer) /\ WF_vars(SendTick)

Spec == Init /\ [][Next]_vars /\ Fairness

-----------------------------------------------------------------------------
\* An election never starts before its timer has run for the base timeout,
\* however Advance's sends, stale timers and resets interleave.
FullTimeout == [][Elect => sinceArmed >= ElectionTimeout]_vars

\* While goroutines are prompt, an election starts only after a whole timeout
\* in which no handler reset the timer, unless it was due already: no reset is
\* lost in the one-slot channel.
SilenceBeforeElection ==
    [][Elect /\ prompt => sinceReset >= ElectionTimeout]_vars

\* "expected follower to remain follower" (raft/clock_test.go): undisturbed
\* heartbeats hold off the election, although Advance drops ticks the ticker's
\* channel has no room for.
HeartbeatsHold == prompt /\ ~ disturbed => state = "Follower"

\* "expected follower to start election after heartbeats stop"
\* (raft/clock_test.go).
ElectsAfterStop ==
    "leader" \in stopped ~> state # "Follower" \/ "follower" \in stopped

\* "Stop signals all background goroutines to exit" (raft.go): the two loops that
\* look at stopCh end.  (The goroutine Run starts in applyCommitted does not look
\* at it; it returns when it has caught up.)
LoopsEnd ==
    /\ "follower" \in stopped ~> timerPc = "done"
    /\ "leader" \in stopped ~> heartbeatPc = "done"
=============================================================================
