------------------------- MODULE ElectionTimerProofs -------------------------
(***************************************************************************)
(* The timing of module ElectionTimer for every timeout, interval and      *)
(* clock step: no election before its timeout, none within a timeout of a  *)
(* reset, and none at all while heartbeats arrive, provided a heartbeat    *)
(* interval and one step of the clock fit into the timeout.                *)
(***************************************************************************)
EXTENDS ElectionTimer, TLAPS

\* The steps of the clock are fine enough to see a heartbeat in time.
HeartbeatInTime == \A d \in Steps : HeartbeatInterval + d <= ElectionTimeout

-----------------------------------------------------------------------------
(* The inductive invariants. *)

Types ==
    /\ left \in Nat /\ tick \in 1 .. HeartbeatInterval /\ dueTicks \in Nat
    /\ heartbeats \in Nat
    /\ sinceArmed \in Nat /\ sinceReset \in Nat

\* The loop waits for its timer, or has received from it.
Waiting == timerPc \in {"select", "elect"}

\* The timer's value, wherever it is on its way.
Fired == (timerPc = "select" /\ (timerCh \/ dueTimer)) \/ timerPc = "elect"

\* What has passed and what is left make up the timeout.
TimerInv ==
    /\ Waiting => sinceArmed + left >= ElectionTimeout
    /\ Fired => left = 0

\* A reset since the timer was made is still in the channel, and none of those
\* that came before the timer was due is younger than a timeout when it is.
ResetInv ==
    prompt /\ Waiting =>
        IF left = 0 THEN sinceReset >= ElectionTimeout
                    ELSE resetCh \/ sinceReset >= sinceArmed

\* A heartbeat is on its way to the timer, or the next one is due before it.
HeartbeatComing ==
    \/ dueTicks > 0 \/ tickerCh \/ heartbeats > 0 \/ resetCh
    \/ left >= ElectionTimeout - HeartbeatInterval + tick

HeartbeatInv ==
    prompt /\ ~ disturbed =>
        /\ state = "Follower" /\ leads /\ stopped = {} /\ heartbeatPc = "select"
        /\ timerPc \in {"arm", "select"}
        /\ timerPc = "select" => left > 0 /\ HeartbeatComing

-----------------------------------------------------------------------------
(* Types. *)

\* The clock's numbers stay numbers.
LEMMA TypesNext ==
    ASSUME Types, [Next]_vars
    PROVE  Types'
<1> USE ElectionTimerAssumption DEF Types
<1>1. CASE Arm
  BY <1>1 DEF Arm, randomizedElectionTimeout, leaderVars
<1>2. ASSUME NEW d \in Steps, Advance(d) PROVE Types'
  <2>1. d \in Nat
    OBVIOUS
  <2>2. left' \in Nat /\ sinceArmed' \in Nat /\ sinceReset' \in Nat
    BY <1>2, <2>1 DEF Advance, max, min, Long
  <2>3. tick' \in 1 .. HeartbeatInterval /\ dueTicks' \in Nat
    <3>1. PICK ticks \in 0 .. d :
              /\ tick' = tick + ticks * HeartbeatInterval - d
              /\ 0 < tick' /\ tick' <= HeartbeatInterval
              /\ dueTicks' = IF heartbeatPc = "done" THEN 0 ELSE ticks
      BY <1>2 DEF Advance
    <3>2. ticks * HeartbeatInterval \in Nat
      BY <2>1
    <3> QED  BY <2>1, <3>1, <3>2
  <2>4. UNCHANGED heartbeats
    BY <1>2 DEF Advance, leaderVars
  <2> QED  BY <2>2, <2>3, <2>4
<1>3. ASSUME NEW accepted \in BOOLEAN, HandleHeartbeat(accepted) PROVE Types'
  BY <1>3 DEF HandleHeartbeat, ResetElectionTimer, clockVars
<1>4. CASE GrantVote
  BY <1>4 DEF GrantVote, ResetElectionTimer, clockVars, leaderVars
<1>5. CASE Broadcast
  BY <1>5 DEF Broadcast, sinceVars
<1>6. CASE SendTimer \/ SendTick
  BY <1>6 DEF SendTimer, SendTick, leaderVars, sinceVars
<1>7. CASE Lose
  BY <1>7 DEF Lose, clockVars, sinceVars
<1>8. CASE Fire \/ Reset
  BY <1>8 DEF Fire, Reset, leaderVars, sinceVars
<1>9. CASE Elect \/ EndTimer \/ Win \/ EndHeartbeats \/ ChangeLeads
           \/ \E node \in {"leader", "follower"} : Stop(node)
  BY <1>9
  DEF Elect, EndTimer, Win, EndHeartbeats, ChangeLeads, Stop, clockVars, leaderVars, sinceVars
<1>10. CASE UNCHANGED vars
  BY <1>10 DEF vars, clockVars, leaderVars, sinceVars
<1> QED  BY <1>1, <1>2, <1>3, <1>4, <1>5, <1>6, <1>7, <1>8, <1>9, <1>10 DEF Next

-----------------------------------------------------------------------------
(* The follower's timer. *)

\* A step of the clock takes from what is left what it adds to what has passed.
LEMMA TimerAdvance ==
    ASSUME Types, TimerInv, ResetInv, NEW d \in Steps, Advance(d)
    PROVE  TimerInv' /\ ResetInv'
<1> USE ElectionTimerAssumption DEF Types
<1>1. /\ d \in Nat \ {0}
      /\ UNCHANGED <<prompt, timerPc, timerCh, resetCh>>
      /\ left' = IF left > d THEN left - d ELSE 0
      /\ sinceArmed' = IF sinceArmed + d < ElectionTimeout THEN sinceArmed + d ELSE ElectionTimeout
      /\ sinceReset' = IF sinceReset + d < ElectionTimeout THEN sinceReset + d ELSE ElectionTimeout
  BY DEF Advance, followerVars, max, min, Long
<1>2. dueTimer' => left <= d
  BY DEF Advance
<1>3. TimerInv'
  BY <1>1, <1>2 DEF TimerInv, Waiting, Fired
<1>4. ResetInv'
  <2> SUFFICES ASSUME prompt, Waiting
               PROVE  IF left' = 0 THEN sinceReset' >= ElectionTimeout
                                   ELSE sinceReset' >= sinceArmed'
    BY <1>1 DEF ResetInv, Waiting
  <2>1. ~ resetCh
    BY DEF Advance, AtRest, Waiting
  <2> QED  BY <1>1, <2>1 DEF TimerInv, ResetInv, Waiting
<1> QED  BY <1>3, <1>4

\* A handler's reset is in the channel, or comes after the timer was due.
LEMMA TimerReset ==
    ASSUME Types, TimerInv, ResetInv, ResetElectionTimer,
           UNCHANGED <<prompt, timerPc, clockVars, sinceArmed>>
    PROVE  TimerInv' /\ ResetInv'
<1>1. UNCHANGED <<prompt, timerPc, left, timerCh, dueTimer, sinceArmed>>
  BY DEF clockVars
<1>2. TimerInv'
  BY <1>1 DEF TimerInv, Waiting, Fired
<1>3. ResetInv'
  BY <1>1 DEF ResetInv, Waiting, ResetElectionTimer
<1> QED  BY <1>2, <1>3

\* Every step keeps what has passed and what is left in balance.
LEMMA TimerNext ==
    ASSUME Types, TimerInv, ResetInv, [Next]_vars
    PROVE  TimerInv' /\ ResetInv'
<1> DEFINE Idle == UNCHANGED <<prompt, timerPc, left, resetCh, sinceVars>>
<1>1. ASSUME Idle, UNCHANGED <<timerCh, dueTimer>> PROVE TimerInv' /\ ResetInv'
  BY <1>1 DEF TimerInv, ResetInv, Waiting, Fired, sinceVars
<1>2. CASE Arm
  <2>1. left' \in Nat /\ left' >= ElectionTimeout /\ left' # 0
    BY <1>2, ElectionTimerAssumption DEF Arm, randomizedElectionTimeout
  <2>2. timerPc' = "select" /\ ~ timerCh' /\ ~ dueTimer'
    BY <1>2 DEF Arm
  <2>3. sinceArmed' = 0
    BY <1>2 DEF Arm
  <2>4. ~ Fired'
    BY <2>2 DEF Fired
  <2>5. TimerInv'
    <3>1. ElectionTimeout \in Nat
      BY ElectionTimerAssumption
    <3>2. \A a, b \in Nat : a = 0 /\ b >= ElectionTimeout => a + b >= ElectionTimeout
      BY <3>1
    <3>3. sinceArmed' + left' >= ElectionTimeout
      BY <2>1, <2>3, <3>2
    <3> QED  BY <2>4, <3>3 DEF TimerInv
  <2>6. ResetInv'
    BY <1>2, <2>1, <2>3 DEF Arm, Types, ResetInv
  <2> QED  BY <2>5, <2>6
<1>3. CASE Fire
  BY <1>3 DEF Fire, TimerInv, ResetInv, Waiting, Fired, sinceVars
<1>4. CASE Elect \/ Reset
  <2>1. timerPc' = "arm"
    BY <1>4 DEF Elect, Reset
  <2> QED  BY <2>1 DEF TimerInv, ResetInv, Waiting, Fired
<1>5. CASE EndTimer
  BY <1>5 DEF EndTimer, TimerInv, ResetInv, Waiting, Fired
<1>6. ASSUME NEW accepted \in BOOLEAN, HandleHeartbeat(accepted) PROVE TimerInv' /\ ResetInv'
  <2>1. UNCHANGED <<prompt, timerPc, clockVars, sinceArmed>>
    BY <1>6 DEF HandleHeartbeat
  <2>2. CASE accepted
    BY <1>6, <2>1, <2>2, TimerReset DEF HandleHeartbeat
  <2>3. CASE ~ accepted
    BY <1>1, <1>6, <2>1, <2>3 DEF HandleHeartbeat, clockVars, sinceVars
  <2> QED  BY <2>2, <2>3
<1>7. CASE GrantVote
  BY <1>7, TimerReset DEF GrantVote
<1>8. ASSUME NEW d \in Steps, Advance(d) PROVE TimerInv' /\ ResetInv'
  BY <1>8, TimerAdvance
<1>9. CASE SendTimer
  BY <1>9 DEF SendTimer, TimerInv, ResetInv, Waiting, Fired, sinceVars, followerVars
<1>10. CASE Win \/ Broadcast \/ EndHeartbeats \/ SendTick \/ Lose \/ ChangeLeads
            \/ \E node \in {"leader", "follower"} : Stop(node)
  BY <1>1, <1>10
  DEF Win, Broadcast, EndHeartbeats, SendTick, Lose, ChangeLeads, Stop, clockVars, followerVars
<1>11. CASE UNCHANGED vars
  BY <1>1, <1>11 DEF vars, clockVars, followerVars
<1> QED  BY <1>2, <1>3, <1>4, <1>5, <1>6, <1>7, <1>8, <1>9, <1>10, <1>11 DEF Next

-----------------------------------------------------------------------------
(* The heartbeats. *)

\* A step of the clock cannot reach past both the next tick and the timer.
LEMMA HeartbeatAdvance ==
    ASSUME HeartbeatInTime, Types, HeartbeatInv, NEW d \in Steps, Advance(d)
    PROVE  HeartbeatInv'
<1> USE ElectionTimerAssumption DEF Types
<1>1. UNCHANGED <<prompt, state, timerPc, resetCh, leads, heartbeatPc, heartbeats, tickerCh,
                  stopped, disturbed>>
  BY DEF Advance, followerVars, leaderVars
<1> SUFFICES ASSUME prompt, ~ disturbed, timerPc = "select"
             PROVE  left' > 0 /\ HeartbeatComing'
  BY <1>1 DEF HeartbeatInv
<1>2. /\ heartbeatPc = "select" /\ HeartbeatComing
  BY DEF HeartbeatInv
<1>3. ~ resetCh /\ ~ tickerCh /\ heartbeats = 0 /\ dueTicks = 0
  BY <1>2 DEF Advance, AtRest
<1>4. left >= ElectionTimeout - HeartbeatInterval + tick
  BY <1>2, <1>3 DEF HeartbeatComing
<1>5. d \in Nat \ {0} /\ HeartbeatInterval + d <= ElectionTimeout
  BY DEF HeartbeatInTime
<1>6. left' = left - d /\ left' > 0
  BY <1>4, <1>5 DEF Advance, max
<1>7. PICK ticks \in 0 .. d :
          tick' = tick + ticks * HeartbeatInterval - d /\ dueTicks' = ticks
  BY <1>2 DEF Advance
<1>8. CASE ticks = 0
  <2>1. tick' = tick - d
    BY <1>5, <1>7, <1>8
  <2> QED  BY <1>4, <1>5, <1>6, <2>1 DEF HeartbeatComing
<1>9. CASE ticks > 0
  BY <1>6, <1>7, <1>9 DEF HeartbeatComing
<1> QED  BY <1>5, <1>7, <1>8, <1>9

\* Every step keeps the next heartbeat ahead of the timer.
LEMMA HeartbeatNext ==
    ASSUME HeartbeatInTime, Types, TimerInv, HeartbeatInv, [Next]_vars
    PROVE  HeartbeatInv'
<1> USE ElectionTimerAssumption DEF Types
<1> DEFINE Held == /\ state = "Follower" /\ leads /\ stopped = {} /\ heartbeatPc = "select"
                   /\ timerPc \in {"arm", "select"}
                   /\ timerPc = "select" => left > 0 /\ HeartbeatComing
<1>1. ASSUME NEW d \in Steps, Advance(d) PROVE HeartbeatInv'
  BY <1>1, HeartbeatAdvance
<1>2. CASE Lose \/ ChangeLeads \/ \E node \in {"leader", "follower"} : Stop(node)
  BY <1>2 DEF Lose, ChangeLeads, Stop, HeartbeatInv
<1>3. ASSUME UNCHANGED <<prompt, disturbed>>, Held => Held'
      PROVE  HeartbeatInv'
  BY <1>3 DEF HeartbeatInv
<1>4. CASE Arm
  <2>1. left' \in Nat /\ left' >= ElectionTimeout /\ left' > 0 /\ tick' = tick
    BY <1>4 DEF Arm, randomizedElectionTimeout
  <2>2. left' >= ElectionTimeout - HeartbeatInterval + tick'
    BY <2>1
  <2> QED  BY <1>3, <1>4, <2>1, <2>2 DEF Arm, leaderVars, HeartbeatComing
<1>5. CASE Fire
  <2>1. left = 0 /\ timerPc = "select" /\ UNCHANGED <<prompt, disturbed>>
    BY <1>5 DEF Fire, TimerInv, Fired
  <2> QED  BY <1>3, <2>1
<1>6. CASE Elect \/ EndTimer \/ GrantVote \/ Win \/ EndHeartbeats
  BY <1>3, <1>6 DEF Elect, EndTimer, GrantVote, Win, EndHeartbeats
<1>7. CASE Reset
  BY <1>3, <1>7 DEF Reset, leaderVars
<1>8. ASSUME NEW accepted \in BOOLEAN, HandleHeartbeat(accepted) PROVE HeartbeatInv'
  BY <1>3, <1>8 DEF HandleHeartbeat, ResetElectionTimer, clockVars, HeartbeatComing
<1>9. CASE Broadcast
  BY <1>3, <1>9 DEF Broadcast, followerVars, HeartbeatComing
<1>10. CASE SendTimer \/ SendTick
  BY <1>3, <1>10 DEF SendTimer, SendTick, followerVars, leaderVars, HeartbeatComing
<1>11. CASE UNCHANGED vars
  BY <1>3, <1>11 DEF vars, clockVars, followerVars, leaderVars, HeartbeatComing
<1> QED  BY <1>1, <1>2, <1>4, <1>5, <1>6, <1>7, <1>8, <1>9, <1>10, <1>11 DEF Next

-----------------------------------------------------------------------------
(* The theorems. *)

\* The timer's invariant holds throughout.
LEMMA TimerInvariant == Spec => [](Types /\ TimerInv /\ ResetInv)
<1>1. Init => Types /\ TimerInv /\ ResetInv
  BY ElectionTimerAssumption DEF Init, Types, TimerInv, ResetInv, Waiting, Fired
<1>2. Types /\ TimerInv /\ ResetInv /\ [Next]_vars => (Types /\ TimerInv /\ ResetInv)'
  BY TypesNext, TimerNext
<1> QED  BY <1>1, <1>2, PTL DEF Spec

\* No election before a whole base timeout has passed since its timer was made,
\* for every timeout and every interleaving of runElectionTimer with the
\* handlers' resets and the clock's sends.
THEOREM ElectionsWait == Spec => FullTimeout
<1>1. Types /\ TimerInv /\ [Next]_vars => [Elect => sinceArmed >= ElectionTimeout]_vars
  <2> SUFFICES ASSUME Types, TimerInv, Elect PROVE sinceArmed >= ElectionTimeout
    OBVIOUS
  <2> QED  BY ElectionTimerAssumption DEF Types, TimerInv, Waiting, Fired, Elect
<1> QED  BY <1>1, TimerInvariant, PTL DEF Spec, FullTimeout

\* No election within a timeout of a reset that came before the timer was due,
\* while goroutines are prompt: the one slot of resetElectionCh is enough.
THEOREM ResetsNotLost == Spec => SilenceBeforeElection
<1>1. Types /\ TimerInv /\ ResetInv /\ [Next]_vars
          => [Elect /\ prompt => sinceReset >= ElectionTimeout]_vars
  <2> SUFFICES ASSUME Types, TimerInv, ResetInv, Elect, prompt
               PROVE  sinceReset >= ElectionTimeout
    OBVIOUS
  <2> QED  BY DEF TimerInv, ResetInv, Waiting, Fired, Elect
<1> QED  BY <1>1, TimerInvariant, PTL DEF Spec, SilenceBeforeElection

\* While nothing disturbs the two nodes and goroutines are prompt, the heartbeats
\* of runHeartbeatLoop keep the follower from an election for good: whenever one
\* interval and one step of the clock fit into the timeout.
THEOREM HeartbeatsPreventElections ==
    ASSUME HeartbeatInTime
    PROVE  Spec => []HeartbeatsHold
<1>1. Init => HeartbeatInv
  BY DEF Init, HeartbeatInv
<1>2. Types /\ TimerInv /\ HeartbeatInv /\ [Next]_vars => HeartbeatInv'
  BY HeartbeatNext
<1>3. HeartbeatInv => HeartbeatsHold
  BY DEF HeartbeatInv, HeartbeatsHold
<1> QED  BY <1>1, <1>2, <1>3, TimerInvariant, PTL DEF Spec
=============================================================================
