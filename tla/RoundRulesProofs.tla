-------------------------- MODULE RoundRulesProofs --------------------------
(***************************************************************************)
(* The rules of a round implement the cycle of rounds, and keep their      *)
(* types, for every map and every choice of times.                         *)
(*                                                                         *)
(* The calls fall into three kinds by what they do to the state, winner    *)
(* and score: those that keep them (Keeps: time, timers, clocks), those    *)
(* that may decide the round (Decides) and those that prepare the next one *)
(* (Prepares).  The invariant is needed for the exchange of sides, which   *)
(* follows the preparation by up to two steps, between which the round may *)
(* already be decided.                                                     *)
(***************************************************************************)
EXTENDS RoundRules, TLAPS

Fields == {"state", "winner", "score", "respawn"}
HasFields(r) == Fields \subseteq DOMAIN r

Keeps(r, s) ==
  /\ HasFields(s)
  /\ s.state = r.state /\ s.winner = r.winner
  /\ s.score = r.score /\ s.respawn = r.respawn

Prepares(r, s) ==
  /\ HasFields(s)
  /\ s.state = "Preround" /\ s.winner = Undecided
  /\ s.score = r.score

Decides(r, s) ==
  \/ Keeps(r, s)
  \/ /\ HasFields(s)
     /\ r.state # "TeamWin" /\ s.state = "TeamWin"
     /\ s.winner \in Teams \cup {Nobody}
     /\ s.score \in {r.score, Plus(r.score, s.winner)}
     /\ s.respawn = r.respawn

\* Sides are exchanged in the tick that prepared a round, whose state is still
\* being prepared or already decided.
Inv ==
  /\ HasFields(rules)
  /\ rules.state \in States
  /\ at \in {"time", "state", "timers", "respawn"}
  /\ rules.respawn # "no" =>
       /\ at \in {"timers", "respawn"}
       /\ rules.state \in {"Preround", "TeamWin"}

-----------------------------------------------------------------------------

LEMMA TimePassedKeeps ==
  ASSUME NEW r, HasFields(r)
  PROVE  Keeps(r, TimePassed(r))
BY DEF HasFields, Fields, Keeps, TimePassed

LEMMA ContestedKeeps ==
  ASSUME NEW r, HasFields(r)
  PROVE  Keeps(r, Contested(r))
BY DEF HasFields, Fields, Keeps, Contested

LEMMA StartWaitingKeeps ==
  ASSUME NEW r, HasFields(r)
  PROVE  Keeps(r, StartWaiting(r))
BY DEF HasFields, Fields, Keeps, StartWaiting

LEMMA RecreatedKeeps ==
  ASSUME NEW r, HasFields(r)
  PROVE  Keeps(r, Recreated(r))
BY DEF HasFields, Fields, Keeps, Recreated

LEMMA TimerInputKeeps ==
  ASSUME NEW r, NEW i, HasFields(r)
  PROVE  Keeps(r, TimerInput(r, i))
BY DEF HasFields, Fields, Keeps, TimerInput

LEMMA ClockInputKeeps ==
  ASSUME NEW r, NEW i, HasFields(r)
  PROVE  Keeps(r, ClockInput(r, i))
BY DEF HasFields, Fields, Keeps, ClockInput

LEMMA EnterPreroundPrepares ==
  ASSUME NEW r, NEW full, HasFields(r)
  PROVE  Prepares(r, EnterPreround(r, full))
BY DEF HasFields, Fields, Prepares, EnterPreround

LEMMA WonDecides ==
  ASSUME NEW r, NEW team \in Teams \cup {Nobody}, NEW full, NEW switch,
         HasFields(r)
  PROVE  Decides(r, Won(r, team, full, switch))
<1>1. CASE r.state = "TeamWin"
  BY <1>1 DEF Won, Decides, Keeps
<1>2. CASE r.state # "TeamWin"
  BY <1>2 DEF Won, Decides, HasFields, Fields
<1>3. QED
  BY <1>1, <1>2

LEMMA StalematedDecides ==
  ASSUME NEW r, HasFields(r)
  PROVE  Decides(r, Stalemated(r))
BY WonDecides DEF Stalemated

LEMMA WinInputDecides ==
  ASSUME NEW r, NEW i, HasFields(r)
  PROVE  Decides(r, WinInput(r, i))
<1>1. Keeps(r, [r EXCEPT !.teams[i.target] = i.value]) /\ Keeps(r, r)
  BY DEF HasFields, Fields, Keeps
<1>2. Decides(r, Stalemated(r))
  BY StalematedDecides
<1>3. r.teams[i.target] \in Teams =>
        Decides(r, Won(r, r.teams[i.target], mode.wins[i.target].full,
                       mode.wins[i.target].switch))
  BY WonDecides
<1>4. QED
  BY <1>1, <1>2, <1>3 DEF WinInput, Decides

LEMMA TimersAdvancedDecides ==
  ASSUME NEW r, NEW flagAway, HasFields(r)
  PROVE  Decides(r, TimersAdvanced(r, flagAway))
<1> DEFINE thinking == [r EXCEPT
      !.timers = [i \in Indices |->
        Thought(@[i], mode.timers[i], MayExpire(r, flagAway))],
      !.overtime = Overtime(r, MayExpire(r, flagAway))]
<1>1. Keeps(r, thinking) /\ HasFields(thinking)
  BY DEF HasFields, Fields, Keeps
<1>2. mode.defending \in Teams =>
        Decides(thinking, Won(thinking, mode.defending, TRUE, FALSE))
  BY <1>1, WonDecides
<1>3. \/ TimersAdvanced(r, flagAway) = thinking
      \/ /\ mode.defending \in Teams
         /\ TimersAdvanced(r, flagAway) =
              Won(thinking, mode.defending, TRUE, FALSE)
  BY DEF TimersAdvanced
<1> HIDE DEF thinking
<1>4. CASE TimersAdvanced(r, flagAway) = thinking
  BY <1>1, <1>4 DEF Decides
<1>5. CASE /\ mode.defending \in Teams
           /\ TimersAdvanced(r, flagAway) =
                Won(thinking, mode.defending, TRUE, FALSE)
  BY <1>1, <1>2, <1>5 DEF Decides, Keeps
<1>6. QED
  BY <1>3, <1>4, <1>5

-----------------------------------------------------------------------------
(* The steps of a tick.                                                     *)

\* A step from r to s that follows the cycle, without an exchange of sides.
Follows(r, s) ==
  \/ Decides(r, s)
  \/ Prepares(r, s)
  \/ /\ HasFields(s)
     /\ s.winner = r.winner /\ s.score = r.score /\ s.respawn = r.respawn
     /\ << r.state, s.state >> \in
          {<< "Init", "Pregame" >>, << "Pregame", "StartGame" >>,
           << "Preround", "Running" >>, << "Running", "Pregame" >>}

LEMMA ChangedFollows ==
  ASSUME NEW r, NEW players, HasFields(r)
  PROVE  Follows(r, Changed(r, players))
<1>1. CASE r.state = "Init"
  BY <1>1 DEF Changed, Follows, HasFields, Fields
<1>2. CASE r.state = "Pregame"
  BY <1>2 DEF Changed, Follows, Decides, Keeps, HasFields, Fields
<1>3. CASE r.state = "StartGame"
  <2>1. /\ Prepares(StartWaiting(r), EnterPreround(StartWaiting(r), FALSE))
        /\ Keeps(r, StartWaiting(r)) /\ Keeps(r, r)
    BY StartWaitingKeeps, EnterPreroundPrepares DEF Keeps
  <2>2. Prepares(r, EnterPreround(StartWaiting(r), FALSE))
    BY <2>1 DEF Prepares, Keeps
  <2>3. QED
    BY <1>3, <2>1, <2>2 DEF Changed, Follows, Decides
<1>4. CASE r.state = "Preround"
  <2>1. /\ HasFields(Activate(r)) /\ Activate(r).state = "Running"
        /\ Activate(r).winner = r.winner /\ Activate(r).score = r.score
        /\ Activate(r).respawn = r.respawn
    BY DEF Activate, HasFields, Fields
  <2>2. Keeps(r, r)
    BY DEF Keeps
  <2>3. QED
    BY <1>4, <2>1, <2>2 DEF Changed, Follows, Decides
<1>5. CASE r.state = "Running"
  BY <1>5 DEF Changed, Follows, Decides, Keeps, HasFields, Fields
<1>6. CASE r.state = "TeamWin"
  <2>1. Prepares(r, EnterPreround(r, r.fullReset)) /\ Keeps(r, r)
    BY EnterPreroundPrepares DEF Keeps
  <2>2. QED
    BY <1>6, <2>1 DEF Changed, Follows, Decides
<1>7. CASE r.state \notin {"Init", "Pregame", "StartGame", "Preround",
                           "Running", "TeamWin"}
  BY <1>7 DEF Changed, Follows, Decides, Keeps
<1>8. QED
  BY <1>1, <1>2, <1>3, <1>4, <1>5, <1>6, <1>7

LEMMA TimedFollows ==
  ASSUME NEW r, NEW flagAway, HasFields(r)
  PROVE  Decides(r, Timed(r, flagAway)) \/ Prepares(r, Timed(r, flagAway))
<1>1. Prepares(r, WaitingEnded(r))
  <2> DEFINE over == [r EXCEPT !.waiting = Unset, !.waitingDone = TRUE]
  <2>1. Keeps(r, over) /\ HasFields(over)
    BY DEF Keeps, HasFields, Fields
  <2>2. Prepares(over, EnterPreround(over, TRUE))
    BY <2>1, EnterPreroundPrepares
  <2>3. WaitingEnded(r) = EnterPreround(over, TRUE)
    BY Zenon DEF WaitingEnded
  <2> HIDE DEF over
  <2>4. QED
    BY <2>1, <2>2, <2>3 DEF Prepares, Keeps
<1>2. Decides(r, TimersAdvanced(r, flagAway))
  BY TimersAdvancedDecides
<1>3. Decides(r, r)
  BY DEF Decides, Keeps
<1>4. Timed(r, flagAway) \in {WaitingEnded(r), TimersAdvanced(r, flagAway), r}
  BY DEF Timed
<1>5. QED
  BY <1>1, <1>2, <1>3, <1>4

\* What the calls of the session and the map do.
LEMMA CallDecides ==
  ASSUME Inv, PassTime \/ Win \/ SetStalemate \/ ApplyInput
  PROVE  Decides(rules, rules')
<1>1. CASE PassTime
  BY <1>1, TimePassedKeeps DEF PassTime, Inv, Decides
<1>2. CASE Win
  BY <1>2, WonDecides DEF Win, Inv
<1>3. CASE SetStalemate
  BY <1>3, StalematedDecides DEF SetStalemate, Inv
<1>4. CASE ApplyInput
  BY <1>4, WinInputDecides, TimerInputKeeps, ClockInputKeeps
     DEF ApplyInput, Inv, Decides, Keeps
<1>5. QED
  BY <1>1, <1>2, <1>3, <1>4

\* What the first half of advance() does.
LEMMA AdvanceStateFollows ==
  ASSUME Inv, AdvanceState
  PROVE  Follows(rules, rules')
<1>1. PICK players \in BOOLEAN, contested \in BOOLEAN :
        rules' = Changed(IF contested THEN Contested(rules) ELSE rules, players)
  BY DEF AdvanceState
<1> DEFINE r == IF contested THEN Contested(rules) ELSE rules
<1>2. Keeps(rules, r) /\ HasFields(r)
  BY ContestedKeeps DEF Inv, Keeps
<1>3. Follows(r, rules')
  BY <1>1, <1>2, ChangedFollows
<1> HIDE DEF r
<1>4. QED
  BY <1>2, <1>3 DEF Follows, Decides, Prepares, Keeps

\* What the second half does.
LEMMA AdvanceTimersFollows ==
  ASSUME Inv, AdvanceTimers
  PROVE  Decides(rules, rules') \/ Prepares(rules, rules')
BY TimedFollows DEF AdvanceTimers, Inv

\* What the session does when a round begins keeps the state and the winner,
\* and the score or its two sides exchanged.
Exchanged(score) == [t \in Teams |-> score[CHOOSE u \in Teams : u # t]]

LEMMA RespawnExchanges ==
  ASSUME Inv, Respawn
  PROVE  /\ HasFields(rules') /\ rules'.respawn = "no"
         /\ rules'.state = rules.state /\ rules'.winner = rules.winner
         /\ \/ rules'.score = rules.score
            \/ /\ rules.state \in {"Preround", "TeamWin"}
               /\ rules'.score = Exchanged(rules.score)
<1>1. CASE rules.respawn = "no"
  BY <1>1 DEF Respawn, Inv
<1>2. CASE rules.respawn # "no"
  <2> DEFINE r == Recreated(rules)
             s == Switched(r)
  <2>1. rules' = [s EXCEPT !.respawn = "no"]
    BY <1>2 DEF Respawn
  <2>2. Keeps(rules, r)
    BY RecreatedKeeps DEF Inv
  <2> HIDE DEF r
  <2>3. /\ HasFields(s) /\ s.state = r.state /\ s.winner = r.winner
        /\ s.score \in {r.score, Exchanged(r.score)}
    BY <2>2 DEF Switched, Exchanged, Keeps, HasFields, Fields
  <2> HIDE DEF s
  <2>4. /\ HasFields(rules') /\ rules'.respawn = "no"
        /\ rules'.state = s.state /\ rules'.winner = s.winner
        /\ rules'.score = s.score
    BY <2>1, <2>3 DEF HasFields, Fields
  <2>5. QED
    BY <1>2, <2>2, <2>3, <2>4 DEF Keeps, Inv
<1>3. QED
  BY <1>1, <1>2

LEMMA AddTeamScoreAdds ==
  ASSUME Inv, AddTeamScore
  PROVE  /\ HasFields(rules') /\ rules'.respawn = rules.respawn
         /\ rules'.state = rules.state /\ rules'.winner = rules.winner
         /\ \E team \in Teams : rules'.score = Plus(rules.score, team)
BY DEF AddTeamScore, Inv, HasFields, Fields

-----------------------------------------------------------------------------
(* The invariant.                                                           *)

LEMMA InitInv == Init => Inv
BY DEF Init, Inv, HasFields, Fields, States, TimedStates

LEMMA NextInv == Inv /\ [Next]_vars => Inv'
<1> SUFFICES ASSUME Inv, [Next]_vars PROVE Inv'
  OBVIOUS
<1>1. CASE PassTime \/ Win \/ SetStalemate \/ ApplyInput
  <2>1. at \in {"time", "state"} /\ at' \in {"time", "state"}
    BY <1>1 DEF PassTime, Win, SetStalemate, ApplyInput, AtEnd
  <2>2. Decides(rules, rules') /\ rules.respawn = "no"
    BY <1>1, <2>1, CallDecides DEF Inv
  <2>3. QED
    BY <2>1, <2>2 DEF Inv, Decides, Keeps, States, TimedStates
<1>2. CASE AdvanceState
  <2>1. Follows(rules, rules') /\ rules.respawn = "no" /\ at' = "timers"
    BY <1>2, AdvanceStateFollows DEF AdvanceState, Inv
  <2>2. QED
    BY <2>1 DEF Inv, Follows, Decides, Prepares, Keeps, States, TimedStates
<1>3. CASE AdvanceTimers
  <2>1. /\ Decides(rules, rules') \/ Prepares(rules, rules')
        /\ at = "timers" /\ at' = "respawn"
    BY <1>3, AdvanceTimersFollows DEF AdvanceTimers
  <2>2. QED
    BY <2>1 DEF Inv, Decides, Prepares, Keeps, States, TimedStates
<1>4. CASE Respawn
  BY <1>4, RespawnExchanges DEF Respawn, Inv
<1>5. CASE AddTeamScore
  BY <1>5, AddTeamScoreAdds DEF AddTeamScore, AtEnd, Inv
<1>6. CASE UNCHANGED vars
  BY <1>6 DEF vars, Inv, HasFields
<1>7. QED
  BY <1>1, <1>2, <1>3, <1>4, <1>5, <1>6 DEF Next

-----------------------------------------------------------------------------
(* The cycle of rounds.                                                     *)

LEMMA InitCycle == Init => Cycle!Init
BY DEF Init, Cycle!Init, Stage

LEMMA ScoreOfCycle ==
  ASSUME NEW team
  PROVE  Cycle!Scored(team) = Plus(rules.score, team)
BY DEF Cycle!Scored, Plus

cycleVars == << Stage, rules.winner, rules.score >>

LEMMA FollowsCycle ==
  ASSUME Inv, Inv', Follows(rules, rules')
  PROVE  [Cycle!Next]_cycleVars
<1>1. CASE Keeps(rules, rules')
  BY <1>1 DEF Keeps, Stage, cycleVars
<1>2. CASE /\ rules.state # "TeamWin" /\ rules'.state = "TeamWin"
           /\ rules'.winner \in Teams \cup {Nobody}
           /\ rules'.score \in {rules.score, Plus(rules.score, rules'.winner)}
  <2>1. Stage # "decided" /\ Stage' = "decided"
    BY <1>2 DEF Stage, Inv, States, TimedStates
  <2>2. Cycle!Scored(rules'.winner) = Plus(rules.score, rules'.winner)
    BY DEF Cycle!Scored, Plus
  <2>3. Cycle!Decide
    BY <1>2, <2>1, <2>2 DEF Cycle!Decide
  <2>4. QED
    BY <2>3 DEF Cycle!Next
<1>3. CASE Prepares(rules, rules')
  BY <1>3 DEF Prepares, Stage, Cycle!Next, Cycle!Prepare
<1>4. CASE /\ rules'.winner = rules.winner /\ rules'.score = rules.score
           /\ << rules.state, rules'.state >> \in
                {<< "Init", "Pregame" >>, << "Pregame", "StartGame" >>}
  BY <1>4 DEF Stage, cycleVars
<1>5. CASE /\ rules'.winner = rules.winner /\ rules'.score = rules.score
           /\ << rules.state, rules'.state >> = << "Preround", "Running" >>
  BY <1>5 DEF Stage, Cycle!Next, Cycle!Play
<1>6. CASE /\ rules'.winner = rules.winner /\ rules'.score = rules.score
           /\ << rules.state, rules'.state >> = << "Running", "Pregame" >>
  BY <1>6 DEF Stage, Cycle!Next, Cycle!Empty
<1>7. QED
  BY <1>1, <1>2, <1>3, <1>4, <1>5, <1>6 DEF Follows, Decides

LEMMA RespawnCycle ==
  ASSUME Inv, Respawn
  PROVE  [Cycle!Next]_cycleVars
<1>1. Stage' = Stage /\ rules'.winner = rules.winner
  BY RespawnExchanges DEF Stage
<1>2. CASE rules'.score = rules.score
  BY <1>1, <1>2 DEF cycleVars
<1>3. CASE /\ rules.state \in {"Preround", "TeamWin"}
           /\ rules'.score = Exchanged(rules.score)
  <2> DEFINE sides == [t \in Teams |-> CHOOSE u \in Teams : u # t]
  <2>1. \A t \in Teams : sides[t] \in Teams /\ sides[t] # t
    BY DEF Teams
  <2>2. sides \in [Teams -> Teams]
    BY <2>1
  <2>3. \A s, t \in Teams : sides[s] = sides[t] => s = t
    BY <2>1 DEF Teams
  <2>4. rules'.score = [t \in Teams |-> rules.score[sides[t]]]
    BY <1>3 DEF Exchanged
  <2>5. Stage \in {"prepare", "decided"}
    BY <1>3 DEF Stage
  <2> HIDE DEF sides
  <2>6. Cycle!Swap
    BY <1>1, <2>2, <2>3, <2>4, <2>5 DEF Cycle!Swap
  <2>7. QED
    BY <2>6 DEF Cycle!Next
<1>4. QED
  BY <1>2, <1>3, RespawnExchanges

LEMMA NextCycle ==
  ASSUME Inv, Inv', [Next]_vars
  PROVE  [Cycle!Next]_cycleVars
<1>1. CASE PassTime \/ Win \/ SetStalemate \/ ApplyInput
  BY <1>1, CallDecides, FollowsCycle DEF Follows
<1>2. CASE AdvanceState
  BY <1>2, AdvanceStateFollows, FollowsCycle
<1>3. CASE AdvanceTimers
  BY <1>3, AdvanceTimersFollows, FollowsCycle DEF Follows
<1>4. CASE Respawn
  BY <1>4, RespawnCycle
<1>5. CASE AddTeamScore
  <2>1. PICK team \in Teams : rules'.score = Plus(rules.score, team)
    BY <1>5, AddTeamScoreAdds
  <2>2. Stage' = Stage /\ rules'.winner = rules.winner
    BY <1>5, AddTeamScoreAdds DEF Stage
  <2>3. Cycle!Bonus
    BY <2>1, <2>2, ScoreOfCycle DEF Cycle!Bonus
  <2>4. QED
    BY <2>3 DEF Cycle!Next
<1>6. CASE UNCHANGED vars
  BY <1>6 DEF vars, Stage, cycleVars
<1>7. QED
  BY <1>1, <1>2, <1>3, <1>4, <1>5, <1>6 DEF Next

\* The rules of a round, with any timers, times and inputs of the map, follow
\* the cycle of rounds: a decided round keeps its winner until the next one is
\* prepared, and the score changes by decisions, bonuses and exchanges of
\* sides only (Rules, round.rs).
THEOREM RoundsFollowTheCycle == Spec => ImplementsRoundCycle
<1>1. Spec => []Inv
  BY InitInv, NextInv, PTL DEF Spec
<1>2. Init => Cycle!Init
  BY InitCycle
<1>3. Inv /\ Inv' /\ [Next]_vars => [Cycle!Next]_cycleVars
  BY NextCycle
<1>4. QED
  BY <1>1, <1>2, <1>3, PTL DEF Spec, ImplementsRoundCycle, Cycle!Spec,
                               cycleVars
-----------------------------------------------------------------------------
(* Types, and the times of the timers.                                      *)

\* The times that a map declares for a timer.
Declared(c) == c.initial \in Int /\ c.setup \in Int /\ c.maximum \in Int

\* What a timer may show.
Shows(left, c) ==
  c.maximum > 0 =>
    left <= c.maximum \/ left <= c.initial \/ left <= c.setup

TimerOK(t, c) ==
  /\ {"left", "think", "after"} \subseteq DOMAIN t
  /\ t.left \in Int /\ t.after \in Int /\ t.think \in 0..ThinkTicks
  /\ Shows(t.left, c)

LEMMA TruncatedBounds ==
  ASSUME NEW n \in Int
  PROVE  Truncated(n) \in Int /\ (Truncated(n) <= n \/ Truncated(n) <= 0)
<1>1. \A k \in Nat : (k \div Second) * Second \in Nat
                     /\ (k \div Second) * Second <= k
  <2> SUFFICES ASSUME NEW k \in Nat
               PROVE  (k \div Second) * Second \in Nat
                      /\ (k \div Second) * Second <= k
    OBVIOUS
  <2>1. Second \in Nat \ {0}
    BY RoundAssumption DEF RoundAssumption
  <2>2. k \div Second \in Nat /\ (k \div Second) * Second <= k
    BY <2>1, SMT
  <2>3. (k \div Second) * Second \in Nat
    BY <2>1, <2>2, SMT
  <2>4. QED
    BY <2>2, <2>3
<1>2. CASE n >= 0
  BY <1>1, <1>2 DEF Truncated
<1>3. CASE ~(n >= 0)
  <2>1. -n \in Nat
    BY <1>3
  <2>2. ((-n) \div Second) * Second \in Nat
    BY <1>1, <2>1
  <2>3. Truncated(n) = -(((-n) \div Second) * Second)
    BY <1>3 DEF Truncated
  <2>4. QED
    BY <2>2, <2>3
<1>4. QED
  BY <1>2, <1>3

LEMMA TimerAtOK ==
  ASSUME NEW c, NEW hud, Declared(c)
  PROVE  TimerOK(TimerAt(c, hud), c)
BY RoundAssumption DEF TimerAt, TimerOK, Shows, Declared, RoundAssumption

LEMMA ElapsedOK ==
  ASSUME NEW t, NEW c, TimerOK(t, c), Declared(c)
  PROVE  TimerOK(Elapsed(t), c)
BY RoundAssumption DEF Elapsed, TimerOK, Shows, Declared, RoundAssumption

LEMMA PauseOK ==
  ASSUME NEW t, NEW c, TimerOK(t, c)
  PROVE  TimerOK(Pause(t), c)
BY DEF Pause, TimerOK

LEMMA ResumeOK ==
  ASSUME NEW t, NEW c, TimerOK(t, c)
  PROVE  TimerOK(Resume(t), c)
BY DEF Resume, TimerOK

\* Fields that the times do not depend on.
LEMMA OtherFieldsOK ==
  ASSUME NEW t, NEW c, NEW value, TimerOK(t, c)
  PROVE  /\ TimerOK([t EXCEPT !.hud = value], c)
         /\ TimerOK([t EXCEPT !.disabled = value], c)
         /\ TimerOK([t EXCEPT !.setup = value], c)
         /\ TimerOK([t EXCEPT !.finished = value], c)
         /\ TimerOK([t EXCEPT !.think = ThinkTicks], c)
BY RoundAssumption DEF TimerOK, RoundAssumption

LEMMA WithLeftOK ==
  ASSUME NEW t, NEW c, NEW left \in Int, TimerOK(t, c), Shows(left, c)
  PROVE  TimerOK(WithLeft(t, left), c)
BY DEF WithLeft, TimerOK

LEMMA SetTimeOK ==
  ASSUME NEW t, NEW c, NEW time \in Int, TimerOK(t, c), Declared(c)
  PROVE  TimerOK(SetTime(t, c, time), c)
<1> DEFINE left == IF c.maximum > 0 /\ time > c.maximum THEN c.maximum
                   ELSE time
<1>1. left \in Int /\ Shows(left, c)
  BY DEF Declared, Shows
<1>2. SetTime(t, c, time) \in {t, WithLeft(t, left)}
  BY Zenon DEF SetTime
<1> HIDE DEF left
<1>3. QED
  BY <1>1, <1>2, WithLeftOK

LEMMA AddTimeOK ==
  ASSUME NEW t, NEW c, NEW time \in Int, TimerOK(t, c), Declared(c)
  PROVE  TimerOK(AddTime(t, c, time), c)
<1> DEFINE over == c.maximum > 0 /\ Remaining(t) + time > c.maximum
           cut == Truncated(c.maximum - Remaining(t))
           left == t.left + IF over THEN cut ELSE time
<1>1. t.left \in Int /\ Remaining(t) \in Nat /\ t.left <= Remaining(t)
      /\ (Remaining(t) = 0 \/ Remaining(t) = t.left)
  BY DEF TimerOK, Remaining
<1>2. c.maximum - Remaining(t) \in Int
  BY <1>1 DEF Declared
<1>3. cut \in Int /\ (cut <= c.maximum - Remaining(t) \/ cut <= 0)
  BY <1>2, TruncatedBounds
<1> HIDE DEF cut
<1>4. left \in Int
  BY <1>1, <1>3
<1>5. ASSUME over PROVE Shows(left, c)
  <2>1. left = t.left + cut
    BY <1>5
  <2>2. left <= c.maximum \/ left <= t.left
    BY <1>1, <1>3, <2>1 DEF Declared
  <2>3. Shows(left, c)
    BY <1>1, <1>4, <2>2 DEF Shows, TimerOK, Declared
  <2>4. QED
    BY <2>3
<1>6. ASSUME ~over PROVE Shows(left, c)
  <2>1. left = t.left + time
    BY <1>6
  <2>2. c.maximum > 0 => left <= c.maximum
    BY <1>1, <1>6, <2>1 DEF Declared
  <2>3. Shows(left, c)
    BY <2>2 DEF Shows
  <2>4. QED
    BY <2>3
<1>7. Shows(left, c)
  BY <1>5, <1>6
<1>8. AddTime(t, c, time) \in {t, WithLeft(t, left)}
  BY Zenon DEF AddTime, cut
<1> HIDE DEF left
<1>9. QED
  BY <1>4, <1>7, <1>8, WithLeftOK

LEMMA RoundSpawnOK ==
  ASSUME NEW t, NEW c, NEW waiting, TimerOK(t, c), Declared(c)
  PROVE  TimerOK(RoundSpawn(t, c, waiting), c)
<1> DEFINE after == IF ~c.reset /\ ~t.setup THEN Truncated(Remaining(t))
                    ELSE c.initial
           spawned == [t EXCEPT !.after = after, !.setup = c.setup > 0]
           time == IF c.setup > 0 THEN c.setup ELSE after
           timed == SetTime(spawned, c, time)
<1>1. Remaining(t) \in Int
  BY DEF TimerOK, Remaining
<1>2. after \in Int
  BY <1>1, TruncatedBounds DEF Declared
<1> HIDE DEF after
<1>3. TimerOK(spawned, c)
  BY <1>2 DEF TimerOK
<1>4. time \in Int
  BY <1>2 DEF Declared
<1> HIDE DEF spawned, time
<1>5. TimerOK(timed, c)
  BY <1>3, <1>4, SetTimeOK
<1>6. RoundSpawn(t, c, waiting) \in {timed, Resume(timed)}
  BY Zenon DEF RoundSpawn, after, spawned, time
<1> HIDE DEF timed
<1>7. QED
  BY <1>5, <1>6, ResumeOK

LEMMA ThoughtOK ==
  ASSUME NEW t, NEW c, NEW mayExpire, TimerOK(t, c), Declared(c)
  PROVE  TimerOK(Thought(t, c, mayExpire), c)
<1> DEFINE thinking == IF t.think = 0 THEN [t EXCEPT !.think = ThinkTicks]
                       ELSE t
           ready == [thinking EXCEPT !.setup = FALSE]
<1>1. TimerOK(thinking, c) /\ thinking.left = t.left
  BY OtherFieldsOK DEF TimerOK
<1> HIDE DEF thinking
<1>2. TimerOK(ready, c) /\ TimerOK([thinking EXCEPT !.finished = TRUE], c)
  BY <1>1, OtherFieldsOK
<1> HIDE DEF ready
<1>3. TimerOK(SetTime(ready, c, t.after), c)
  BY <1>2, SetTimeOK DEF TimerOK
<1>4. TimerOK([thinking EXCEPT !.left = 0], c)
  BY <1>1 DEF TimerOK, Shows, Declared
<1>5. Thought(t, c, mayExpire) \in
        {thinking, SetTime(ready, c, t.after),
         [thinking EXCEPT !.finished = TRUE], [thinking EXCEPT !.left = 0]}
  BY Zenon DEF Thought, thinking, ready
<1>6. QED
  BY <1>1, <1>2, <1>3, <1>4, <1>5

-----------------------------------------------------------------------------
(* Types of the fields.                                                     *)

TypedFields == {"winner", "score", "transition", "waiting", "timers"}

TimersOK(timers) ==
  /\ DOMAIN timers = Indices
  /\ \A i \in Indices : TimerOK(timers[i], mode.timers[i])

RulesOK(r) ==
  /\ HasFields(r) /\ TypedFields \subseteq DOMAIN r
  /\ r.winner \in Teams \cup {Nobody, Undecided}
  /\ r.score \in [Teams -> 0..ScoreMax]
  /\ r.transition \in Int /\ r.transition >= Unset
  /\ r.waiting \in Int /\ r.waiting >= Unset
  /\ r.respawn \in {"no", "part", "full"}
  /\ TimersOK(r.timers)

\* What a call makes of rules that have their types, when it leaves the time of
\* waiting alone.
Types(r, s) == RulesOK(r) => RulesOK(s) /\ s.waiting = r.waiting

LEMMA TimesDeclared ==
  ASSUME mode \in Modes
  PROVE  \A i \in Indices : Declared(mode.timers[i])
BY MapAssumption DEF MapAssumption, Declared, Indices

LEMMA AuthoredOK ==
  ASSUME mode \in Modes
  PROVE  TimersOK(AuthoredTimers)
BY TimesDeclared, TimerAtOK DEF TimersOK, AuthoredTimers

\* Other timers, with the fields that have no part in the types.
LEMMA TimersTyped ==
  ASSUME NEW r, NEW timers, NEW value, RulesOK(r), TimersOK(timers)
  PROVE  /\ Types(r, [r EXCEPT !.timers = timers])
         /\ Types(r, [r EXCEPT !.timers = timers, !.overtime = value])
         /\ Types(r, [r EXCEPT !.timers = timers, !.state = value])
         /\ Types(r, [r EXCEPT !.timers = timers, !.teams = value])
BY DEF Types, RulesOK, HasFields, Fields, TypedFields

LEMMA LaterTyped ==
  ASSUME NEW due \in Int, due >= Unset
  PROVE  Later(due) \in Int /\ Later(due) >= Unset
BY DEF Later, Unset

LEMMA TimePassedTyped ==
  ASSUME NEW r, RulesOK(r), mode \in Modes
  PROVE  RulesOK(TimePassed(r))
<1> DEFINE timers == [i \in Indices |-> Elapsed(r.timers[i])]
           transition == Later(r.transition)
           waiting == Later(r.waiting)
           capture == Later(r.capture)
<1>1. TimersOK(timers)
  BY TimesDeclared, ElapsedOK DEF RulesOK, TimersOK
<1>2. /\ transition \in Int /\ transition >= Unset
      /\ waiting \in Int /\ waiting >= Unset
  BY LaterTyped DEF RulesOK
<1>3. TimePassed(r) = [r EXCEPT !.timers = timers, !.transition = transition,
                               !.waiting = waiting, !.capture = capture]
  BY DEF TimePassed
<1> HIDE DEF timers, transition, waiting, capture
<1>4. QED
  BY <1>1, <1>2, <1>3 DEF RulesOK, HasFields, Fields, TypedFields

LEMMA EnterPreroundTyped ==
  ASSUME NEW r, NEW full, RulesOK(r), mode \in Modes
  PROVE  Types(r, EnterPreround(r, full))
<1> DEFINE timers == [i \in Indices |->
             IF mode.timers[i].reset \/ full
             THEN ResetTimer(r.timers[i], mode.timers[i]) ELSE r.timers[i]]
           respawn == IF full \/ r.respawn = "full" THEN "full" ELSE "part"
<1>1. TimersOK(timers)
  BY TimesDeclared, TimerAtOK DEF RulesOK, TimersOK, ResetTimer
<1>2. respawn \in {"no", "part", "full"}
  OBVIOUS
<1>3. EnterPreround(r, full) =
        [r EXCEPT !.timers = timers, !.state = "Preround",
                  !.transition = PreroundTicks, !.winner = Undecided,
                  !.overtime = FALSE, !.respawn = respawn]
  BY DEF EnterPreround
<1> HIDE DEF timers, respawn
<1>4. PreroundTicks \in Int /\ PreroundTicks >= Unset
  BY RoundAssumption DEF RoundAssumption, Unset
<1>5. QED
  BY <1>1, <1>2, <1>3, <1>4
     DEF Types, RulesOK, HasFields, Fields, TypedFields

LEMMA PlusTyped ==
  ASSUME NEW score \in [Teams -> 0..ScoreMax], NEW team
  PROVE  Plus(score, team) \in [Teams -> 0..ScoreMax]
BY RoundAssumption DEF Plus, RoundAssumption

LEMMA WonTyped ==
  ASSUME NEW r, NEW team \in Teams \cup {Nobody}, NEW full, NEW switch,
         RulesOK(r)
  PROVE  Types(r, Won(r, team, full, switch))
<1> DEFINE timers == [i \in Indices |-> Pause(r.timers[i])]
           score == IF full THEN Plus(r.score, team) ELSE r.score
           won == [r EXCEPT
                     !.timers = timers, !.state = "TeamWin",
                     !.transition = BonusTicks, !.winner = team,
                     !.fullReset = full, !.switch = switch, !.score = score]
<1>1. TimersOK(timers)
  BY PauseOK DEF RulesOK, TimersOK
<1>2. score \in [Teams -> 0..ScoreMax]
  BY PlusTyped DEF RulesOK
<1>3. Won(r, team, full, switch) \in {r, won}
  BY DEF Won
<1> HIDE DEF timers, score
<1>4. BonusTicks \in Int /\ BonusTicks >= Unset
  BY RoundAssumption DEF RoundAssumption, Unset
<1>5. Types(r, won)
  BY <1>1, <1>2, <1>4 DEF Types, RulesOK, HasFields, Fields, TypedFields
<1> HIDE DEF won
<1>6. QED
  BY <1>3, <1>5 DEF Types

LEMMA StalematedTyped ==
  ASSUME NEW r, RulesOK(r)
  PROVE  Types(r, Stalemated(r))
BY WonTyped DEF Stalemated

LEMMA ActivateTyped ==
  ASSUME NEW r, RulesOK(r)
  PROVE  Types(r, Activate(r))
<1> DEFINE timers == [i \in Indices |->
             IF Waiting(r) \/ mode.timers[i].startPaused THEN r.timers[i]
             ELSE Resume(r.timers[i])]
<1>1. TimersOK(timers)
  BY ResumeOK DEF RulesOK, TimersOK
<1>2. Activate(r) = [r EXCEPT !.timers = timers, !.state = "Running"]
  BY DEF Activate
<1> HIDE DEF timers
<1>3. Types(r, [r EXCEPT !.timers = timers, !.state = "Running"])
  BY <1>1, TimersTyped, Zenon
<1>4. QED
  BY <1>2, <1>3

LEMMA StartWaitingTyped ==
  ASSUME NEW r, RulesOK(r)
  PROVE  RulesOK(StartWaiting(r))
BY RoundAssumption
   DEF StartWaiting, RoundAssumption, Unset, RulesOK, HasFields, Fields,
       TypedFields

\* The first half of advance() sets no time that has passed already, but may
\* start the time of waiting.
LEMMA ChangedTyped ==
  ASSUME NEW r, NEW players, RulesOK(r), mode \in Modes
  PROVE  RulesOK(Changed(r, players))
<1>1. /\ RulesOK([r EXCEPT !.state = "Pregame"])
      /\ RulesOK([r EXCEPT !.state = "StartGame", !.transition = 0])
  BY DEF RulesOK, HasFields, Fields, TypedFields, Unset
<1>2. RulesOK(EnterPreround(StartWaiting(r), FALSE))
  BY StartWaitingTyped, EnterPreroundTyped DEF Types
<1>3. RulesOK(EnterPreround(r, r.fullReset))
  BY EnterPreroundTyped DEF Types
<1>4. RulesOK(Activate(r))
  BY ActivateTyped DEF Types
<1>5. Changed(r, players) \in
        {[r EXCEPT !.state = "Pregame"],
         [r EXCEPT !.state = "StartGame", !.transition = 0],
         EnterPreround(StartWaiting(r), FALSE), Activate(r),
         EnterPreround(r, r.fullReset), r}
  BY Zenon DEF Changed
<1>6. QED
  BY <1>1, <1>2, <1>3, <1>4, <1>5

LEMMA TimersAdvancedTyped ==
  ASSUME NEW r, NEW flagAway, RulesOK(r), mode \in Modes
  PROVE  Types(r, TimersAdvanced(r, flagAway))
<1> DEFINE timers == [i \in Indices |->
             Thought(r.timers[i], mode.timers[i], MayExpire(r, flagAway))]
           overtime == Overtime(r, MayExpire(r, flagAway))
           thinking == [r EXCEPT !.timers = timers, !.overtime = overtime]
<1>1. TimersOK(timers)
  BY TimesDeclared, ThoughtOK DEF RulesOK, TimersOK
<1>2. \/ TimersAdvanced(r, flagAway) = thinking
      \/ /\ mode.defending \in Teams
         /\ TimersAdvanced(r, flagAway) =
              Won(thinking, mode.defending, TRUE, FALSE)
  BY DEF TimersAdvanced
<1> HIDE DEF timers, overtime
<1>3. Types(r, thinking)
  BY <1>1, TimersTyped
<1> HIDE DEF thinking
<1>4. mode.defending \in Teams =>
        Types(thinking, Won(thinking, mode.defending, TRUE, FALSE))
  <2>1. RulesOK(thinking)
    BY <1>3 DEF Types
  <2>2. QED
    BY <2>1, WonTyped
<1>5. CASE TimersAdvanced(r, flagAway) = thinking
  BY <1>3, <1>5
<1>6. CASE /\ mode.defending \in Teams
           /\ TimersAdvanced(r, flagAway) =
                Won(thinking, mode.defending, TRUE, FALSE)
  BY <1>3, <1>4, <1>6 DEF Types
<1>7. QED
  BY <1>2, <1>5, <1>6

\* The second half leaves no time of waiting that has passed.
LEMMA TimedTyped ==
  ASSUME NEW r, NEW flagAway, RulesOK(r), mode \in Modes
  PROVE  RulesOK(Timed(r, flagAway)) /\ Timed(r, flagAway).waiting # Passed
<1> DEFINE over == [r EXCEPT !.waiting = Unset, !.waitingDone = TRUE]
<1>1. RulesOK(over) /\ over.waiting = Unset
  BY DEF RulesOK, HasFields, Fields, TypedFields, Unset
<1>2. WaitingEnded(r) = EnterPreround(over, TRUE)
  BY Zenon DEF WaitingEnded
<1> HIDE DEF over
<1>3. RulesOK(WaitingEnded(r)) /\ WaitingEnded(r).waiting # Passed
  <2>1. Types(over, EnterPreround(over, TRUE))
    BY <1>1, EnterPreroundTyped
  <2>2. RulesOK(EnterPreround(over, TRUE))
        /\ EnterPreround(over, TRUE).waiting = Unset
    BY <1>1, <2>1, Zenon DEF Types
  <2>3. Unset # Passed
    BY DEF Unset, Passed
  <2>4. QED
    BY <1>2, <2>2, <2>3, Zenon
<1>4. Types(r, TimersAdvanced(r, flagAway)) /\ Types(r, r)
  BY TimersAdvancedTyped DEF Types
<1>5. CASE r.waiting = Passed
  <2>1. Timed(r, flagAway) = WaitingEnded(r)
    BY <1>5 DEF Timed, Waiting, Unset, Passed
  <2>2. QED
    BY <1>3, <2>1
<1>6. CASE r.waiting # Passed
  <2>1. Timed(r, flagAway) = TimersAdvanced(r, flagAway)
        \/ Timed(r, flagAway) = r
    BY <1>6 DEF Timed
  <2>2. QED
    BY <1>4, <1>6, <2>1 DEF Types
<1>7. QED
  BY <1>5, <1>6

LEMMA RecreatedTyped ==
  ASSUME NEW r, RulesOK(r), mode \in Modes
  PROVE  Types(r, Recreated(r))
<1>1. Types(r, [r EXCEPT !.timers = AuthoredTimers, !.teams = AuthoredTeams])
  BY AuthoredOK, TimersTyped
<1>2. Types(r, r)
  BY DEF Types
<1>3. QED
  BY <1>1, <1>2 DEF Recreated

LEMMA SwitchedTyped ==
  ASSUME NEW r, RulesOK(r)
  PROVE  Types(r, Switched(r))
<1> DEFINE score == [t \in Teams |-> r.score[CHOOSE u \in Teams : u # t]]
<1>1. \A t \in Teams : (CHOOSE u \in Teams : u # t) \in Teams
  BY DEF Teams
<1>2. score \in [Teams -> 0..ScoreMax]
  BY <1>1 DEF RulesOK
<1>3. Switched(r) \in {r, [r EXCEPT !.switch = FALSE, !.score = score]}
  BY DEF Switched
<1> HIDE DEF score
<1>4. QED
  BY <1>2, <1>3 DEF Types, RulesOK, HasFields, Fields, TypedFields

LEMMA WinInputTyped ==
  ASSUME NEW r, NEW i, RulesOK(r)
  PROVE  Types(r, WinInput(r, i))
<1>1. Types(r, [r EXCEPT !.teams[i.target] = i.value]) /\ Types(r, r)
  BY DEF Types, RulesOK, HasFields, Fields, TypedFields
<1>2. Types(r, Stalemated(r))
  BY StalematedTyped
<1>3. r.teams[i.target] \in Teams =>
        Types(r, Won(r, r.teams[i.target], mode.wins[i.target].full,
                     mode.wins[i.target].switch))
  BY WonTyped
<1>4. QED
  BY <1>1, <1>2, <1>3 DEF WinInput

LEMMA TimerInputTyped ==
  ASSUME NEW r, NEW i \in mode.inputs, RulesOK(r), mode \in Modes,
         i.class = "team_round_timer"
  PROVE  Types(r, TimerInput(r, i))
<1> DEFINE t == r.timers[i.target]
           c == mode.timers[i.target]
           to(u) == [r EXCEPT !.timers[i.target] = u]
<1>1. ASSUME NEW u, i.target \in Indices => TimerOK(u, c)
      PROVE  Types(r, to(u))
  <2> DEFINE timers == [r.timers EXCEPT ![i.target] = u]
  <2>1. TimersOK(timers)
    BY <1>1 DEF RulesOK, TimersOK
  <2>2. to(u) = [r EXCEPT !.timers = timers]
    OBVIOUS
  <2> HIDE DEF timers
  <2>3. Types(r, [r EXCEPT !.timers = timers])
    BY <2>1, TimersTyped
  <2>4. QED
    BY <2>2, <2>3
<1>2. i.target \in Indices => TimerOK(t, c) /\ Declared(c)
  BY TimesDeclared DEF RulesOK, TimersOK
<1>3. i.input \in {"AddTime", "SetTime"} => i.value \in Int
  BY MapAssumption DEF MapAssumption
<1>4. Types(r, r)
  BY DEF Types
<1> HIDE DEF t, c
<1>5. i.input \in {"AddTime", "SetTime"} =>
        Types(r, to(AddTime(t, c, i.value)))
        /\ Types(r, to(SetTime(t, c, i.value)))
  BY <1>1, <1>2, <1>3, AddTimeOK, SetTimeOK
<1>6. Types(r, to(RoundSpawn(t, c, Waiting(r))))
  BY <1>1, <1>2, RoundSpawnOK
<1>7. Types(r, to(Pause(t))) /\ Types(r, to(Resume(t)))
  BY <1>1, <1>2, PauseOK, ResumeOK
<1>8. Types(r, to([t EXCEPT !.hud = i.value]))
  BY <1>1, <1>2, OtherFieldsOK
<1>9. Types(r, to([Pause(t) EXCEPT !.disabled = TRUE]))
  BY <1>1, <1>2, PauseOK, OtherFieldsOK
<1>10. Types(r, to(Resume([t EXCEPT !.disabled = FALSE])))
  BY <1>1, <1>2, ResumeOK, OtherFieldsOK
<1>11. /\ i.input \notin {"AddTime", "SetTime"} =>
            TimerInput(r, i) \in
              {to(RoundSpawn(t, c, Waiting(r))), to(Pause(t)), to(Resume(t)),
               to([t EXCEPT !.hud = i.value]),
               to([Pause(t) EXCEPT !.disabled = TRUE]),
               to(Resume([t EXCEPT !.disabled = FALSE])), r}
       /\ i.input \in {"AddTime", "SetTime"} =>
            TimerInput(r, i) \in
              {to(AddTime(t, c, i.value)), to(SetTime(t, c, i.value)), r}
  BY DEF TimerInput, t, c
<1> HIDE DEF to
<1>12. QED
  BY <1>4, <1>5, <1>6, <1>7, <1>8, <1>9, <1>10, <1>11

LEMMA ClockInputTyped ==
  ASSUME NEW r, NEW i, RulesOK(r), mode \in Modes
  PROVE  Types(r, ClockInput(r, i))
<1> DEFINE active == [j \in Indices |->
             IF j \notin Clocks THEN r.timers[j]
             ELSE IF j = i.target THEN Resume(r.timers[j])
             ELSE Pause(r.timers[j])]
           spawned == [j \in Indices |->
             IF j \in Clocks THEN AuthoredTimers[j] ELSE r.timers[j]]
<1>1. TimersOK(active)
  BY ResumeOK, PauseOK DEF RulesOK, TimersOK
<1>2. TimersOK(spawned)
  BY AuthoredOK DEF RulesOK, TimersOK
<1>3. ClockInput(r, i) \in
        {[r EXCEPT !.timers = active], [r EXCEPT !.timers = spawned], r}
  BY DEF ClockInput
<1> HIDE DEF active, spawned
<1>4. Types(r, [r EXCEPT !.timers = active])
  BY <1>1, TimersTyped
<1>5. Types(r, [r EXCEPT !.timers = spawned]) /\ Types(r, r)
  BY <1>2, TimersTyped DEF Types
<1>6. QED
  BY <1>3, <1>4, <1>5

-----------------------------------------------------------------------------
(* The types hold.                                                          *)

TypeInv ==
  /\ Inv /\ mode \in Modes /\ RulesOK(rules)
  /\ rules.waiting = Passed => at \in {"state", "timers"}

LEMMA InitTypes == Init => TypeInv
<1> SUFFICES ASSUME Init PROVE TypeInv
  OBVIOUS
<1>1. PICK active \in BOOLEAN :
        rules = [state |-> IF active THEN "Running" ELSE "Init",
                 timers |-> [i \in Indices |->
                   IF active /\ ~mode.timers[i].startPaused
                   THEN Resume(AuthoredTimers[i]) ELSE AuthoredTimers[i]],
                 transition |-> Unset, waiting |-> Unset,
                 waitingDone |-> active,
                 overtime |-> FALSE, winner |-> Undecided,
                 score |-> [t \in Teams |-> 0], capture |-> Passed,
                 fullReset |-> TRUE, switch |-> FALSE, respawn |-> "no",
                 teams |-> AuthoredTeams]
  BY DEF Init
<1> DEFINE timers == [i \in Indices |->
             IF active /\ ~mode.timers[i].startPaused
             THEN Resume(AuthoredTimers[i]) ELSE AuthoredTimers[i]]
<1>2. mode \in Modes
  BY DEF Init
<1>3. TimersOK(timers)
  BY <1>2, AuthoredOK, ResumeOK DEF TimersOK
<1>4. rules.timers = timers
  BY <1>1
<1> HIDE DEF timers
<1>5. RulesOK(rules)
  BY <1>1, <1>3, <1>4, RoundAssumption
     DEF RulesOK, HasFields, Fields, TypedFields, Unset, RoundAssumption
<1>6. rules.waiting = Unset
  BY <1>1
<1>7. QED
  BY <1>2, <1>5, <1>6, InitInv DEF TypeInv, Unset, Passed

\* A step of the session keeps the types of the fields, and the time of
\* waiting where that has a part of the tick of its own.
LEMMA NextTypes == TypeInv /\ [Next]_vars => TypeInv'
<1> SUFFICES ASSUME TypeInv, [Next]_vars PROVE TypeInv'
  OBVIOUS
<1>1. Inv /\ Inv' /\ mode \in Modes /\ RulesOK(rules)
  BY NextInv DEF TypeInv
<1>2. mode' = mode
  BY DEF Next, PassTime, AdvanceState, AdvanceTimers, Respawn, AtEnd, Win,
         SetStalemate, AddTeamScore, ApplyInput, vars
<1>3. RulesOK(rules') => RulesOK(rules)'
  BY <1>2 DEF RulesOK, TimersOK, Indices
<1>4. ASSUME Types(rules, rules'), at' = at \/ rules.waiting # Passed
      PROVE  TypeInv'
  BY <1>1, <1>2, <1>3, <1>4 DEF TypeInv, Types
<1>5. CASE PassTime
  BY <1>1, <1>2, <1>3, <1>5, TimePassedTyped DEF PassTime, TypeInv
<1>6. CASE AdvanceState
  <2>1. PICK players \in BOOLEAN, contested \in BOOLEAN :
          rules' = Changed(IF contested THEN Contested(rules) ELSE rules,
                           players)
    BY <1>6 DEF AdvanceState
  <2> DEFINE r == IF contested THEN Contested(rules) ELSE rules
  <2>2. RulesOK(r)
    BY <1>1 DEF Contested, RulesOK, HasFields, Fields, TypedFields
  <2>3. RulesOK(rules')
    BY <1>1, <2>1, <2>2, ChangedTyped
  <2>4. QED
    BY <1>1, <1>2, <1>3, <1>6, <2>3 DEF AdvanceState, TypeInv
<1>7. CASE AdvanceTimers
  BY <1>1, <1>2, <1>3, <1>7, TimedTyped DEF AdvanceTimers, TypeInv
<1>8. CASE Respawn
  <2>1. CASE rules.respawn = "no"
    BY <1>4, <1>8, <2>1 DEF Respawn, Types, TypeInv
  <2>2. CASE rules.respawn # "no"
    <3> DEFINE r == Recreated(rules)
               s == Switched(r)
    <3>1. rules' = [s EXCEPT !.respawn = "no"]
      BY <1>8, <2>2 DEF Respawn
    <3>2. Types(rules, r)
      BY <1>1, RecreatedTyped
    <3> HIDE DEF r
    <3>3. Types(r, s)
      BY <1>1, <3>2, SwitchedTyped DEF Types
    <3> HIDE DEF s
    <3>4. Types(rules, rules')
      BY <3>1, <3>2, <3>3
         DEF Types, RulesOK, HasFields, Fields, TypedFields
    <3>5. QED
      BY <1>4, <1>8, <3>4 DEF Respawn, TypeInv
  <2>3. QED
    BY <2>1, <2>2
<1>9. CASE Win
  BY <1>1, <1>4, <1>9, WonTyped DEF Win, AtEnd
<1>10. CASE SetStalemate
  BY <1>1, <1>4, <1>10, StalematedTyped DEF SetStalemate, AtEnd
<1>11. CASE AddTeamScore
  <2>1. PICK team \in Teams :
          rules' = [rules EXCEPT !.score = Plus(rules.score, team)]
    BY <1>11 DEF AddTeamScore
  <2> DEFINE score == Plus(rules.score, team)
  <2>2. score \in [Teams -> 0..ScoreMax]
    BY <1>1, PlusTyped DEF RulesOK
  <2> HIDE DEF score
  <2>3. Types(rules, rules')
    BY <2>1, <2>2 DEF Types, RulesOK, HasFields, Fields, TypedFields, score
  <2>4. QED
    BY <1>4, <1>11, <2>3 DEF AddTeamScore, AtEnd
<1>12. CASE ApplyInput
  <2>1. PICK i \in mode.inputs :
          rules' = CASE i.class = "game_round_win"   -> WinInput(rules, i)
                     [] i.class = "team_round_timer" -> TimerInput(rules, i)
                     [] i.class = "tf_logic_koth"    -> ClockInput(rules, i)
                     [] OTHER                        -> rules
    BY <1>12 DEF ApplyInput
  <2>2. /\ Types(rules, WinInput(rules, i))
        /\ Types(rules, ClockInput(rules, i))
        /\ i.class = "team_round_timer" => Types(rules, TimerInput(rules, i))
        /\ Types(rules, rules)
    BY <1>1, WinInputTyped, ClockInputTyped, TimerInputTyped DEF Types
  <2>3. Types(rules, rules')
    BY <2>1, <2>2
  <2>4. QED
    BY <1>4, <1>12, <2>3 DEF ApplyInput
<1>13. CASE UNCHANGED vars
  BY <1>4, <1>13 DEF vars, Types
<1>14. QED
  BY <1>5, <1>6, <1>7, <1>8, <1>9, <1>10, <1>11, <1>12, <1>13 DEF Next

\* The rules keep their types through every call and every input of a map,
\* the scores keep their 16 bits, the time of waiting is over within the tick
\* in which it passes, and no timer shows more than its maximum or the times
\* it starts with (Rules and Timer, round.rs).
THEOREM TypesHold == Spec => []TypeOK
<1>1. TypeInv => TypeOK
  <2> SUFFICES ASSUME TypeInv PROVE TypeOK
    OBVIOUS
  <2>1. \A i \in Indices :
          /\ rules.timers[i].left \in Int
          /\ rules.timers[i].think \in 0..ThinkTicks
          /\ mode.timers[i].maximum > 0 =>
               \E most \in {mode.timers[i].maximum, mode.timers[i].initial,
                            mode.timers[i].setup} :
                 rules.timers[i].left <= most
    BY DEF TypeInv, RulesOK, TimersOK, TimerOK, Shows
  <2>2. QED
    BY <2>1 DEF TypeInv, Inv, RulesOK, TimersOK, TypeOK
<1>2. QED
  BY <1>1, InitTypes, NextTypes, PTL DEF Spec
=============================================================================
