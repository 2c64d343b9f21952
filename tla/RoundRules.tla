----------------------------- MODULE RoundRules -----------------------------
(***************************************************************************)
(* The rules of a round (games/tf2/rust/src/round.rs) as the game session  *)
(* drives them: the states from the lobby through waiting for players, the *)
(* preround, play, overtime, victory and its bonus time, the round timers  *)
(* and King of the Hill clocks, and the inputs by which a map changes them.*)
(*                                                                         *)
(* Time is counted in ticks.  The code keeps the time at which something   *)
(* is due; the model keeps the ticks to go, -1 when it has passed (Passed) *)
(* and Unset when there is none.  A tick of the game has four steps: time  *)
(* passes, the two halves of advance(), and what the session does when a   *)
(* round begins.  The map's inputs come between the first two and at the   *)
(* end of the tick, the decisions of the objectives at its end.            *)
(*                                                                         *)
(* Respawn waves, the announcements at fixed times, the list of cappers    *)
(* and the number of rounds, which the states do not depend on, are left   *)
(* out; of a win reason it matters only whether it is 0.  score_per_round  *)
(* and stalemate_enabled have their default values, TRUE and FALSE, which  *)
(* nothing in the program changes: a draw ends the round, and              *)
(* State::Stalemate is never entered.                                      *)
(***************************************************************************)
EXTENDS Integers, Sequences

CONSTANTS
  Modes,           \* configurations of a map
  WaitingTicks,    \* waiting_seconds, or 0 for a map that does not wait
  PreroundTicks,   \* preround_seconds
  BonusTicks,      \* bonus_seconds, at least 5 seconds
  ThinkTicks,      \* 0.05 s
  GraceTicks,      \* 0.1 s, how long a capture counts as in progress
  Second,          \* ticks in a second
  ScoreMax,        \* 2^16 - 1
  MaxDebt          \* bound: ticks counted after a timer has run out

Teams == {"Red", "Blue"}
Nobody == "Nobody"
Undecided == "Undecided"
Unset == -2
Passed == -1

RoundAssumption ==
  /\ PreroundTicks \in Nat /\ BonusTicks \in Nat
  /\ WaitingTicks \in Nat /\ ThinkTicks \in Nat /\ GraceTicks \in Nat
  /\ Second \in Nat \ {0} /\ ScoreMax \in Nat /\ MaxDebt \in Nat
ASSUME RoundAssumption

\* The times that a map declares are any numbers.
MapAssumption ==
  \A m \in Modes :
    /\ \A i \in DOMAIN m.timers :
         /\ m.timers[i].initial \in Int /\ m.timers[i].setup \in Int
         /\ m.timers[i].maximum \in Int
    /\ \A i \in m.inputs :
         i.class = "team_round_timer" /\ i.input \in {"AddTime", "SetTime"}
           => i.value \in Int
ASSUME MapAssumption

VARIABLES
  mode,     \* Configuration
  rules,    \* the fields of Rules
  at        \* the step that comes next: "time", "state", "timers", "respawn"

vars == << mode, rules, at >>

----------------------------------------------------------------------------
(* Timers.  left is what end_time or paused_remaining stand for.           *)

TimerAt(c, hud) ==
  LET left == IF c.setup > 0 THEN c.setup ELSE c.initial
  IN  [hud |-> hud, setup |-> c.setup > 0, left |-> left, paused |-> TRUE,
       disabled |-> FALSE, finished |-> left <= 0, think |-> ThinkTicks,
       after |-> c.initial]

Remaining(t) == IF t.left > 0 THEN t.left ELSE 0

\* To whole seconds, towards zero.
Truncated(n) == IF n >= 0 THEN (n \div Second) * Second
                ELSE -(((-n) \div Second) * Second)

\* Time passes for a timer that is not paused.
Elapsed(t) ==
  [t EXCEPT !.left = IF t.paused \/ @ <= -MaxDebt THEN @ ELSE @ - 1,
            !.think = IF @ > 0 THEN @ - 1 ELSE 0]

Pause(t) == IF t.disabled THEN t ELSE [t EXCEPT !.paused = TRUE]
Resume(t) == IF t.disabled THEN t ELSE [t EXCEPT !.paused = FALSE]

WithLeft(t, left) == [t EXCEPT !.left = left, !.finished = left <= 0]

SetTime(t, c, time) ==
  IF t.disabled THEN t
  ELSE WithLeft(t, IF c.maximum > 0 /\ time > c.maximum THEN c.maximum
                   ELSE time)

\* Variant: the maximum is compared with what is added only.
AddTimeUnclamped(t, c, time) ==
  IF t.disabled THEN t
  ELSE WithLeft(t, t.left + IF c.maximum > 0 /\ time > c.maximum
                            THEN c.maximum ELSE time)

\* What goes beyond the maximum is cut to whole seconds.
AddTime(t, c, time) ==
  IF t.disabled THEN t
  ELSE WithLeft(t, t.left +
         IF c.maximum > 0 /\ Remaining(t) + time > c.maximum
         THEN Truncated(c.maximum - Remaining(t)) ELSE time)

\* The time that is left goes on only after setup, and only in a timer that
\* does not start anew with every round.
RoundSpawn(t, c, waiting) ==
  LET after == IF ~c.reset /\ ~t.setup THEN Truncated(Remaining(t))
               ELSE c.initial
      spawned == [t EXCEPT !.after = after, !.setup = c.setup > 0]
      timed == SetTime(spawned, c, IF c.setup > 0 THEN c.setup ELSE after)
  IN  IF ~c.startPaused /\ ~waiting THEN Resume(timed) ELSE timed

\* timer.reset(): its place in the HUD is as the map has left it.
ResetTimer(t, c) == TimerAt(c, t.hud)

Indices == DOMAIN mode.timers

\* The entities of the map as it declares them.
AuthoredTimers ==
  [i \in Indices |-> TimerAt(mode.timers[i], mode.timers[i].hud)]
AuthoredTeams == [w \in DOMAIN mode.wins |-> mode.wins[w].team]

\* The clocks of the two teams come after the timers of the map.
Clocks == {i \in Indices : mode.koth /\ i > Len(mode.timers) - 2}

----------------------------------------------------------------------------
(* States of a round.                                                      *)

Later(due) == IF due >= 0 THEN due - 1 ELSE due

Waiting(r) == r.waiting # Unset

EnterPreround(r, full) ==
  [r EXCEPT
     !.timers = [i \in Indices |->
       IF mode.timers[i].reset \/ full THEN ResetTimer(@[i], mode.timers[i])
       ELSE @[i]],
     !.state = "Preround", !.transition = PreroundTicks,
     !.winner = Undecided, !.overtime = FALSE,
     !.respawn = IF full \/ @ = "full" THEN "full" ELSE "part"]

Plus(score, team) ==
  [t \in Teams |-> IF t = team /\ score[t] < ScoreMax THEN score[t] + 1
                   ELSE score[t]]

\* Variant: a second victory in the bonus time counts.
WonAgain(r, team, full, switch) ==
  [r EXCEPT
     !.timers = [i \in Indices |-> Pause(@[i])],
     !.state = "TeamWin", !.transition = BonusTicks, !.winner = team,
     !.fullReset = full, !.switch = switch,
     !.score = IF full THEN Plus(@, team) ELSE @]

\* win_with_reset(): the first one decides.
Won(r, team, full, switch) ==
  IF r.state = "TeamWin" THEN r
  ELSE [r EXCEPT
          !.timers = [i \in Indices |-> Pause(@[i])],
          !.state = "TeamWin", !.transition = BonusTicks, !.winner = team,
          !.fullReset = full, !.switch = switch,
          !.score = IF full THEN Plus(@, team) ELSE @]

\* set_stalemate(): a draw.
Stalemated(r) == Won(r, Nobody, TRUE, FALSE)

----------------------------------------------------------------------------
(* advance().                                                              *)

TimePassed(r) ==
  [r EXCEPT
     !.timers = [i \in Indices |-> Elapsed(@[i])],
     !.transition = Later(@), !.waiting = Later(@), !.capture = Later(@)]

Contested(r) == [r EXCEPT !.capture = GraceTicks]

StartWaiting(r) ==
  IF ~r.waitingDone /\ WaitingTicks > 0
  THEN [r EXCEPT !.waiting = WaitingTicks] ELSE r

\* The timers stand still while players are waited for.
Activate(r) ==
  [r EXCEPT
     !.timers = [i \in Indices |->
       IF Waiting(r) \/ mode.timers[i].startPaused THEN @[i]
       ELSE Resume(@[i])],
     !.state = "Running"]

Changed(r, players) ==
  CASE r.state = "Init" -> [r EXCEPT !.state = "Pregame"]
    [] r.state = "Pregame" /\ players ->
         [r EXCEPT !.state = "StartGame", !.transition = 0]
    [] r.state = "StartGame" /\ r.transition = Passed ->
         EnterPreround(StartWaiting(r), FALSE)
    [] r.state = "Preround" /\ r.transition = Passed -> Activate(r)
    [] r.state = "Running" /\ ~players ->
         [r EXCEPT !.state = "Pregame"]
    [] r.state = "TeamWin" /\ r.transition = Passed ->
         EnterPreround(r, r.fullReset)
    [] OTHER -> r

\* A timer thinks every 0.05 s, unless it stands still.
Thinks(t) == t.think = 0 /\ ~t.paused /\ ~t.disabled

RunOut(t) == Thinks(t) /\ t.left <= 0 /\ ~t.finished

MayExpire(r, flagAway) == r.capture = Passed /\ ~flagAway

Thought(t, c, mayExpire) ==
  LET thinking == IF t.think = 0 THEN [t EXCEPT !.think = ThinkTicks] ELSE t
  IN  CASE ~RunOut(t) -> thinking
        [] RunOut(t) /\ t.setup ->
             SetTime([thinking EXCEPT !.setup = FALSE], c, t.after)
        [] RunOut(t) /\ ~t.setup /\ mayExpire ->
             [thinking EXCEPT !.finished = TRUE]
        [] OTHER -> [thinking EXCEPT !.left = 0]

\* Overtime is what the last timer says that has anything to say of it.
Overtime(r, mayExpire) ==
  LET raises(i) == /\ RunOut(r.timers[i]) /\ ~r.timers[i].setup
                   /\ r.timers[i].hud /\ ~mayExpire
      clears(i) == /\ Thinks(r.timers[i])
                   /\ \/ r.timers[i].setup
                      \/ r.timers[i].hud /\ r.timers[i].left > 0
      says == {i \in Indices : raises(i) \/ clears(i)}
  IN  IF says = {} THEN r.overtime
      ELSE raises(CHOOSE i \in says : \A j \in says : j <= i)

\* When a timer has finished, the map decides, or the defenders have won.
TimersAdvanced(r, flagAway) ==
  LET mayExpire == MayExpire(r, flagAway)
      thinking == [r EXCEPT
        !.timers =
          [i \in Indices |-> Thought(@[i], mode.timers[i], mayExpire)],
        !.overtime = Overtime(r, mayExpire)]
      finished == \E i \in Indices : /\ RunOut(r.timers[i])
                                     /\ ~r.timers[i].setup /\ mayExpire
  IN  IF ~finished \/ mode.koth \/ mode.wins # << >> THEN thinking
      ELSE IF mode.defending \in Teams
           THEN Won(thinking, mode.defending, TRUE, FALSE)
      ELSE thinking

\* Variant: the time of waiting is not forgotten.
WaitingNeverEnded(r) == EnterPreround([r EXCEPT !.waitingDone = TRUE], TRUE)

\* The end of waiting begins a round anew, whatever the state.
WaitingEnded(r) ==
  EnterPreround([r EXCEPT !.waiting = Unset, !.waitingDone = TRUE], TRUE)

\* The timers count while nobody is waited for.
Timed(r, flagAway) ==
  CASE r.waiting = Passed -> WaitingEnded(r)
    [] ~Waiting(r) /\ r.state \in {"Running", "Preround"} ->
         TimersAdvanced(r, flagAway)
    [] OTHER -> r

----------------------------------------------------------------------------
(* What the session does when a round begins.                              *)

\* recreate_map_entities(), in a map of control points.
Recreated(r) ==
  IF mode.points /\ (r.respawn = "full" \/ ~mode.mini)
  THEN [r EXCEPT !.timers = AuthoredTimers, !.teams = AuthoredTeams]
  ELSE r

\* take_team_switch()
Switched(r) ==
  IF r.switch
  THEN [r EXCEPT !.switch = FALSE,
          !.score = [t \in Teams |-> @[CHOOSE u \in Teams : u # t]]]
  ELSE r

----------------------------------------------------------------------------
(* Inputs of the map.                                                      *)

\* A victory of a team for no reason is refused.
WinInput(r, i) ==
  LET team == r.teams[i.target]
      w == mode.wins[i.target]
  IN  CASE i.input = "SetTeam"  -> [r EXCEPT !.teams[i.target] = i.value]
        [] i.input = "RoundWin" ->
             IF team \notin Teams THEN Stalemated(r)
             ELSE IF w.reason = 0 THEN r
             ELSE Won(r, team, w.full, w.switch)
        [] OTHER -> r

Adjustable(r) == r.state \in {"Running", "TeamWin"}

TimerInput(r, i) ==
  LET t == r.timers[i.target]
      c == mode.timers[i.target]
      to(u) == [r EXCEPT !.timers[i.target] = u]
  IN  CASE i.input = "AddTime"    ->
             IF Adjustable(r) THEN to(AddTime(t, c, i.value)) ELSE r
        [] i.input = "RoundSpawn" -> to(RoundSpawn(t, c, Waiting(r)))
        [] i.input = "Pause"      -> to(Pause(t))
        [] i.input = "Resume"     -> to(Resume(t))
        [] i.input = "SetTime"    -> to(SetTime(t, c, i.value))
        [] i.input = "ShowInHUD"  -> to([t EXCEPT !.hud = i.value])
        [] i.input = "Disable"    -> to([Pause(t) EXCEPT !.disabled = TRUE])
        [] i.input = "Enable"     -> to(Resume([t EXCEPT !.disabled = FALSE]))
        [] OTHER                  -> r

\* The clock of a team runs, the other one stands; or both start anew.
ClockInput(r, i) ==
  CASE i.input = "SetClockActive" ->
         [r EXCEPT !.timers = [j \in Indices |->
            IF j \notin Clocks THEN @[j]
            ELSE IF j = i.target THEN Resume(@[j]) ELSE Pause(@[j])]]
    [] i.input = "RoundSpawn" ->
         [r EXCEPT !.timers = [j \in Indices |->
            IF j \in Clocks THEN AuthoredTimers[j] ELSE @[j]]]
    [] OTHER -> r

----------------------------------------------------------------------------
(* The session.                                                            *)

\* new(), or active() for a map that is played without rounds.
Init ==
  /\ mode \in Modes
  /\ \E active \in BOOLEAN :
       rules = [state |-> IF active THEN "Running" ELSE "Init",
                timers |-> [i \in Indices |->
                  IF active /\ ~mode.timers[i].startPaused
                  THEN Resume(AuthoredTimers[i]) ELSE AuthoredTimers[i]],
                transition |-> Unset, waiting |-> Unset,
                waitingDone |-> active,
                overtime |-> FALSE, winner |-> Undecided,
                score |-> [t \in Teams |-> 0], capture |-> Passed,
                fullReset |-> TRUE, switch |-> FALSE, respawn |-> "no",
                teams |-> AuthoredTeams]
  /\ at = "time"

PassTime ==
  /\ at = "time" /\ at' = "state"
  /\ rules' = TimePassed(rules)
  /\ UNCHANGED mode

AdvanceState ==
  /\ at = "state" /\ at' = "timers"
  /\ \E players, contested \in BOOLEAN :
       rules' = Changed(IF contested THEN Contested(rules) ELSE rules, players)
  /\ UNCHANGED mode

AdvanceTimers ==
  /\ at = "timers" /\ at' = "respawn"
  /\ \E flagAway \in BOOLEAN : rules' = Timed(rules, flagAway)
  /\ UNCHANGED mode

Respawn ==
  /\ at = "respawn" /\ at' = "time"
  /\ rules' = IF rules.respawn = "no" THEN rules
              ELSE [Switched(Recreated(rules)) EXCEPT !.respawn = "no"]
  /\ UNCHANGED mode

AtEnd == at = "time" /\ UNCHANGED << mode, at >>

\* The objectives call win() for flags and points, with or without a reset.
Win ==
  /\ AtEnd
  /\ \E team \in Teams, full \in BOOLEAN, switch \in BOOLEAN :
       rules' = Won(rules, team, full, switch)

SetStalemate == AtEnd /\ rules' = Stalemated(rules)

AddTeamScore ==
  /\ AtEnd
  /\ \E team \in Teams : rules' = [rules EXCEPT !.score = Plus(@, team)]

ApplyInput ==
  /\ at \in {"time", "state"} /\ UNCHANGED << mode, at >>
  /\ \E i \in mode.inputs :
       rules' = CASE i.class = "game_round_win"   -> WinInput(rules, i)
                  [] i.class = "team_round_timer" -> TimerInput(rules, i)
                  [] i.class = "tf_logic_koth"    -> ClockInput(rules, i)
                  [] OTHER                        -> rules

Next ==
  \/ PassTime
  \/ AdvanceState
  \/ AdvanceTimers
  \/ Respawn
  \/ Win
  \/ SetStalemate
  \/ AddTeamScore
  \/ ApplyInput

Spec == Init /\ [][Next]_vars

\* The session advances the rules in every tick.
FairSpec ==
  /\ Spec
  /\ WF_vars(PassTime) /\ WF_vars(AdvanceState)
  /\ WF_vars(AdvanceTimers) /\ WF_vars(Respawn)

----------------------------------------------------------------------------
(* Properties.                                                             *)

TimedStates == {"StartGame", "Preround", "TeamWin"}
States == TimedStates \cup {"Init", "Pregame", "Running"}

\* Every field has its type, and a timer never shows more than its maximum,
\* or than the times it starts with, which the map may declare beyond it.
TypeOK ==
  /\ rules.state \in States
  /\ at \in {"time", "state", "timers", "respawn"}
  /\ rules.winner \in Teams \cup {Nobody, Undecided}
  /\ \A t \in Teams : rules.score[t] \in 0..ScoreMax
  /\ rules.transition \in Int /\ rules.transition >= Unset
  /\ rules.waiting \in Int /\ rules.waiting >= Unset
  /\ rules.waiting = Passed => at \in {"state", "timers"}
  /\ rules.respawn \in {"no", "part", "full"}
  /\ rules.respawn # "no" => at \in {"timers", "respawn"}
  /\ DOMAIN rules.timers = Indices
  /\ \A i \in Indices :
       LET t == rules.timers[i]
           c == mode.timers[i]
       IN  /\ t.left \in Int /\ t.think \in 0..ThinkTicks
           /\ c.maximum > 0 =>
                \E most \in {c.maximum, c.initial, c.setup} : t.left <= most

\* A phase of the round that has a time of its own ends, whatever else
\* happens meanwhile: every call may set another phase and another time, and
\* the players may leave.
PhasesEnd ==
  \A state \in TimedStates : rules.state = state ~> rules.state # state

Stage ==
  CASE rules.state \in {"Init", "Pregame", "StartGame"} -> "lobby"
    [] rules.state = "Preround"  -> "prepare"
    [] rules.state = "Running"   -> "play"
    [] rules.state = "TeamWin"   -> "decided"

Cycle == INSTANCE RoundCycle
  WITH stage <- Stage, winner <- rules.winner, score <- rules.score

\* The rounds follow each other in order, whichever deadlines fall together
\* and whoever else claims the victory, and the score follows the decisions.
ImplementsRoundCycle == Cycle!Spec
=============================================================================
