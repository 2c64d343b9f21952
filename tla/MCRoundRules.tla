--------------------------- MODULE MCRoundRules ---------------------------
(* Three maps: an attack on points that are defended until a timer with a   *)
(* setup time ends, a King of the Hill with a timer beside its clocks, and  *)
(* a map that ends its rounds by itself.                                    *)
EXTENDS RoundRules

TimerOf(initial, setup, maximum, hud, startPaused, reset) ==
  [initial |-> initial, setup |-> setup, maximum |-> maximum, hud |-> hud,
   startPaused |-> startPaused, reset |-> reset]
In(class, target, input, value) ==
  [class |-> class, target |-> target, input |-> input, value |-> value]

Attack ==
  [timers |-> << TimerOf(2, 1, 3, TRUE, FALSE, TRUE) >>, koth |-> FALSE,
   defending |-> "Red", wins |-> << >>,
   points |-> TRUE, mini |-> TRUE,
   inputs |-> {In("team_round_timer", 1, "AddTime", 2),
               In("team_round_timer", 1, "RoundSpawn", 0),
               In("team_round_timer", 1, "Pause", 0),
               In("team_round_timer", 1, "Resume", 0),
               In("team_round_timer", 1, "ShowInHUD", FALSE)}]

Hill ==
  [timers |-> << TimerOf(1, 0, 0, FALSE, TRUE, FALSE),
                 TimerOf(2, 0, 0, TRUE, TRUE, TRUE),
                 TimerOf(1, 0, 0, TRUE, TRUE, TRUE) >>, koth |-> TRUE,
   defending |-> Nobody, wins |-> << >>,
   points |-> TRUE, mini |-> FALSE,
   inputs |-> {In("tf_logic_koth", 2, "SetClockActive", 0),
               In("tf_logic_koth", 3, "SetClockActive", 0),
               In("tf_logic_koth", 2, "RoundSpawn", 0)}]

Scripted ==
  [timers |-> << TimerOf(2, 0, 1, FALSE, TRUE, FALSE) >>, koth |-> FALSE,
   defending |-> Nobody,
   wins |-> << [team |-> Nobody, full |-> FALSE, switch |-> TRUE, reason |-> 1],
               [team |-> "Red", full |-> TRUE, switch |-> FALSE, reason |-> 0] >>,
   points |-> FALSE, mini |-> TRUE,
   inputs |-> {In("game_round_win", 1, "SetTeam", "Blue"),
               In("game_round_win", 1, "RoundWin", 0),
               In("game_round_win", 1, "SetTeam", Nobody),
               In("game_round_win", 2, "RoundWin", 0),
               In("team_round_timer", 1, "SetTime", 2),
               In("team_round_timer", 1, "AddTime", 1),
               In("team_round_timer", 1, "Enable", 0),
               In("team_round_timer", 1, "Disable", 0)}]

MCModes == {Attack, Hill, Scripted}
=============================================================================
