---------------------------- MODULE RoundCycle ----------------------------
(***************************************************************************)
(* What the rest of the game relies on in the rules of a round: the order  *)
(* of its stages, that a round once decided stays decided, with the same   *)
(* winner, until the next one is prepared, and that a score changes by     *)
(* the decision of a round, by a bonus, or by a change of sides.           *)
(***************************************************************************)
EXTENDS Naturals

CONSTANTS
  Teams,
  Nobody,      \* the winner of a draw
  Undecided,
  ScoreMax

VARIABLES stage, winner, score

Scored(team) ==
  [t \in Teams |-> IF t = team /\ score[t] < ScoreMax THEN score[t] + 1
                   ELSE score[t]]

Init ==
  /\ stage \in {"lobby", "play"}
  /\ winner = Undecided
  /\ score = [t \in Teams |-> 0]

\* Players gather in the lobby, and a round is prepared for them.
Prepare ==
  /\ stage' = "prepare" /\ winner' = Undecided
  /\ UNCHANGED score

Play ==
  /\ stage = "prepare" /\ stage' = "play"
  /\ UNCHANGED << winner, score >>

\* The last player has left.
Empty ==
  /\ stage = "play" /\ stage' = "lobby"
  /\ UNCHANGED << winner, score >>

Decide ==
  /\ stage # "decided" /\ stage' = "decided"
  /\ winner' \in Teams \cup {Nobody}
  /\ score' \in {score, Scored(winner')}

Bonus ==
  /\ \E team \in Teams : score' = Scored(team)
  /\ UNCHANGED << stage, winner >>

\* The teams change sides between two rounds.
Swap ==
  /\ stage \in {"prepare", "decided"}
  /\ \E sides \in [Teams -> Teams] :
       /\ \A s, t \in Teams : sides[s] = sides[t] => s = t
       /\ score' = [t \in Teams |-> score[sides[t]]]
  /\ UNCHANGED << stage, winner >>

Next == Prepare \/ Play \/ Empty \/ Decide \/ Bonus \/ Swap

Spec == Init /\ [][Next]_<< stage, winner, score >>
=============================================================================
