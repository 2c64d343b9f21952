----------------------------- MODULE TickStream -----------------------------
(***************************************************************************)
(* What the fixed-step host promises the presentation that drains it,      *)
(* without its limits, counters, commands and partial progress: host       *)
(* frames are owed ticks in the order they were selected, each is          *)
(* completed in one atomic step that extends the tick stream without a gap *)
(* and under the pause setting it was selected with, and the consumer      *)
(* takes what has been completed.  The host may stop at any time; what was *)
(* completed until then can still be delivered.                            *)
(***************************************************************************)
EXTENDS Integers, Sequences

CONSTANT MaxTicks  \* the most ticks one frame may select

VARIABLES running, paused, selected_frame, owed, tick, stream

vars == << running, paused, selected_frame, owed, tick, stream >>

Init == /\ running = TRUE /\ paused = FALSE
        /\ selected_frame = 0 /\ owed = << >> /\ tick = 0 /\ stream = << >>

Pause == /\ running
         /\ paused' \in BOOLEAN
         /\ UNCHANGED << running, selected_frame, owed, tick, stream >>

\* A host frame selects some ticks, or none and is owed nothing.
Select ==
  /\ running
  /\ selected_frame' = selected_frame + 1
  /\ \E n \in 0..MaxTicks :
       owed' = IF n = 0 THEN owed
               ELSE Append(owed, [sequence |-> selected_frame',
                                  selected_ticks |-> n, simulating |-> ~paused])
  /\ UNCHANGED << paused, tick, stream >>
  /\ running' \in BOOLEAN

Complete ==
  /\ running
  /\ owed # << >>
  /\ LET f == Head(owed)
     IN  /\ tick' = tick + f.selected_ticks
         /\ stream' = Append(stream, [host_frame |-> f.sequence,
                                      first |-> tick + 1, last |-> tick',
                                      ticks |-> [i \in 1..f.selected_ticks |->
                                                   tick + i],
                                      simulating |-> f.simulating])
  /\ owed' = Tail(owed)
  /\ UNCHANGED << running, paused, selected_frame >>

Deliver == /\ stream' = << >>
           /\ UNCHANGED << running, paused, selected_frame, owed, tick >>

\* A fault abandons at most the frame being executed; closing clears all.
Stop ==
  /\ running' = FALSE
  /\ owed' \in {owed, << >>} \cup (IF owed = << >> THEN {} ELSE {Tail(owed)})
  /\ tick' >= tick
  /\ stream' \in {stream, << >>}
  /\ UNCHANGED << paused, selected_frame >>

Next == Pause \/ Select \/ Complete \/ Deliver \/ Stop

Spec == Init /\ [][Next]_vars
=============================================================================
