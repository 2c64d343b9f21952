-------------------------- MODULE RecordedTimeline --------------------------
(***************************************************************************)
(* What a replay session promises the presentation that consumes it: a     *)
(* tape of states that is recorded once, a head that rolls forward over it *)
(* or jumps, the state under the head, and the events between the place    *)
(* delivery last stopped and the head, each handed out once and in order   *)
(* and none of those a jump skipped.  Checkpoints, records inside a tick,  *)
(* the clock and the calls that move the head are left out.                *)
(***************************************************************************)
EXTENDS Integers, Sequences

CONSTANT Images,         \* what the tape can show
         EventsBefore(_) \* how many events lie before an image

VARIABLES tape,      \* the states in recorded order
          head,      \* the position shown, 0 while recording
          shown,     \* the state under the head
          sounded,   \* events handed out, or skipped, so far
          heard      \* the range of events handed out last

vars == << tape, head, shown, sounded, heard >>

Init == /\ tape = << >> /\ head = 0 /\ shown \in Images
        /\ sounded = 0 /\ heard = << 0, 0 >>

Record == /\ head = 0
          /\ Len(tape') = Len(tape) + 1
          /\ tape'[Len(tape')] \in Images
          /\ \A i \in DOMAIN tape : tape'[i] = tape[i]
          /\ UNCHANGED << head, shown, sounded, heard >>

\* The head is put at a place; whatever lies between is skipped, but nothing
\* it had rolled over is left undelivered.
Jump == /\ head # 0 => sounded = EventsBefore(shown)
        /\ head' \in 1..Len(tape)
        /\ shown' = tape[head']
        /\ sounded' = EventsBefore(shown')
        /\ heard' = << sounded', sounded' >>
        /\ UNCHANGED tape

Roll == /\ head # 0
        /\ head' \in head..Len(tape)
        /\ shown' = tape[head']
        /\ UNCHANGED << tape, sounded, heard >>

Deliver == /\ head # 0
           /\ sounded' = EventsBefore(shown)
           /\ heard' = << sounded, sounded' >>
           /\ UNCHANGED << tape, head, shown >>

Next == Record \/ Jump \/ Roll \/ Deliver

Spec == Init /\ [][Next]_vars
=============================================================================
