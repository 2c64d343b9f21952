---------------------------- MODULE PhasedWorld ----------------------------
(***************************************************************************)
(* What the entity world promises the game that drives it: a world that    *)
(* changes by whole phases.  A phase raises the revision by one, never     *)
(* turns the tick back and never forgets a removed handle; a phase that    *)
(* services events leaves none of them due.  Whatever fails changes        *)
(* nothing, of the tick, the entities or the events.  Only the game itself *)
(* may discard the events that wait.                                       *)
(***************************************************************************)
EXTENDS Integers

VARIABLES tick,      \* the tick of the last phase
          revision,  \* phases so far
          entities,  \* the entities and their handles
          events,    \* the events that wait, each with a due tick
          dead       \* the handles removed so far

vars == << tick, revision, entities, events, dead >>

Init == tick = 0 /\ revision = 1 /\ dead = {}

Commit == /\ tick' >= tick
          /\ revision' = revision + 1
          /\ dead \subseteq dead'

\* A phase of the simulation; every event has one, however late it is.
Phase == Commit /\ \A e \in events' : ~(e.due <= tick')

\* Console input is queued between phases and not serviced.
Enqueue == Commit /\ events \subseteq events'

DiscardEvents == /\ events' = {}
                 /\ UNCHANGED << tick, revision, entities, dead >>

Next == Phase \/ Enqueue \/ DiscardEvents

Spec == Init /\ [][Next]_vars
=============================================================================
