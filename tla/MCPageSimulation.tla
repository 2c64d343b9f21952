-------------------------- MODULE MCPageSimulation --------------------------
(* Two maps, the second of which may supersede the first at any await.      *)
EXTENDS PageSimulation
=============================================================================
