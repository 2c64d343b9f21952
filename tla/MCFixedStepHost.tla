-------------------------- MODULE MCFixedStepHost --------------------------
(* Small instances of the fixed-step host for TLC.                          *)
EXTENDS FixedStepHost

\* Clock samples whose differences are inside and above the elapsed filter,
\* and which can go backwards.
MCSamples == {0, 1, 5}

\* Two ticks' worth of time forward, and its reversal, which is one.
MCTwoSamples == {0, 4}
=============================================================================
