--------------------------- MODULE MCProfileLock ---------------------------
(* Small instances of the headed-profile lock for TLC.  The runners of a    *)
(* run that checks no liveness are interchangeable.                         *)
EXTENDS ProfileLock, TLC

RunnerSymmetry == Permutations(Runners)
=============================================================================
