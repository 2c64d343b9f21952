-------------------------- MODULE MCGameplayWorker --------------------------
(* A small instance of the worker protocol for TLC.                         *)
EXTENDS GameplayWorker

CONSTANT s1
MCLeaseSlots == {s1}
=============================================================================
