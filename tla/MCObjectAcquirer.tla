-------------------------- MODULE MCObjectAcquirer --------------------------
(* A small instance of the object acquirer for TLC.                         *)
EXTENDS ObjectAcquirer
=============================================================================
