----------------------------- MODULE ReplyFifo -----------------------------
(***************************************************************************)
(* What the reply mailbox promises the client of the gameplay worker: one  *)
(* queue for shared replies and structured-clone controls alike.  Replies  *)
(* are delivered in the order they were published, each once, whichever    *)
(* way it travelled, and none after the reader was closed.                 *)
(***************************************************************************)
EXTENDS Naturals, Sequences

CONSTANT Replies

VARIABLES
  queue,    \* published and not yet delivered
  closed    \* the reader was closed

Init == queue = << >> /\ closed = FALSE

\* The worker publishes a reply, also one it prepared before it saw the close.
Publish(reply) ==
  /\ queue' = Append(queue, reply)
  /\ UNCHANGED closed

\* The oldest reply reaches the client.
Deliver ==
  /\ ~closed
  /\ queue # << >>
  /\ queue' = Tail(queue)
  /\ UNCHANGED closed

Close ==
  /\ ~closed
  /\ closed' = TRUE
  /\ UNCHANGED queue

Next == (\E reply \in Replies : Publish(reply)) \/ Deliver \/ Close

Spec == Init /\ [][Next]_<< queue, closed >>
=============================================================================
