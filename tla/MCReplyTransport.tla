-------------------------- MODULE MCReplyTransport --------------------------
(* Small instances of the reply mailbox for TLC.                            *)
EXTENDS ReplyTransport
=============================================================================
