----------------------------- MODULE MCMsgQueue -----------------------------
(* The instance of MsgQueue that TLC checks. *)
EXTENDS MsgQueue

CONSTANTS p1, p2

\* Two processes: the second may meet the queue that the first has left.
MCProcs == {p1, p2}
=============================================================================
