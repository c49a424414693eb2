----------------------------- MODULE LineQueue -----------------------------
(***************************************************************************)
(* What interprocess_communication/sv_msq.c promises of its lines: those a *)
(* process accepts from its standard input it delivers to its standard     *)
(* output in the same order, none of them twice and none before the next   *)
(* one has been accepted.  It may stop at any time, so that the last ones  *)
(* are not delivered.  MsgQueue is shown to implement this specification.  *)
(***************************************************************************)
EXTENDS Naturals, Sequences

CONSTANTS Users,    \* the processes
          Line      \* what they accept

VARIABLES accepted,   \* accepted[p]: the lines that p has accepted
          delivered   \* delivered[p]: those it has delivered

absvars == <<accepted, delivered>>

Init == /\ accepted  = [p \in Users |-> <<>>]
        /\ delivered = [p \in Users |-> <<>>]

Accept(p, line) == /\ accepted' = [accepted EXCEPT ![p] = Append(@, line)]
                   /\ UNCHANGED delivered

\* The next line that has not been delivered.
Deliver(p) ==
  LET next == Len(delivered[p]) + 1
  IN  /\ next \in DOMAIN accepted[p]
      /\ delivered' = [delivered EXCEPT ![p] = Append(@, accepted[p][next])]
      /\ UNCHANGED accepted

Next == \E p \in Users : Deliver(p) \/ \E line \in Line : Accept(p, line)

Spec == Init /\ [][Next]_absvars
=============================================================================
