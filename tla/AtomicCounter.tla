--------------------------- MODULE AtomicCounter ---------------------------
(***************************************************************************)
(* What advanced_io/mmap.c promises of the integer that a parent and its   *)
(* child share: the increment under the semaphore behaves as if a process  *)
(* took the next number and printed it in one indivisible step.            *)
(* SharedCounter is shown to implement this specification.                 *)
(***************************************************************************)
EXTENDS Naturals, Sequences

CONSTANTS Procs,  \* the processes that take numbers
          NLoop   \* how many numbers each of them takes

VARIABLES out,    \* what has been printed, in the order it was printed
          taken   \* taken[p]: how many numbers p has taken

absvars == <<out, taken>>

Init == /\ out = <<>>
        /\ taken = [p \in Procs |-> 0]

\* p takes the next number and prints it, in one step.
Take(p) == /\ taken[p] < NLoop
           /\ out' = Append(out, [by |-> p, val |-> Len(out)])
           /\ taken' = [taken EXCEPT ![p] = @ + 1]

Next == \E p \in Procs : Take(p)

Spec == Init /\ [][Next]_absvars
=============================================================================
