-------------------------- MODULE MCSharedCounter --------------------------
(* The instance of SharedCounter that TLC checks. *)
EXTENDS SharedCounter

\* Three iterations of each process: a first one, a last one, and one between.
MCNLoop == 3
=============================================================================
