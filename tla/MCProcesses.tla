---------------------------- MODULE MCProcesses ----------------------------
(***************************************************************************)
(* For TLC: Processes with the values that a configuration cannot write.   *)
(***************************************************************************)
EXTENDS Processes

\* From -3, an adjustment by 2 leads to the value -1, and 17 is near the limit.
MCNices == {-3, 17}
MCAdjs  == {-2, 2}
=============================================================================
