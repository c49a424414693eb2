----------------------------- MODULE Accounting -----------------------------
(***************************************************************************)
(* process_control/test_process_account.c: a chain of five processes, each *)
(* the parent of the next, that end in different ways at different times,  *)
(* and show_process_account.c, which prints the accounting records that    *)
(* the kernel writes when a process ends.  The fifth process is the        *)
(* innermost one, which kills itself.                                      *)
(*                                                                         *)
(* With prompt = TRUE time passes only while all of them sleep, as on an   *)
(* idle machine; with prompt = FALSE a sleep may end at any time.          *)
(***************************************************************************)
EXTENDS Naturals, Sequences

VARIABLES
  prompt, now,
  mpc,          \* where main of show_process_account.c is
  cores,        \* does abort leave a core file?
  flagged,      \* do the records have the flags ACORE and AXSIG?
  pc, wake,     \* pc[i], wake[i]: where process i is, when its sleep ends
  acct,         \* the records in the file
  shown         \* what show_process_account.c has printed

\* What the chain, the clock and a line that is printed leave as it is.
conf == <<prompt, cores, flagged, mpc>>
vars == <<conf, now, pc, wake, acct, shown>>

Chain  == 1 .. 5

\* Mutant: the last process sleeps longer than the fourth.
SleepsLong == <<2, 4, 0, 8, 10>>

Sleeps == <<2, 4, 0, 8, 6>>

Init == /\ prompt \in BOOLEAN /\ cores \in BOOLEAN /\ flagged \in BOOLEAN
        /\ now = 0 /\ mpc = "read"
        /\ pc = [i \in Chain |-> IF i = 1 THEN "fork" ELSE "none"]
        /\ wake = [i \in Chain |-> 0]
        /\ acct = <<>> /\ shown = <<>>

---------------------------------------------------------------------------
\* The kernel's record: core file, killed by a signal, forked without exec.
Record(i, core, sig, exec) ==
  [proc |-> i, D |-> core /\ flagged, X |-> sig /\ flagged, F |-> ~exec]

Ends(i, core, sig, exec) == /\ pc' = [pc EXCEPT ![i] = "ended"]
                            /\ acct' = Append(acct, Record(i, core, sig, exec))
                            /\ UNCHANGED <<conf, now, wake, shown>>

\* The shell has run the program, so that its first process has called exec.
Exits(i) == Ends(i, FALSE, FALSE, i = 1)

\* The child goes on to the next fork, or sleeps if it is the last one.
Fork(i) == /\ pc[i] = "fork"
           /\ \/ /\ pc' = [pc EXCEPT ![i] = IF i = 3 THEN "exec" ELSE "sleep",
                                     ![i + 1] = IF i = 4 THEN "sleep" ELSE "fork"]
                 /\ UNCHANGED <<conf, now, wake, acct, shown>>
              \/ Exits(i)

Sleep(i) == /\ pc[i] = "sleep"
            /\ pc' = [pc EXCEPT ![i] = "sleeping"]
            /\ wake' = [wake EXCEPT ![i] = now + Sleeps[i]]
            /\ UNCHANGED <<conf, now, acct, shown>>

Exec == \/ /\ pc[3] = "exec"
           /\ pc' = [pc EXCEPT ![3] = "dd"]
           /\ UNCHANGED <<conf, now, wake, acct, shown>>
        \/ pc[3] = "exec" /\ Exits(3)

\* External: dd copies the file.
Dd == pc[3] = "dd" /\ Ends(3, FALSE, FALSE, TRUE)

Awake(i) == pc[i] = "sleeping" /\ (prompt => now >= wake[i])

Exit  == \E i \in {1, 4} : Awake(i) /\ Exits(i)
Abort == Awake(2) /\ Ends(2, cores, TRUE, FALSE)
Kill  == Awake(5) /\ Ends(5, FALSE, TRUE, FALSE)

\* fread and printf of the next record, while there is one.
Show == /\ mpc = "read" /\ Len(shown) < Len(acct)
        /\ shown' = Append(shown, acct[Len(shown) + 1])
        /\ UNCHANGED <<conf, now, pc, wake, acct>>

\* fopen or fread fails, and the program exits.
ShowFails == /\ mpc = "read" /\ mpc' = "exit 1"
             /\ UNCHANGED <<prompt, cores, flagged, now, pc, wake, acct, shown>>

---------------------------------------------------------------------------
Idle(i) == pc[i] \in {"none", "ended"} \/ (pc[i] = "sleeping" /\ now < wake[i])

Tick == /\ prompt /\ \A i \in Chain : Idle(i)
        /\ \E i \in Chain : pc[i] = "sleeping"
        /\ now' = now + 1
        /\ UNCHANGED <<conf, pc, wake, acct, shown>>

Ended == /\ \A i \in Chain : pc[i] \in {"none", "ended"}
         /\ shown = acct \/ mpc = "exit 1"

ChainStep == (\E i \in Chain : Fork(i) \/ Sleep(i)) \/ Exec \/ Dd \/ Exit \/ Abort \/ Kill

Next == ChainStep \/ Show \/ ShowFails \/ Tick \/ (Ended /\ UNCHANGED vars)

Spec == Init /\ [][Next]_vars

\* The processes run when they can, and time passes.  Nothing has to fail.
FairSpec == Spec /\ WF_vars(ChainStep) /\ WF_vars(Show) /\ WF_vars(Tick)

---------------------------------------------------------------------------
(* Properties *)

\* On an idle machine, if every fork and exec succeeds, the lines are in the
\* order that the sleeps ask for: dd, the processes that sleep 2 and 4 seconds,
\* the last one and the fourth (test_process_account.c:15, 23, 31, 39, 43).  On
\* any machine no process has two lines, and only the one that calls abort and
\* the one that kills itself can be shown as killed; whether they are is not
\* claimed (show_process_account.c:57-68).
Procs(lines) == [k \in DOMAIN lines |-> lines[k].proc]

RecordsRight ==
  /\ prompt /\ Ended /\ Len(shown) = 5 /\ ~shown[1].F =>
       Procs(shown) = <<3, 1, 2, 5, 4>>
  /\ \A j, k \in DOMAIN shown : shown[j].proc = shown[k].proc => j = k
  /\ \A k \in DOMAIN shown : shown[k].X => shown[k].proc \in {2, 5}

\* Every process ends, and every record is printed unless the file cannot be read.
AllEnd == <>Ended
---------------------------------------------------------------------------
(* The inductive invariant behind the records *)

Records == [proc : Chain, D : BOOLEAN, X : BOOLEAN, F : BOOLEAN]
Places  == {"read", "exit 1"}
Active  == {"fork", "exec", "dd", "sleep"}
TypeOK  == /\ prompt \in BOOLEAN /\ cores \in BOOLEAN /\ flagged \in BOOLEAN
           /\ now \in Nat /\ mpc \in Places
           /\ pc \in [Chain -> Active \cup {"none", "sleeping", "ended"}]
           /\ pc[5] # "fork"
           /\ wake \in [Chain -> Nat]
           /\ acct \in Seq(Records) /\ shown \in Seq(Records)

\* The next process is there only after fork.
InChain == \A i \in 1 .. 4 : pc[i] \in {"none", "fork"} => pc[i + 1] = "none"

\* One record for each process that has ended.
OneRecord == /\ \A k \in 1 .. Len(acct) : /\ pc[acct[k].proc] = "ended"
                                          /\ acct[k].X => acct[k].proc \in {2, 5}
             /\ \A j, k \in 1 .. Len(acct) : acct[j].proc = acct[k].proc => j = k

Printed == /\ Len(shown) =< Len(acct)
           /\ \A k \in 1 .. Len(shown) : shown[k] = acct[k]

\* On an idle machine everything but the sleeps happens at the start, so that a
\* process whose fork has not failed ends when the sleep it asked for does, and the
\* records are in the order of the sleeps.
Broken == \E i \in 1 .. 4 : pc[i] = "ended" /\ pc[i + 1] = "none"
OnTime == prompt =>
  /\ (\E i \in Chain : pc[i] \in Active) => now = 0
  /\ \A i \in Chain : pc[i] = "sleeping" => wake[i] = Sleeps[i] /\ now =< Sleeps[i]
  /\ ~Broken => \A i \in Chain : pc[i] = "ended" => Sleeps[i] =< now
InOrder == prompt /\ ~Broken =>
  \A j, k \in 1 .. Len(acct) : j < k => Sleeps[acct[j].proc] < Sleeps[acct[k].proc]

IInv == TypeOK /\ InChain /\ OneRecord /\ Printed /\ OnTime /\ InOrder
=============================================================================
