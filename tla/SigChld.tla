------------------------------ MODULE SigChld ------------------------------
(***************************************************************************)
(* signals/sigchld.c finds out two things about the kernel it runs on:     *)
(* whether ignoring SIGCHLD throws away the exit status of children, and   *)
(* whether establishing a handler for it while a child can be waited for   *)
(* invokes the handler at once.  The variables discards and eager are the  *)
(* answers; the program is right if what it prints agrees with them.       *)
(*                                                                         *)
(* process_environment/waitid.c runs the middle of its second part alone,  *)
(* to see whether waitid with WNOWAIT leaves the child to be waited for.   *)
(***************************************************************************)
EXTENDS Naturals, Sequences, PosixSignals

CONSTANT NKids    \* the size of pid_array

Last == NKids + 1    \* the child of the second part
Kids == 1 .. Last

VARIABLES
  program,           \* "sigchld" or "waitid"
  discards, eager,   \* what the kernel does
  sig,               \* the signals of the parent
  mpc,               \* where main is
  hpc,               \* where sig_chld is, "none" if it does not run
  saved,             \* the mask that its return restores
  kid,               \* kid[k]: the state of child k
  count,
  verdict1, verdict2 \* what the program printed

kernel   == <<program, discards, eager>>
handler  == <<hpc, saved>>
verdicts == <<verdict1, verdict2>>
vars     == <<kernel, sig, mpc, handler, kid, count, verdicts>>

Signals  == {"SIGCHLD"}
Ends     == {"ended", "fork error", "wait error"}

Init == /\ program \in {"sigchld", "waitid"}
        /\ discards \in BOOLEAN /\ eager \in BOOLEAN
        /\ sig = NoActions(Signals)
        /\ mpc = IF program = "sigchld" THEN "ignore" ELSE "fork last"
        /\ hpc = "none" /\ saved = {}
        /\ kid = [k \in Kids |-> "none"]
        /\ count = 0
        /\ verdict1 = "none" /\ verdict2 = "none"

---------------------------------------------------------------------------
\* The children end at once, when the scheduler lets them.

Zombies  == {k \in Kids : kid[k] = "zombie"}
Children == {k \in Kids : kid[k] \in {"running", "zombie"}}

ChildEnd(k) == /\ kid[k] = "running"
               /\ kid' = [kid EXCEPT ![k] =
                    IF discards /\ Handler(sig, "SIGCHLD") = "SIG_IGN"
                    THEN "gone" ELSE "zombie"]
               /\ sig' = Generate(sig, "SIGCHLD")
               /\ UNCHANGED <<kernel, mpc, handler, count, verdicts>>

Reap(k) == kid[k] = "zombie" /\ kid' = [kid EXCEPT ![k] = "gone"]

---------------------------------------------------------------------------
\* main.  It runs while no handler does and no signal is to be delivered.

InMain(pc) == mpc = pc /\ hpc = "none" /\ Deliverable(sig) = {}

\* Signal(SIGCHLD, action).  An eager kernel generates SIGCHLD for a zombie.
Signal(action) ==
  LET new == Install(sig, "SIGCHLD", action)
  IN  sig' = IF eager /\ IsCaught(new, "SIGCHLD") /\ Zombies # {}
             THEN Generate(new, "SIGCHLD") ELSE new

SetIgnore == /\ InMain("ignore") /\ mpc' = "fork"
             /\ Signal(Ignore)
             /\ UNCHANGED <<kernel, handler, kid, count, verdicts>>

\* Iteration k of the loop; the last one leads to the wait.
ForkKid == /\ InMain("fork")
           /\ \E k \in 1 .. NKids :
                /\ kid[k] = "none" /\ \A j \in 1 .. k - 1 : kid[j] # "none"
                /\ \/ /\ kid' = [kid EXCEPT ![k] = "running"]
                      /\ mpc' = IF k = NKids THEN "wait" ELSE "fork"
                   \/ /\ kid' = kid
                      /\ mpc' = "fork error"
           /\ UNCHANGED <<kernel, sig, handler, count, verdicts>>

\* while (wait(NULL) >= 0): blocks while there are children and no zombie.
WaitKid == /\ InMain("wait")
           /\ \E k \in Kids : Reap(k)
           /\ count' = count + 1
           /\ UNCHANGED <<kernel, sig, mpc, handler, verdicts>>

\* Mutant: waits only for those that have already ended.
WaitNoHang == /\ InMain("wait") /\ Zombies = {}
              /\ mpc' = "default"
              /\ verdict1' = IF count # 0 THEN "SIG_DFL" ELSE "throw away"
              /\ UNCHANGED <<kernel, sig, handler, kid, count, verdict2>>

\* ECHILD
WaitEnd == /\ InMain("wait") /\ Children = {}
           /\ mpc' = "default"
           /\ verdict1' = IF count # 0 THEN "SIG_DFL" ELSE "throw away"
           /\ UNCHANGED <<kernel, sig, handler, kid, count, verdict2>>

SetDefault == /\ InMain("default") /\ mpc' = "fork last"
              /\ Signal(Default)
              /\ UNCHANGED <<kernel, handler, kid, count, verdicts>>

ForkLast == /\ InMain("fork last")
            /\ \/ kid' = [kid EXCEPT ![Last] = "running"] /\ mpc' = "waitid"
               \/ kid' = kid /\ mpc' = "fork error"
            /\ UNCHANGED <<kernel, sig, handler, count, verdicts>>

AfterWaitid == IF program = "sigchld" THEN "handle" ELSE "wait last"

\* waitid(P_PID, pid, NULL, WEXITED | WNOWAIT)
Waitid == /\ InMain("waitid") /\ kid[Last] = "zombie"
          /\ mpc' = AfterWaitid
          /\ UNCHANGED <<kernel, sig, handler, kid, count, verdicts>>

SetHandler == /\ InMain("handle") /\ mpc' = "wait last"
              /\ Signal(Catch("sig_chld", {"restart"}))
              /\ UNCHANGED <<kernel, handler, kid, count, verdicts>>

\* wait: the child is left to be waited for, or is gone (ECHILD).
WaitLast == /\ InMain("wait last") /\ mpc' = "ended"
            /\ \/ /\ \E k \in Kids : Reap(k)
                  /\ verdict2' = "left"
               \/ /\ Children = {} /\ kid' = kid
                  /\ verdict2' = "gone"
            /\ UNCHANGED <<kernel, sig, handler, count, verdict1>>

---------------------------------------------------------------------------
\* sig_chld

Deliver == /\ mpc \notin Ends
           /\ "SIGCHLD" \in Deliverable(sig)
           /\ sig' = Enter(sig, "SIGCHLD")
           /\ hpc' = "wait" /\ saved' = sig.mask
           /\ UNCHANGED <<kernel, mpc, kid, count, verdicts>>

HandlerWait == /\ hpc = "wait" /\ mpc \notin Ends
               /\ IF Children = {} THEN mpc' = "wait error" /\ UNCHANGED <<hpc, kid>>
                  ELSE /\ \E k \in Kids : Reap(k)
                       /\ hpc' = "return" /\ mpc' = mpc
               /\ UNCHANGED <<kernel, sig, saved, count, verdicts>>

Return == /\ hpc = "return" /\ hpc' = "none"
          /\ sig' = SetMask(sig, saved)
          /\ UNCHANGED <<kernel, mpc, saved, kid, count, verdicts>>

---------------------------------------------------------------------------
MainStep == \/ SetIgnore \/ ForkKid \/ WaitKid \/ WaitEnd \/ SetDefault
            \/ ForkLast \/ Waitid \/ SetHandler \/ WaitLast

HandlerStep == Deliver \/ HandlerWait \/ Return

Terminated == /\ mpc \in Ends /\ \A k \in Kids : kid[k] # "running"
              /\ UNCHANGED vars

Next == MainStep \/ HandlerStep \/ (\E k \in Kids : ChildEnd(k)) \/ Terminated

Spec == Init /\ [][Next]_vars

\* The scheduler runs the parent and every child.
FairSpec == /\ Spec /\ WF_vars(MainStep) /\ WF_vars(HandlerStep)
            /\ \A k \in Kids : WF_vars(ChildEnd(k))

---------------------------------------------------------------------------
(* Properties *)

\* In whatever order the children end, the first line printed tells what the
\* kernel does with the exit status of children (sigchld.c:61-73).
IgnoreVerdictRight == /\ verdict1 = "throw away" => discards
                      /\ verdict1 = "SIG_DFL" => ~discards

\* The second line printed tells whether the kernel invokes a new handler at
\* once (sigchld.c:98-107): no SIGCHLD of a child that ends late is mistaken
\* for one that the establishing of the handler generated.  Without a handler
\* the child is still to be waited for (waitid.c:28-37).
HandlerVerdictRight == /\ verdict2 = "gone" => program = "sigchld" /\ eager
                       /\ verdict2 = "left" => program = "waitid" \/ ~eager

\* The program ends (sigchld.c:61, 88, 98, waitid.c:23, 28): no wait lasts for
\* ever, and the handler's wait does not fail.
ProgramEnds == <>(mpc \in {"ended", "fork error"})

---------------------------------------------------------------------------
(* The inductive invariant behind the two verdicts *)

\* Every variable has its type; "wait error" is not among the places of main.
TypeOK == /\ program \in {"sigchld", "waitid"}
          /\ discards \in BOOLEAN /\ eager \in BOOLEAN
          /\ sig \in SignalState(Signals, {"sig_chld"})
          /\ mpc \in {"ignore", "fork", "wait", "default", "fork last", "waitid",
                      "handle", "wait last", "ended", "fork error"}
          /\ hpc \in {"none", "wait", "return"} /\ saved \subseteq Signals
          /\ kid \in [Kids -> {"none", "running", "zombie", "gone"}]
          /\ count \in Nat
          /\ verdict1 \in {"none", "SIG_DFL", "throw away"}
          /\ verdict2 \in {"none", "left", "gone"}

\* Without a handler for it, SIGCHLD leaves no trace.
Calm == hpc = "none" /\ sig.pending = {} /\ sig.mask = {}
NoHandlerYet == /\ mpc \notin {"wait last", "ended"} => Calm
                /\ mpc \in {"fork", "wait", "default"} =>
                     Handler(sig, "SIGCHLD") = "SIG_IGN"
                /\ mpc \in {"ignore", "fork last", "waitid", "handle"} =>
                     Handler(sig, "SIGCHLD") = "SIG_DFL"
                /\ mpc = "fork error" =>
                     Handler(sig, "SIGCHLD") \in {"SIG_IGN", "SIG_DFL"}
                /\ hpc # "none" => mpc = "wait last"

\* The first part: main counts those that the kernel has not thrown away.
FirstPart == mpc \in {"ignore", "fork", "wait"} =>
  /\ kid[Last] = "none"
  /\ discards => count = 0 /\ \A k \in Kids : kid[k] # "zombie"
  /\ ~discards => \A k \in Kids : kid[k] = "gone" => count > 0
  /\ mpc = "ignore" => \A k \in Kids : kid[k] = "none"
  /\ mpc = "wait" => \A k \in 1 .. NKids : kid[k] # "none"

\* The second part has one child, which has ended when the handler is set.
SecondPart == mpc \in {"default", "fork last", "waitid", "handle", "wait last"} =>
  /\ \A k \in 1 .. NKids : kid[k] \in {"none", "gone"}
  /\ mpc \in {"default", "fork last"} => kid[Last] = "none"
  /\ mpc = "waitid" => kid[Last] \in {"running", "zombie"}
  /\ mpc = "handle" => kid[Last] = "zombie" /\ program = "sigchld"

\* The last wait finds the child, unless the handler was invoked and has.
AtLastWait == mpc = "wait last" =>
  IF program = "sigchld" /\ eager
  THEN /\ Handler(sig, "SIGCHLD") = "sig_chld" /\ Flags(sig, "SIGCHLD") = {"restart"}
       /\ hpc # "none" => sig.pending = {} /\ saved = {}
       /\ hpc = "none" => sig.mask = {}
       /\ kid[Last] = IF hpc = "wait" \/ sig.pending # {} THEN "zombie" ELSE "gone"
  ELSE Calm /\ kid[Last] = "zombie"

IInv == /\ TypeOK /\ NoHandlerYet /\ FirstPart /\ SecondPart /\ AtLastWait
        /\ IgnoreVerdictRight /\ HandlerVerdictRight
=============================================================================
