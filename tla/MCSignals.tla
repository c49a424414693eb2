----------------------------- MODULE MCSignals -----------------------------
(***************************************************************************)
(* For TLC: one run of any of the programs about signals, of SigQueued,    *)
(* SigSemantics, SigJump and SigPending.  The value of program tells       *)
(* which; the variables of the other modules are not used, and those with  *)
(* the same name are one variable here.                                    *)
(***************************************************************************)
EXTENDS Naturals, Sequences

CONSTANT MaxSent    \* SigJump and SigPending: the signals of other processes

ASSUME MaxSentAssumption == MaxSent \in Nat \ {0}

VARIABLES
  program, prompt, now, sig, mpc, stack, cpc, cwake, sent, log, \* several
  sigcount, waitflag, sigflag, mwake, stray, verdict,           \* SigQueued
  sem, needSleep, left, test, reset, prevent, restart, data, orphan,
                                                                \* SigSemantics
  option, jmpmask, canjump, could, alarm, elapsed,              \* SigJump
  oldmask                                                       \* SigPending

queuedvars == <<sigcount, waitflag, sigflag, mwake, stray, verdict>>
semvars    == <<sem, needSleep, left, test, reset, prevent, restart, data, orphan>>
jumpvars   == <<option, jmpmask, canjump, could, alarm, elapsed>>
vars == <<program, prompt, now, sig, mpc, stack, cpc, cwake, sent, log,
          queuedvars, semvars, jumpvars, oldmask>>

Q == INSTANCE SigQueued
S == INSTANCE SigSemantics
J == INSTANCE SigJump
P == INSTANCE SigPending

IsQueued    == program = "sig_queued"
IsSemantics == program = "semantics"
IsJump      == program = "sigsetjmp"
IsPending   == program \in {"sigpending", "sig_mask"}

Unused(v) == v = 0

NoQueued == /\ Unused(sigcount) /\ Unused(waitflag) /\ Unused(sigflag)
            /\ Unused(mwake) /\ Unused(stray) /\ Unused(verdict)
NoSemantics == /\ Unused(sem) /\ Unused(needSleep) /\ Unused(left) /\ Unused(test)
               /\ Unused(reset) /\ Unused(prevent) /\ Unused(restart)
               /\ Unused(data) /\ Unused(orphan)
NoJump == /\ Unused(option) /\ Unused(jmpmask) /\ Unused(canjump)
          /\ Unused(could) /\ Unused(alarm) /\ Unused(elapsed)
NoClock == Unused(prompt) /\ Unused(now)
NoChild == Unused(cpc) /\ Unused(cwake)

Init ==
  \/ /\ IsQueued /\ Q!Init
     /\ NoSemantics /\ NoJump /\ Unused(log) /\ Unused(oldmask)
  \/ /\ IsSemantics /\ S!Init
     /\ NoQueued /\ NoJump /\ Unused(sent) /\ Unused(log) /\ Unused(oldmask)
  \/ /\ IsJump /\ J!Init
     /\ NoQueued /\ NoSemantics /\ NoClock /\ NoChild /\ Unused(oldmask)
  \/ /\ P!Init
     /\ NoQueued /\ NoSemantics /\ NoJump /\ NoClock /\ NoChild

---------------------------------------------------------------------------
\* A step of one of the programs.
Queued(Step)    == /\ IsQueued /\ Step
                   /\ UNCHANGED <<program, semvars, jumpvars, log, oldmask>>
Semantics(Step) == /\ IsSemantics /\ Step
                   /\ UNCHANGED <<program, queuedvars, jumpvars, sent, log, oldmask>>
Jump(Step)      == /\ IsJump /\ Step
                   /\ UNCHANGED <<program, queuedvars, semvars, prompt, now,
                                  cpc, cwake, oldmask>>
Pending(Step)   == /\ IsPending /\ Step
                   /\ UNCHANGED <<queuedvars, semvars, jumpvars, prompt, now,
                                  cpc, cwake>>

\* The program, with its handlers.
MainStep == \/ Queued(Q!ParentStep) \/ Semantics(S!ParentStep)
            \/ Jump(J!MainStep) \/ Jump(J!HandlerStep) \/ Pending(P!Step)

\* Its child.
ChildStep == Queued(Q!ChildStep) \/ Semantics(S!ChildStep)

\* Other processes.
KillChild == Queued(Q!KillChild) \/ Semantics(S!KillChild)
Send      == Jump(J!Send) \/ Pending(P!Send)

Tick == Queued(Q!Tick) \/ Semantics(S!Tick) \/ Jump(J!Tick)

Ended == CASE IsQueued    -> Q!ChildEnded /\ (mpc = "exited" \/ Q!WaitsForKilled)
           [] IsSemantics -> ~S!Alive /\ S!ChildEnded
           [] IsJump      -> mpc \in J!Ends \/ J!Quiet
           [] IsPending   -> P!Ended

Terminated == Ended /\ UNCHANGED vars

Next == MainStep \/ ChildStep \/ KillChild \/ Send \/ Tick \/ Terminated

Spec == Init /\ [][Next]_vars

\* The scheduler runs parent and child, and time passes.
FairSpec == Spec /\ WF_vars(MainStep) /\ WF_vars(ChildStep) /\ WF_vars(Tick)

---------------------------------------------------------------------------
(* Properties: those of the modules, of the program that runs. *)

\* No SIGQUIT is counted twice, see SigQueued.
CountBound == IsQueued => Q!CountBound

\* One handler at a time waits for the child, see SigQueued.
OneWaiter == IsQueued => Q!OneWaiter

\* Only the child's SIGUSR2 ends the wait, see SigQueued.
WaitEndsOnTell == IsQueued => Q!WaitEndsOnTell

\* On an idle machine all SIGQUITs are counted, see SigQueued.
AllCounted == IsQueued => Q!AllCounted

\* What is printed of the kernel's semantics is right, see SigSemantics.
AnswersRight == IsSemantics => S!FirstAnswers /\ S!NotRestartedIsRight

\* No signal of one question is left for the next, see SigSemantics.
QuestionsApart == IsSemantics => S!QuestionsApart

\* A signal kills only between the start of sig_usr2 and its call of signal, and
\* only under System V semantics on a busy machine, see SigSemantics.
KilledInWindow == IsSemantics => S!KilledInWindow

\* The masks that are shown, and their order, see SigJump.
MasksShown == IsJump => J!MasksShown

\* When the jump is made and when it is undefined, see SigJump.
JumpsOnce == IsJump => J!JumpsOnce

\* What is shown of a blocked signal, see SigPending.
PendingShown == IsPending => P!PendingShown

\* Every program ends: no signal, byte or child is waited for in vain, but for a
\* SIGUSR2 of a killed child; sigsetjmp ends once a SIGUSR1 has been sent.
EveryProgramEnds ==
  <>[](\/ Ended /\ (IsJump => mpc \in J!Ends)
       \/ IsJump /\ sent = 0)
=============================================================================
