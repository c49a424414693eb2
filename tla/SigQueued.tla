----------------------------- MODULE SigQueued -----------------------------
(***************************************************************************)
(* signals/sig_queued.c: a child sends its parent SIGQUIT four times, a    *)
(* second apart, and then SIGUSR2.  The handler of the first SIGQUIT waits *)
(* in sigsuspend for the SIGUSR2; the parent then tells from the number of *)
(* handlers that ran whether signals are queued.                           *)
(*                                                                         *)
(* The program synchronises by sleeping.  With prompt = TRUE, time passes  *)
(* only while nobody can run, as on an idle machine; with prompt = FALSE a *)
(* sleep may end before or after anything else, as on a busy one.          *)
(*                                                                         *)
(* The file compiles only where SA_RESTART is not defined (its lines 93    *)
(* and 97 name a member that struct sigaction has not), so no flag is set. *)
(***************************************************************************)
EXTENDS Naturals, Sequences, FiniteSets, PosixSignals

NQuit       == 4   \* the SIGQUITs that the child sends
ChildSleep  == 1   \* seconds between them
ParentSleep == 5   \* seconds

VARIABLES
  prompt,    \* does time pass only while nobody can run?
  now,       \* seconds since the start, counted if prompt
  sig,       \* the signals of the parent
  sigcount, waitflag, sigflag,   \* the variables of the program
  mpc,       \* where main is, in the parent
  mwake,     \* when the parent's sleep ends
  stack,     \* the handlers that run in the parent, the innermost first
  cpc,       \* where the child is
  sent,      \* how many SIGQUITs it has sent
  cwake,     \* when the child's sleep ends
  stray,     \* has the child sent a signal to another process than its parent?
  verdict    \* what the parent printed

clock  == <<prompt, now>>
flags  == <<sigcount, waitflag, sigflag>>
main   == <<mpc, mwake, verdict>>
child  == <<cpc, sent, cwake, stray>>
parent == <<sig, flags, main, stack>>
vars   == <<clock, parent, child>>

Signals  == {"SIGQUIT", "SIGUSR1", "SIGUSR2"}
UserMask == {"SIGUSR1", "SIGUSR2"}                 \* mask of TELL_WAIT
Zeromask == {}
Omask    == {}                                     \* what TELL_WAIT replaced

Init == /\ prompt \in BOOLEAN
        /\ now = 0
        /\ sig = NoActions(Signals)
        /\ sigcount = 0 /\ waitflag = 1 /\ sigflag = 0
        /\ mpc = "setup" /\ mwake = 0 /\ verdict = "none"
        /\ stack = <<>>
        /\ cpc = "none" /\ sent = 0 /\ cwake = 0 /\ stray = FALSE

---------------------------------------------------------------------------
\* main, in the parent

\* It sets no flag, see above.
Signal(s, signo, handler) == Install(s, signo, Catch(handler, {}))

\* Mutant: SIGUSR1 and SIGUSR2 are not blocked.
TellWaitUnblocked(s) == LET s1 == Signal(s, "SIGUSR1", "sig_usr")
                        IN  Signal(s1, "SIGUSR2", "sig_usr")

\* Mutant: sig_quit for sig_usr.
TellWaitQuit(s) == LET s1 == Signal(s, "SIGUSR1", "sig_quit")
                       s2 == Signal(s1, "SIGUSR2", "sig_quit")
                   IN  Block(s2, UserMask)

\* Signal(SIGUSR1, sig_usr), Signal(SIGUSR2, sig_usr), sigprocmask(SIG_BLOCK).
TellWait(s) == LET s1 == Signal(s, "SIGUSR1", "sig_usr")
                   s2 == Signal(s1, "SIGUSR2", "sig_usr")
               IN  Block(s2, UserMask)

\* Nobody sends a signal before the fork: one step.
Setup == /\ mpc = "setup"
         /\ mpc' = "fork"
         /\ sig' = TellWait(Signal(sig, "SIGQUIT", "sig_quit"))
         /\ UNCHANGED <<clock, flags, mwake, verdict, stack, child>>

Fork == /\ mpc = "fork"
        /\ \/ mpc' = "sleep" /\ cpc' = "kill"
           \/ mpc' = "exited" /\ cpc' = "none"
        /\ UNCHANGED <<clock, sig, flags, mwake, verdict, stack, sent, cwake, stray>>

\* main runs: no handler does, and no signal is to be delivered first.
InMain == stack = <<>> /\ Deliverable(sig) = {}

MainSleep == /\ InMain
             /\ mpc = "sleep"
             /\ mpc' = "sleeping"
             /\ mwake' = now + ParentSleep
             /\ UNCHANGED <<clock, sig, flags, verdict, stack, child>>

MainWake == /\ InMain
            /\ mpc = "sleeping"
            /\ prompt => now >= mwake
            /\ mpc' = "verdict"
            /\ UNCHANGED <<clock, sig, flags, mwake, verdict, stack, child>>

Verdict == /\ InMain
           /\ mpc = "verdict"
           /\ mpc' = "exited"
           /\ verdict' = CASE sigcount = 2 -> "not queued"
                           [] sigcount = 4 -> "queued"
                           [] OTHER -> "unknown"
           /\ UNCHANGED <<clock, sig, flags, mwake, stack, child>>

---------------------------------------------------------------------------
\* The handlers

Top == stack[1]

\* The innermost handler is at pc and runs.
InHandler(fn, pc) == /\ stack # <<>> /\ Top.fn = fn /\ Top.pc = pc
                     /\ Deliverable(sig) = {}

HandlerGoto(pc) == stack' = [stack EXCEPT ![1].pc = pc]

\* A handler starts.  It ends the sleep of main, or the sigsuspend of the
\* handler below it, which then finds the mask it had before that call.
Deliver == \E s \in Deliverable(sig) :
  LET suspended == stack # <<>> /\ Top.pc = "suspended"
      frame == [fn |-> Handler(sig, s), pc |-> "start", old |-> {},
                saved |-> IF suspended THEN Top.old ELSE sig.mask]
      below == IF suspended THEN [stack EXCEPT ![1].pc = "test"] ELSE stack
  IN  /\ mpc # "exited"
      /\ sig' = Enter(sig, s)
      /\ stack' = <<frame>> \o below
      /\ mpc' = IF stack = <<>> /\ mpc = "sleeping" THEN "verdict" ELSE mpc
      /\ UNCHANGED <<clock, flags, mwake, verdict, child>>

\* Mutants: every SIGQUIT waits for the child; no SIGQUIT waits for it.
QuitAlwaysWaits == /\ InHandler("sig_quit", "start")
                   /\ sigcount' = sigcount + 1
                   /\ HandlerGoto("test")
                   /\ UNCHANGED <<clock, sig, waitflag, sigflag, main, child>>

QuitNeverWaits == /\ InHandler("sig_quit", "start")
                  /\ sigcount' = sigcount + 1
                  /\ HandlerGoto("return")
                  /\ UNCHANGED <<clock, sig, waitflag, sigflag, main, child>>

\* sig_quit: ++sigcount, and WAIT_CHILD if no handler has called it before.
QuitStart == /\ InHandler("sig_quit", "start")
             /\ sigcount' = sigcount + 1
             /\ \/ waitflag = 1 /\ waitflag' = 0 /\ HandlerGoto("test")
                \/ waitflag = 0 /\ waitflag' = 0 /\ HandlerGoto("return")
             /\ UNCHANGED <<clock, sig, sigflag, main, child>>

UsrStart == /\ InHandler("sig_usr", "start")
            /\ sigflag' = 1
            /\ HandlerGoto("return")
            /\ UNCHANGED <<clock, sig, sigcount, waitflag, main, child>>

\* Mutant: "if" for "while": any signal ends the wait.
WaitTestOnce == /\ InHandler("sig_quit", "test")
                /\ HandlerGoto(IF sigflag = 0 /\ Top.old = {} THEN "suspend"
                                                              ELSE "clear")
                /\ UNCHANGED <<clock, sig, flags, main, child>>

\* WAIT_CHILD: while (sigflag == 0)
WaitTest == /\ InHandler("sig_quit", "test")
            /\ HandlerGoto(IF sigflag = 0 THEN "suspend" ELSE "clear")
            /\ UNCHANGED <<clock, sig, flags, main, child>>

\* sigsuspend(&zeromask): replaces the mask and waits, in one step.
Suspend == /\ InHandler("sig_quit", "suspend")
           /\ sig' = SetMask(sig, Zeromask)
           /\ stack' = [stack EXCEPT ![1].pc = "suspended", ![1].old = sig.mask]
           /\ UNCHANGED <<clock, flags, main, child>>

WaitClear == /\ InHandler("sig_quit", "clear")
             /\ sigflag' = 0
             /\ HandlerGoto("setmask")
             /\ UNCHANGED <<clock, sig, sigcount, waitflag, main, child>>

\* sigprocmask(SIG_SETMASK, &omask, NULL): also unblocks SIGQUIT.
WaitSetMask == /\ InHandler("sig_quit", "setmask")
               /\ sig' = SetMask(sig, Omask)
               /\ HandlerGoto("return")
               /\ UNCHANGED <<clock, flags, main, child>>

\* The handler returns: the mask from before it is restored.
Return == /\ stack # <<>> /\ Top.pc = "return" /\ Deliverable(sig) = {}
          /\ sig' = SetMask(sig, Top.saved)
          /\ stack' = Tail(stack)
          /\ UNCHANGED <<clock, flags, main, child>>

---------------------------------------------------------------------------
\* The child

\* kill(getppid(), s): when the parent has ended this is another process, and
\* on most systems init.
SendParent(s) == IF mpc = "exited" THEN stray' = TRUE /\ sig' = sig
                                   ELSE sig' = Generate(sig, s) /\ stray' = stray

ChildKill == /\ cpc = "kill"
             /\ SendParent("SIGQUIT")
             /\ sent' = sent + 1
             /\ cpc' = "sleep"
             /\ UNCHANGED <<clock, flags, main, stack, cwake>>

ChildNap == /\ cpc = "sleep"
            /\ cpc' = "sleeping"
            /\ cwake' = now + ChildSleep
            /\ UNCHANGED <<clock, parent, sent, stray>>

ChildWake == /\ cpc = "sleeping"
             /\ prompt => now >= cwake
             /\ cpc' = IF sent < NQuit THEN "kill" ELSE "tell"
             /\ UNCHANGED <<clock, parent, sent, cwake, stray>>

TellParent == /\ cpc = "tell"
              /\ SendParent("SIGUSR2")
              /\ cpc' = "exited"
              /\ UNCHANGED <<clock, flags, main, stack, sent, cwake>>

\* External: a signal kills the child.
KillChild == /\ cpc \notin {"none", "exited", "killed"}
             /\ cpc' = "killed"
             /\ UNCHANGED <<clock, parent, sent, cwake, stray>>

---------------------------------------------------------------------------
\* The parent waits for time or for a signal, or has ended.
ParentIdle == \/ mpc = "exited"
              \/ /\ Deliverable(sig) = {}
                 /\ \/ stack = <<>> /\ mpc = "sleeping" /\ now < mwake
                    \/ stack # <<>> /\ Top.pc = "suspended"

ChildIdle == \/ cpc \in {"none", "exited", "killed"}
             \/ cpc = "sleeping" /\ now < cwake

\* Some sleep has not ended.
SleepLeft == \/ mpc = "sleeping" /\ stack = <<>> /\ now < mwake
             \/ cpc = "sleeping" /\ now < cwake

Tick == /\ prompt /\ ParentIdle /\ ChildIdle /\ SleepLeft
        /\ now' = now + 1
        /\ UNCHANGED <<prompt, parent, child>>

ChildEnded == cpc \in {"none", "exited", "killed"}

\* The parent waits for a SIGUSR2 that a killed child did not send.
WaitsForKilled == cpc = "killed" /\ stack # <<>> /\ Top.pc = "suspended"

Terminated == /\ ChildEnded /\ (mpc = "exited" \/ WaitsForKilled)
              /\ UNCHANGED vars

ParentStep == \/ Setup \/ Fork \/ MainSleep \/ MainWake \/ Verdict
              \/ Deliver \/ QuitStart \/ UsrStart \/ WaitTest \/ Suspend
              \/ WaitClear \/ WaitSetMask \/ Return

ChildStep == ChildKill \/ ChildNap \/ ChildWake \/ TellParent

Next == ParentStep \/ ChildStep \/ KillChild \/ Tick \/ Terminated

Spec == Init /\ [][Next]_vars

\* Both processes run when they can, and time passes.
FairSpec == Spec /\ WF_vars(ParentStep) /\ WF_vars(ChildStep) /\ WF_vars(Tick)

---------------------------------------------------------------------------
(* Properties *)

\* No SIGQUIT is counted twice (sig_queued.c:72), although the handlers nest:
\* those counted, that about to be counted and that pending are at most those
\* sent.
CountBound ==
  LET starting == {k \in DOMAIN stack : stack[k].fn = "sig_quit"
                                        /\ stack[k].pc = "start"}
      pending  == sig.pending \cap {"SIGQUIT"}
  IN  sigcount + Cardinality(starting) + Cardinality(pending) =< sent

\* One handler at a time is in WAIT_CHILD (sig_queued.c:73-76), although
\* sigsuspend(&zeromask) lets SIGQUIT interrupt the handler of SIGQUIT.
Waiting(f) == f.pc \in {"test", "suspend", "suspended", "clear", "setmask"}
OneWaiter == \A j, k \in DOMAIN stack :
               Waiting(stack[j]) /\ Waiting(stack[k]) => j = k

\* WAIT_CHILD ends only when the child has told (sig_queued.c:141-143): a
\* SIGQUIT that ends the sigsuspend does not end the wait.
WaitEndsOnTell == \A k \in DOMAIN stack :
                    stack[k].pc \in {"clear", "setmask"} => cpc = "exited"

\* On an idle machine, with a child that is not killed, all four SIGQUITs are
\* counted and none goes to another process after the parent has ended
\* (sig_queued.c:38-55).
AllCounted == prompt /\ cpc = "exited" /\ mpc = "exited" =>
                sigcount = NQuit /\ ~stray

\* The parent ends, unless its child was killed before it sent SIGUSR2: the
\* SIGUSR2 is not lost between the test of sigflag and sigsuspend
\* (sig_queued.c:141-142).
ParentEnds == <>[](mpc = "exited" \/ WaitsForKilled)

\* The comment of sig_queued.c:41-42 says that a signal generated repeatedly is
\* delivered once when it is unblocked, which holds of this kernel: it never
\* queues.  The program should then not print "Signal is queued".
NotQueued == verdict # "queued"

---------------------------------------------------------------------------
(* The inductive invariant behind the four properties *)

Frames == [fn : {"sig_quit", "sig_usr"},
           pc : {"start", "return", "test", "suspend", "suspended", "clear", "setmask"},
           old : SUBSET Signals, saved : SUBSET Signals]

TypeOK == /\ prompt \in BOOLEAN /\ now \in Nat
          /\ sig \in SignalState(Signals, {"sig_quit", "sig_usr"})
          /\ sigcount \in Nat /\ waitflag \in {0, 1} /\ sigflag \in {0, 1}
          /\ mpc \in {"setup", "fork", "sleep", "sleeping", "verdict", "exited"}
          /\ mwake \in Nat /\ cwake \in Nat
          /\ stack \in Seq(Frames)
          /\ cpc \in {"none", "kill", "sleep", "sleeping", "tell", "exited", "killed"}
          /\ sent \in 0 .. NQuit /\ stray \in BOOLEAN

\* Before the child and after the parent.
Started == mpc \notin {"setup", "fork"}
Outside == /\ mpc = "setup" => sig.mask = {}
           /\ mpc # "setup" => /\ sig.act["SIGQUIT"] = Catch("sig_quit", {})
                               /\ sig.act["SIGUSR1"] = Catch("sig_usr", {})
                               /\ sig.act["SIGUSR2"] = Catch("sig_usr", {})
           /\ mpc = "setup" => sig.act = [s \in Signals |-> Default]
           /\ ~Started => /\ stack = <<>> /\ sig.pending = {} /\ cpc = "none"
                          /\ sigcount = 0 /\ waitflag = 1 /\ sigflag = 0 /\ ~stray
           /\ mpc = "exited" => stack = <<>> /\ "SIGQUIT" \notin sig.pending
           /\ cpc = "none" => mpc \in {"setup", "fork", "exited"}

\* The handlers that interrupt each other, and the mask that they leave.  Above the
\* one that waits for the child there are at most two, which return at once.
Depth  == Len(stack)
Bottom == stack[Depth]
Own(f) == IF f.fn = "sig_quit" THEN "SIGQUIT" ELSE "SIGUSR2"
Short(f) == f.pc \in {"start", "return"}

Resting   == Depth = 0 => mpc = "setup" \/ sig.mask = UserMask
AtBottom  == Depth > 0 => Bottom.fn = "sig_quit" /\ Bottom.saved = UserMask
Alone     == Depth = 1 => IF Bottom.pc = "suspended"
                          THEN sig.mask = {} /\ Bottom.old = Signals
                          ELSE sig.mask = Signals \/ (Bottom.pc = "return" /\ sig.mask = {})
OneMore   == Depth = 2 => /\ Short(stack[1])
                          /\ sig.mask = {Own(stack[1])}
                          /\ \/ Bottom.pc = "test" /\ stack[1].saved = Signals
                             \/ /\ Bottom.pc = "return" /\ stack[1].saved = {}
                                /\ stack[1].fn = "sig_quit"
TwoMore   == Depth = 3 => /\ Short(stack[1]) /\ Short(stack[2])
                          /\ stack[1].fn # stack[2].fn
                          /\ sig.mask = {"SIGQUIT", "SIGUSR2"}
                          /\ Bottom.pc = "test" /\ stack[2].saved = Signals
                          /\ stack[1].saved = {Own(stack[2])}
Nested == Depth =< 3 /\ Resting /\ AtBottom /\ Alone /\ OneMore /\ TwoMore

\* The one wait for the child, and what it waits for.
Told     == cpc = "exited"
Received == Told /\ "SIGUSR2" \notin sig.pending
Released == \/ Depth = 1 /\ Bottom.pc = "return" /\ sig.mask = {}
            \/ Depth = 2 /\ Bottom.pc = "return"
Waits == /\ waitflag = 1 => Depth = 0 \/ (Depth = 1 /\ Bottom.pc = "start")
         /\ waitflag = 0 => \/ Told
                            \/ Depth > 0 /\ Bottom.pc \in {"test", "suspend", "suspended"}
Tells == /\ "SIGUSR1" \notin sig.pending
         /\ "SIGUSR2" \in sig.pending => Told
         /\ sigflag = 1 => Received
         /\ \A k \in 1 .. Depth : stack[k].fn = "sig_usr" => Received
         /\ Depth > 0 /\ Bottom.pc \in {"clear", "setmask"} => Received
         /\ Released => Received

\* No SIGQUIT is counted twice, and on an idle machine none is lost.
StartsQuit(f) == f.fn = "sig_quit" /\ f.pc = "start"
Starting == IF \E k \in 1 .. Depth : StartsQuit(stack[k]) THEN 1 ELSE 0
Pending  == IF "SIGQUIT" \in sig.pending THEN 1 ELSE 0
Counted  == /\ sigcount + Starting + Pending =< sent
            /\ prompt => sigcount + Starting + Pending = sent

\* The child, and its time on an idle machine.
ChildSent == /\ cpc = "none" => sent = 0
             /\ cpc = "kill" => sent < NQuit
             /\ cpc \in {"sleep", "sleeping"} => sent > 0
             /\ cpc \in {"tell", "exited"} => sent = NQuit
ChildTime == prompt => /\ cpc = "kill" => now = sent
                       /\ cpc = "sleep" => now = sent - 1
                       /\ cpc = "sleeping" => cwake = sent /\ now \in {sent - 1, sent}
                       /\ cpc = "tell" => now = NQuit
                       /\ cpc = "none" /\ mpc \in {"setup", "fork"} => now = 0
\* It finds its last SIGQUIT delivered.
Fresh == prompt => /\ cpc = "kill" => "SIGQUIT" \notin sig.pending
                   /\ cpc = "sleeping" /\ now = cwake => "SIGQUIT" \notin sig.pending

\* The parent sleeps longer than the child lives.
MainTime == /\ mpc = "sleeping" => mwake >= ParentSleep
            /\ prompt /\ mpc \in {"verdict", "exited"} /\ Depth = 0 => ChildEnded
            /\ prompt => ~stray

IInv == /\ TypeOK /\ Outside /\ Nested /\ Waits /\ Tells /\ Counted
        /\ ChildSent /\ ChildTime /\ Fresh /\ MainTime
=============================================================================
