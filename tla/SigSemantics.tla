---------------------------- MODULE SigSemantics ----------------------------
(***************************************************************************)
(* signals/sigaction_semantics.c and signals/signal_semantics.c: find out, *)
(* by experiment, how a handler installed with sigaction or with signal    *)
(* behaves.  Is it reset when it runs, is its signal blocked meanwhile,    *)
(* and does a read that it interrupts start again?  The first program asks *)
(* the last question four times (SIGALRM and SIGUSR1, without and with     *)
(* SA_RESTART), the second one twice.                                      *)
(*                                                                         *)
(* The semantics that the kernel gives to the calls is chosen at the start:*)
(*   "sigaction"  the flags that the program passes                        *)
(*   "bsd"        signal() with SA_RESTART                                 *)
(*   "sysv"       signal() with SA_RESETHAND and SA_NODEFER                *)
(* For prompt and now see SigQueued.                                       *)
(*                                                                         *)
(* External: the kernel's signals, its pipe and its clock, and a signal    *)
(* that kills a child.                                                     *)
(***************************************************************************)
EXTENDS Naturals, Sequences, PosixSignals

VARIABLES
  prompt, now,   \* does time pass only while nobody can run, and the time
  sem,           \* what sigaction or signal means
  sig,           \* the signals of the parent
  needSleep, left,    \* need_sleep and left_to_sleep
  mpc,           \* where main is, in the parent
  test,          \* which of the reads it is at
  stack,         \* the handlers that run in the parent, the innermost first, each
                 \* with the mask its return restores, when its sleep ends and
                 \* what that sleep returned
  reset, prevent,     \* what was printed of the first two questions
  restart,       \* restart[k]: what was printed of the k-th read
  cpc, cwake,    \* where the last child is, and when its sleep ends
  data,          \* the number of bytes in the pipe
  orphan         \* was a child killed?

clock  == <<prompt, now, sem>>
vars   == <<clock, sig, needSleep, left, mpc, test, stack, reset, prevent,
            restart, cpc, cwake, data, orphan>>
answers == <<reset, prevent, restart>>
child   == <<cpc, cwake, data, orphan>>
flags   == <<needSleep, left>>

Signals == {"SIGUSR1", "SIGUSR2", "SIGALRM"}
Semantics == {"sigaction", "bsd", "sysv"}

\* The reads of each program: the signal, and what Signal or Signal_r passes.
SigactionReads == << [signal |-> "SIGALRM", flags |-> {}],
                     [signal |-> "SIGUSR1", flags |-> {}],
                     [signal |-> "SIGALRM", flags |-> {"restart"}],
                     [signal |-> "SIGUSR1", flags |-> {"restart"}] >>
SignalReads    == << [signal |-> "SIGALRM", flags |-> {}],
                     [signal |-> "SIGUSR1", flags |-> {}] >>
Reads == IF sem = "sigaction" THEN SigactionReads ELSE SignalReads

\* The flags with which the kernel installs a handler.
FlagsOf(passed) == CASE sem = "sigaction" -> passed
                     [] sem = "bsd"       -> {"restart"}
                     [] sem = "sysv"      -> {"reset", "nodefer"}

HandlerOf(s) == CASE s = "SIGUSR1" -> "sig_usr1"
                  [] s = "SIGUSR2" -> "sig_usr2"
                  [] s = "SIGALRM" -> "sig_alrm"

\* Mutant: Signal_r is Signal, as where SA_RESTART is not defined.
SignalNoFlags(sg, s, passed) ==
  Install(sg, s, Catch(HandlerOf(s), IF sem = "sigaction" THEN {} ELSE FlagsOf({})))

Signal(sg, s, passed) == Install(sg, s, Catch(HandlerOf(s), FlagsOf(passed)))

Init == /\ prompt \in BOOLEAN /\ now = 0 /\ sem \in Semantics
        /\ sig = NoActions(Signals)
        /\ needSleep = 1 /\ left = 5
        /\ mpc = "reset" /\ test = 1 /\ stack = <<>>
        /\ reset = "none" /\ prevent = "none"
        /\ restart = [k \in 1 .. 4 |-> "none"]
        /\ cpc = "none" /\ cwake = 0 /\ data = 0 /\ orphan = FALSE

---------------------------------------------------------------------------
\* main, in the parent.  It runs when no handler does and no signal is to be
\* delivered first.

Alive == mpc \notin {"exit0", "exit1", "killed"}

Main(from, to) == /\ stack = <<>> /\ Deliverable(sig) = {}
                  /\ mpc = from
                  /\ mpc' = to

\* Is the handler reset when it runs?
ResetInstall == /\ Main("reset", "self")
                /\ sig' = Signal(sig, "SIGUSR1", {})
                /\ UNCHANGED <<clock, flags, test, stack, answers, child>>

\* kill(getpid(), SIGUSR1): delivered before kill returns.
ResetSelf == /\ Main("self", "query")
             /\ sig' = Generate(sig, "SIGUSR1")
             /\ UNCHANGED <<clock, flags, test, stack, answers, child>>

ResetQuery == /\ Main("query", "defer")
              /\ sig' = Install(sig, "SIGUSR1", Default)
              /\ reset' = IF Handler(sig, "SIGUSR1") = "SIG_DFL" THEN "yes" ELSE "no"
              /\ UNCHANGED <<clock, flags, test, stack, prevent, restart, child>>

\* Is the signal blocked while its handler runs?
DeferInstall == /\ Main("defer", "fork")
                /\ sig' = Signal(sig, "SIGUSR2", {})
                /\ UNCHANGED <<clock, flags, test, stack, answers, child>>

DeferFork == /\ \/ Main("fork", "waitpid") /\ cpc' = "kill1"
                \/ Main("fork", "exit1")   /\ cpc' = cpc
             /\ UNCHANGED <<clock, sig, flags, test, stack, answers, cwake, data, orphan>>

\* Mutant: main does not wait for the child.
NoWaitpid == /\ Main("waitpid", "compare")
             /\ UNCHANGED <<clock, sig, flags, test, stack, answers, child>>

\* waitpid, called again when a handler has interrupted it.
Waitpid == /\ cpc \in {"exited", "killed"}
           /\ Main("waitpid", "compare")
           /\ UNCHANGED <<clock, sig, flags, test, stack, answers, child>>

DeferCompare == /\ Main("compare", "install")
                /\ prevent' = IF left # 0 THEN "no" ELSE "yes"
                /\ UNCHANGED <<clock, sig, flags, test, stack, reset, restart, child>>

\* Does a read start again when a handler has interrupted it?
ReadInstall == /\ test =< Len(Reads)
               /\ Main("install", "pipe")
               /\ sig' = Signal(sig, Reads[test].signal, Reads[test].flags)
               /\ UNCHANGED <<clock, flags, test, stack, answers, child>>

ReadFork == /\ \/ Main("pipe", "read")  /\ cpc' = "sleep" /\ data' = 0
               \/ Main("pipe", "exit1") /\ UNCHANGED <<cpc, data>>
            /\ UNCHANGED <<clock, sig, flags, test, stack, answers, cwake, orphan>>

\* read blocks while the pipe is empty and the child has its other end.
Readable == data > 0 \/ cpc \in {"exited", "killed"}
Outcome  == IF data > 0 THEN "data" ELSE "eof"

Read == /\ \/ ~Readable /\ Main("read", "reading")
           \/ Readable  /\ Main("read", Outcome)
           \/ Readable  /\ Main("reading", Outcome)
        /\ UNCHANGED <<clock, sig, flags, test, stack, answers, child>>

\* The answer of this read.  The pipe is closed: what an earlier child still
\* does has no effect.
Answer(pc, answer) == /\ Main(pc, "install")
                      /\ restart' = [restart EXCEPT ![test] = answer]
                      /\ test' = test + 1

ReadAnswer == /\ \/ Answer("data", "yes")
                 \/ Answer("eintr", "no")
                 \/ Main("eof", "exit1") /\ UNCHANGED <<restart, test>>
              /\ UNCHANGED <<clock, sig, flags, stack, reset, prevent, child>>

Exit0 == /\ test > Len(Reads)
         /\ Main("install", "exit0")
         /\ UNCHANGED <<clock, sig, flags, test, stack, answers, child>>

---------------------------------------------------------------------------
\* The handlers

Top == stack[1]

InHandler(fn, pc) == /\ stack # <<>> /\ Top.fn = fn /\ Top.pc = pc
                     /\ Deliverable(sig) = {} /\ Alive

\* Where a handler's signal leaves the system call that it interrupted: a pipe
\* that can be read by then is read; else the read is restarted or fails.
AfterSignal(s) ==
  CASE mpc # "reading" -> mpc
    [] mpc = "reading" /\ Readable -> Outcome
    [] mpc = "reading" /\ ~Readable /\ "restart" \in Flags(sig, s) -> "reading"
    [] mpc = "reading" /\ ~Readable /\ "restart" \notin Flags(sig, s) -> "eintr"

\* A sleep that a handler interrupts returns what is left of it, rounded down.
Remaining(f) ==
  IF prompt THEN {n \in 0 .. 5 : n + now \in {f.wake, f.wake - 1}} ELSE 0 .. 4

Awake(n) == [stack EXCEPT ![1].pc = "assign", ![1].rest = n]

\* A signal is delivered: its handler starts, or it kills the parent.
Deliver == \E s \in Deliverable(sig) :
  /\ Alive
  /\ sig' = Enter(sig, s)
  /\ \/ /\ ~IsCaught(sig, s)
        /\ mpc' = "killed"
        /\ stack' = stack
     \/ /\ IsCaught(sig, s)
        /\ LET frame == [fn |-> Handler(sig, s), pc |-> "start",
                         saved |-> sig.mask, wake |-> 0, rest |-> 0]
           IN  \/ /\ stack = <<>>
                  /\ mpc' = AfterSignal(s)
                  /\ stack' = <<frame>>
               \/ /\ stack # <<>>
                  /\ mpc' = mpc
                  /\ IF Top.pc = "sleeping"
                     THEN \E n \in Remaining(Top) :
                            stack' = <<frame>> \o Awake(n)
                     ELSE stack' = <<frame>> \o stack
  /\ UNCHANGED <<clock, flags, test, answers, child>>

EmptyHandler == /\ \/ InHandler("sig_usr1", "start")
                   \/ InHandler("sig_alrm", "start")
                /\ stack' = [stack EXCEPT ![1].pc = "return"]
                /\ UNCHANGED <<clock, sig, flags, mpc, test, answers, child>>

\* Mutant: the handler is not installed again.
Usr2NoInstall == /\ InHandler("sig_usr2", "start")
                 /\ stack' = [stack EXCEPT ![1].pc = "check"]
                 /\ UNCHANGED <<clock, sig, flags, mpc, test, answers, child>>

\* sig_usr2 installs itself again: a second signal in between finds the default
\* action, if the handler was reset.
Usr2Start == /\ InHandler("sig_usr2", "start")
             /\ sig' = Signal(sig, "SIGUSR2", {})
             /\ stack' = [stack EXCEPT ![1].pc = "check"]
             /\ UNCHANGED <<clock, flags, mpc, test, answers, child>>

\* A second signal may come between the test of need_sleep and its clearing.
Usr2Check == /\ InHandler("sig_usr2", "check")
             /\ stack' = [stack EXCEPT ![1].pc = IF needSleep = 1 THEN "clear" ELSE "return"]
             /\ UNCHANGED <<clock, sig, flags, mpc, test, answers, child>>

Usr2Clear == /\ InHandler("sig_usr2", "clear")
             /\ needSleep' = 0
             /\ stack' = [stack EXCEPT ![1].pc = "sleep"]
             /\ UNCHANGED <<clock, sig, left, mpc, test, answers, child>>

Usr2Sleep == /\ InHandler("sig_usr2", "sleep")
             /\ stack' = [stack EXCEPT ![1].pc = "sleeping", ![1].wake = now + left]
             /\ UNCHANGED <<clock, sig, flags, mpc, test, answers, child>>

Usr2Wake == /\ InHandler("sig_usr2", "sleeping")
            /\ prompt => now >= Top.wake
            /\ stack' = Awake(0)
            /\ UNCHANGED <<clock, sig, flags, mpc, test, answers, child>>

\* left_to_sleep = sleep(...), after any handler that interrupted the sleep.
Usr2Assign == /\ InHandler("sig_usr2", "assign")
              /\ left' = Top.rest
              /\ stack' = [stack EXCEPT ![1].pc = "return"]
              /\ UNCHANGED <<clock, sig, needSleep, mpc, test, answers, child>>

Return == /\ stack # <<>> /\ Top.pc = "return" /\ Deliverable(sig) = {} /\ Alive
          /\ sig' = SetMask(sig, Top.saved)
          /\ stack' = Tail(stack)
          /\ UNCHANGED <<clock, flags, mpc, test, answers, child>>

Handlers == \/ EmptyHandler \/ Usr2Start \/ Usr2Check \/ Usr2Clear \/ Usr2Sleep
            \/ Usr2Wake \/ Usr2Assign \/ Return

---------------------------------------------------------------------------
\* The children

Child(from, to) == cpc = from /\ cpc' = to

Send(s) == sig' = IF Alive THEN Generate(sig, s) ELSE sig

\* Of the second question: SIGUSR2, two seconds, SIGUSR2.
ChildKill2 == /\ \/ Child("kill1", "sleep1") \/ Child("kill2", "exited")
              /\ Send("SIGUSR2")
              /\ UNCHANGED <<clock, flags, mpc, test, stack, answers, cwake, data, orphan>>

ChildSleep == /\ \/ Child("sleep1", "sleeping1") \/ Child("sleep", "sleeping")
              /\ cwake' = now + 2
              /\ UNCHANGED <<clock, sig, flags, mpc, test, stack, answers, data, orphan>>

ChildWake == /\ prompt => now >= cwake
             /\ \/ Child("sleeping1", "kill2") \/ Child("sleeping", "kill")
             /\ UNCHANGED <<clock, sig, flags, mpc, test, stack, answers, cwake, data, orphan>>

\* Of the reads: two seconds, the signal, a byte.
ChildKillWrite == /\ \/ Child("kill", "write") /\ Send(Reads[test].signal) /\ UNCHANGED data
                     \/ Child("write", "exited") /\ data' = 1 /\ UNCHANGED sig
                  /\ UNCHANGED <<clock, flags, mpc, test, stack, answers, cwake, orphan>>

\* External: a signal kills the child.
KillChild == /\ cpc \notin {"none", "exited", "killed"}
             /\ cpc' = "killed"
             /\ orphan' = TRUE
             /\ UNCHANGED <<clock, sig, flags, mpc, test, stack, answers, cwake, data>>
---------------------------------------------------------------------------
ChildEnded == cpc \in {"none", "exited", "killed"}

ParentIdle ==
  \/ ~Alive
  \/ /\ Deliverable(sig) = {}
     /\ \/ stack # <<>> /\ Top.pc = "sleeping" /\ now < Top.wake
        \/ stack = <<>> /\ mpc = "waitpid" /\ ~ChildEnded
        \/ stack = <<>> /\ mpc = "reading" /\ ~Readable

ChildIdle == \/ ChildEnded
             \/ cpc \in {"sleeping1", "sleeping"} /\ now < cwake

\* Time passes while a sleep has not ended.
Tick == /\ prompt /\ ParentIdle /\ ChildIdle
        /\ ~ChildEnded \/ (Alive /\ stack # <<>>)
        /\ now' = now + 1
        /\ UNCHANGED <<prompt, sem, sig, flags, mpc, test, stack, answers, child>>

Terminated == ~Alive /\ ChildEnded /\ UNCHANGED vars

MainStep == \/ ResetInstall \/ ResetSelf \/ ResetQuery
            \/ DeferInstall \/ DeferFork \/ Waitpid \/ DeferCompare
            \/ ReadInstall \/ ReadFork \/ Read \/ ReadAnswer \/ Exit0

ParentStep == MainStep \/ Deliver \/ Handlers

ChildStep == ChildKill2 \/ ChildSleep \/ ChildWake \/ ChildKillWrite

Next == ParentStep \/ ChildStep \/ KillChild \/ Tick \/ Terminated

Spec == Init /\ [][Next]_vars

\* Both processes run when they can, and time passes.
FairSpec == Spec /\ WF_vars(ParentStep) /\ WF_vars(ChildStep) /\ WF_vars(Tick)

---------------------------------------------------------------------------
(* Properties *)

\* The first two answers are those of the semantics (87-93, 121-125 of
\* sigaction_semantics.c): the second one, on an idle machine; on a busy one
\* "not prevented" is still never wrong.  No child is killed.
FirstAnswers ==
  /\ reset # "none" => (reset = "yes") = (sem = "sysv")
  /\ ~orphan /\ prevent = "no" => sem = "sysv"
  /\ ~orphan /\ prompt /\ prevent = "yes" => sem # "sysv"

\* A read that is reported as not restarted was interrupted by a handler
\* installed without SA_RESTART (sigaction_semantics.c:156, 199, 242, 285).
NotRestartedIsRight ==
  \A k \in 1 .. Len(Reads) :
    restart[k] = "no" => "restart" \notin FlagsOf(Reads[k].flags)

\* Each question starts without a signal of an earlier one, pending or in a
\* handler (sigaction_semantics.c:101, 140, 183, 226, 269).
QuestionsApart == mpc \in {"fork", "pipe"} => sig.pending = {} /\ stack = <<>>

\* The parent is in the window between the start of sig_usr2 and its call of
\* signal (signal_semantics.c:19-23), in which no later handler runs.
InWindow == stack # <<>> /\ Top.fn = "sig_usr2" /\ Top.pc = "start"

\* A signal kills the parent only there: at a SIGUSR2 that finds the default
\* action, since the handler of the first one has not installed itself again.
\* System V semantics opens the window and an idle machine does not hit it.
KilledInWindow == mpc = "killed" => sem = "sysv" /\ ~prompt /\ InWindow

\* The parent ends, by itself or killed in that window: no read waits for a
\* byte that does not come, no wait for a child that does not end.
ParentEnds == <>~Alive

\* What the program prints of the read after "Not set SA_RESTART flag" (129,
\* 172) and "Set SA_RESTART flag" (215, 258) tells whether the handler that
\* interrupted it had SA_RESTART.
RestartedIsRight ==
  \A k \in 1 .. Len(Reads) :
    restart[k] = "yes" => "restart" \in FlagsOf(Reads[k].flags)
---------------------------------------------------------------------------
(* The inductive invariant behind the answers *)

HandlerPlaces == {"start", "check", "clear", "sleep", "sleeping", "assign", "return"}
Frames == [fn : {"sig_usr1", "sig_usr2", "sig_alrm"}, pc : HandlerPlaces,
           saved : {{}}, wake : Nat, rest : 0 .. 5]
TypeOK == /\ prompt \in BOOLEAN /\ now \in Nat /\ sem \in Semantics
          /\ sig \in SignalState(Signals, {"sig_usr1", "sig_usr2", "sig_alrm"})
          /\ needSleep \in {0, 1} /\ left \in 0 .. 5
          /\ mpc \in {"reset", "self", "query", "defer", "fork", "waitpid", "compare",
                      "install", "pipe", "read", "reading", "data", "eof", "eintr",
                      "exit0", "exit1", "killed"}
          /\ test \in 1 .. Len(Reads) + 1
          /\ stack \in Seq(Frames)
          /\ reset \in {"none", "yes", "no"} /\ prevent \in {"none", "yes", "no"}
          /\ restart \in [1 .. 4 -> {"none", "yes", "no"}]
          /\ cpc \in {"none", "kill1", "sleep1", "sleeping1", "kill2", "sleep",
                      "sleeping", "kill", "write", "exited", "killed"}
          /\ cwake \in Nat /\ data \in {0, 1} /\ orphan \in BOOLEAN

\* The handler that Signal or Signal_r installs, and a frame of it.
Installed(s, passed) == sig.act[s] = Catch(HandlerOf(s), FlagsOf(passed))
Frame(f, pc, wake, rest) ==
  [fn |-> f, pc |-> pc, saved |-> {}, wake |-> wake, rest |-> rest]

\* Which child there is, and that it was killed.
Before  == {"reset", "self", "query", "defer", "fork"}
Reading == {"read", "reading", "data", "eof", "eintr"}
Children == /\ mpc \in Before => cpc = "none" /\ needSleep = 1 /\ left = 5 /\ now = 0
            /\ mpc = "waitpid" => cpc \in {"kill1", "sleep1", "sleeping1", "kill2",
                                           "exited", "killed"}
            /\ mpc = "compare" => cpc \in {"exited", "killed"}
            /\ mpc \in {"install", "pipe", "data", "eof", "eintr"} =>
                 cpc \in {"write", "exited", "killed"}
            /\ mpc \in {"read", "reading"} =>
                 cpc \in {"sleep", "sleeping", "kill", "write", "exited", "killed"}
            /\ mpc \in {"read", "reading"} /\ data > 0 => cpc = "exited"
            /\ cpc = "killed" => orphan

\* Only System V semantics lets a signal interrupt its own handler.
SignalOf(f) == CASE f = "sig_usr1" -> "SIGUSR1"
                 [] f = "sig_usr2" -> "SIGUSR2"
                 [] f = "sig_alrm" -> "SIGALRM"
Masked == Alive => sig.mask = IF stack = <<>> \/ sem = "sysv" THEN {}
                              ELSE {SignalOf(Top.fn)}

\* Between the questions nothing is left of the signals.
Quiet == mpc \in {"reset", "self", "defer", "fork", "compare", "install", "pipe"} =>
           sig.pending = {} /\ stack = <<>>

\* A signal with an empty handler is sent once, and caught.
Emptied(f) == stack = <<>> \/ \E p \in {"start", "return"} : stack = <<Frame(f, p, 0, 0)>>

\* The first question: the handler is reset when it starts, or never.
First == /\ mpc = "self" => Installed("SIGUSR1", {})
         /\ mpc = "query" =>
              /\ sig.pending \subseteq {"SIGUSR1"} /\ Emptied("sig_usr1")
              /\ sig.pending # {} => stack = <<>> /\ Installed("SIGUSR1", {})
              /\ sig.pending = {} => IF sem = "sysv" THEN sig.act["SIGUSR1"] = Default
                                     ELSE Installed("SIGUSR1", {})

\* The second question: the handlers that run are sig_usr2.
Usr2Caught == Installed("SIGUSR2", {})
Second == /\ mpc = "fork" => Usr2Caught
          /\ mpc = "waitpid" =>
               /\ sig.pending \subseteq {"SIGUSR2"}
               /\ \A k \in 1 .. Len(stack) : stack[k].fn = "sig_usr2"
               /\ cpc = "kill1" => /\ sig.pending = {} /\ stack = <<>> /\ now = 0
                                   /\ needSleep = 1 /\ left = 5 /\ Usr2Caught
               /\ Usr2Caught \/ (Handler(sig, "SIGUSR2") = "SIG_DFL" /\ InWindow)
               /\ sem # "sysv" => Usr2Caught /\ Len(stack) =< 1
               /\ prompt /\ sig.pending # {} => Usr2Caught

\* If the signal is blocked, the first handler sleeps to the end.
TopIn(places) == stack # <<>> /\ Top.pc \in places
Sent == {"sleep1", "sleeping1", "kill2", "exited"}
SleepsToEnd == mpc = "waitpid" /\ sem # "sysv" =>
  /\ left \in {0, 5}
  /\ TopIn({"assign"}) => Top.rest = 0
  /\ needSleep = 0 /\ left = 5 => TopIn({"sleep", "sleeping", "assign"})
  /\ cpc \in Sent => needSleep = 0 \/ sig.pending # {} \/ TopIn({"start", "check", "clear"})

\* If it is not, the second one interrupts the first on an idle machine, which
\* has slept two of its five seconds.
Usr2(pc, wake, rest) == Frame("sig_usr2", pc, wake, rest)
ToSleep == /\ left = 5
           /\ \/ /\ needSleep = 1
                 /\ \/ stack = <<>> /\ sig.pending # {}
                    \/ stack = <<Usr2("start", 0, 0)>> /\ sig.pending = {}
                    \/ /\ \E p \in {"check", "clear"} : stack = <<Usr2(p, 0, 0)>>
                       /\ sig.pending = {} /\ Usr2Caught
              \/ /\ needSleep = 0 /\ sig.pending = {} /\ Usr2Caught
                 /\ stack = <<Usr2("sleep", 0, 0)>>
Asleep  == needSleep = 0 /\ stack = <<Usr2("sleeping", 5, 0)>> /\ Usr2Caught
Interrupted == /\ needSleep = 0 /\ sig.pending = {}
               /\ \E n \in {2, 3} :
                    \/ \E p \in {"start", "check", "return"} :
                         stack = <<Usr2(p, 0, 0), Usr2("assign", 5, n)>>
                    \/ stack = <<Usr2("assign", 5, n)>>
                    \/ left = n /\ stack = <<Usr2("return", 5, n)>>
                    \/ left = n /\ stack = <<>>
SleepInterrupted == mpc = "waitpid" /\ sem = "sysv" /\ prompt =>
  /\ cpc = "sleep1" => now = 0 /\ (ToSleep \/ (Asleep /\ sig.pending = {}))
  /\ cpc = "sleeping1" =>
       cwake = 2 /\ now =< 2 /\ ((ToSleep /\ now = 0) \/ (Asleep /\ sig.pending = {}))
  /\ cpc = "kill2" => now = 2 /\ Asleep /\ sig.pending = {}
  /\ cpc = "exited" => (Asleep /\ sig.pending # {} /\ now = 2) \/ Interrupted

\* What the two ways of sleeping leave.
Compared == mpc = "compare" /\ ~orphan =>
              /\ sem # "sysv" => left = 0
              /\ sem = "sysv" /\ prompt => left # 0

\* The reads: one signal for each, with the handler of this read.
Awaited == Reads[test].signal
Passed  == Reads[test].flags
Third == /\ mpc = "pipe" \/ mpc \in Reading => test =< Len(Reads)
         /\ mpc = "pipe" => Installed(Awaited, Passed)
         /\ mpc \in Reading =>
              /\ sig.pending \subseteq {Awaited} /\ Emptied(HandlerOf(Awaited))
              /\ cpc \in {"sleep", "sleeping", "kill"} => sig.pending = {}
              /\ cpc \in {"sleep", "sleeping", "kill"} \/ sig.pending # {} =>
                   stack = <<>> /\ Installed(Awaited, Passed)
         /\ mpc = "eintr" => "restart" \notin FlagsOf(Passed)

IInv == /\ TypeOK /\ Children /\ Masked /\ Quiet /\ First /\ Second /\ SleepsToEnd
        /\ SleepInterrupted /\ Compared /\ Third
        /\ FirstAnswers /\ NotRestartedIsRight /\ KilledInWindow
=============================================================================
