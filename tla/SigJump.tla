------------------------------ MODULE SigJump ------------------------------
(***************************************************************************)
(* signals/sigsetjmp.c: main waits in pause; the handler of SIGUSR1 starts *)
(* an alarm, spins until five seconds have passed, so that the handler of  *)
(* SIGALRM runs inside it, and jumps back to sigsetjmp in main.  The lines *)
(* of pr_mask show which signals are blocked.                              *)
(*                                                                         *)
(* Line 58 compares an array with 0 and is never true, and nothing reads   *)
(* canjump: the handler jumps whenever it runs.  A jump through a jmpbuf   *)
(* that was not set, or into main after it has returned, is undefined and  *)
(* ends the behaviour here.                                                *)
(*                                                                         *)
(* As in SigQueued, the file compiles only where SA_RESTART is not defined *)
(* (line 88).  The second of alarm and time is the unit of time.           *)
(***************************************************************************)
EXTENDS Naturals, Sequences, PosixSignals

CONSTANT MaxSent    \* the SIGUSR1s that other processes send

AlarmTime == 3
SpinTime  == 5

VARIABLES
  option,    \* argv[1]
  sig,       \* the signals of the process
  mpc,       \* where main is
  stack,     \* the handlers that run, the innermost first
  jmpmask,   \* the mask in jmpbuf
  canjump,   \* the variable of the program
  could,     \* canjump when sig_usr1 last started
  alarm,     \* seconds until SIGALRM, 0 if there is no alarm
  elapsed,   \* seconds since starttime, as far as the loop tells them apart
  log,       \* the lines of pr_mask
  sent       \* how many SIGUSR1s were sent

time == <<alarm, elapsed>>
jump == <<option, jmpmask, canjump, could>>
vars == <<sig, mpc, stack, jump, time, log, sent>>

Signals == {"SIGUSR1", "SIGALRM"}
Ends    == {"killed", "undefined", "ended"}

Init == /\ option \in {0, 1}
        /\ sig = NoActions(Signals)
        /\ mpc = "signal usr1" /\ stack = <<>>
        /\ jmpmask = {} /\ canjump = 0 /\ could = 0
        /\ alarm = 0 /\ elapsed = 0
        /\ log = <<>>
        /\ sent = 0

PrMask(line) == log' = Append(log, [line |-> line, mask |-> sig.mask])

---------------------------------------------------------------------------
\* main

InMain(from, to) == /\ stack = <<>> /\ Deliverable(sig) = {}
                    /\ mpc = from /\ mpc' = to

\* It sets no flag, see above.
Signal(signo, f) == Install(sig, signo, Catch(f, {}))

SignalUsr1 == /\ InMain("signal usr1", "signal alrm")
              /\ sig' = Signal("SIGUSR1", "sig_usr1")
              /\ UNCHANGED <<stack, jump, time, log, sent>>

SignalAlrm == /\ InMain("signal alrm", "sigsetjmp")
              /\ sig' = Signal("SIGALRM", "sig_alrm")
              /\ UNCHANGED <<stack, jump, time, log, sent>>

\* sigsetjmp(jmpbuf, option) returns 0 and saves the mask if option is 1.
Sigsetjmp == /\ InMain("sigsetjmp", "canjump")
             /\ jmpmask' = IF option = 1 THEN sig.mask ELSE jmpmask
             /\ UNCHANGED <<sig, stack, option, canjump, could, time, log, sent>>

SetCanjump == /\ InMain("canjump", "pause")
              /\ canjump' = 1
              /\ UNCHANGED <<sig, stack, option, jmpmask, could, time, log, sent>>

Pause == /\ InMain("pause", "pausing")
         /\ UNCHANGED <<sig, stack, jump, time, log, sent>>

\* sigsetjmp has returned 1.
Ending == /\ InMain("ending", "exit")
          /\ PrMask("ending")
          /\ UNCHANGED <<sig, stack, jump, time, sent>>

Exit == /\ InMain("exit", "ended")
        /\ UNCHANGED <<sig, stack, jump, time, log, sent>>

---------------------------------------------------------------------------
\* The handlers

\* A handler starts, or the default action kills; pause ends with the handler.
Deliver == \E s \in Deliverable(sig) :
  /\ mpc \notin Ends
  /\ \/ /\ ~IsCaught(sig, s)
        /\ mpc' = "killed"
        /\ UNCHANGED <<sig, stack, could>>
     \/ /\ IsCaught(sig, s)
        /\ sig' = Enter(sig, s)
        /\ stack' = <<[fn |-> Handler(sig, s), pc |-> "start",
                       saved |-> sig.mask]>> \o stack
        /\ mpc' = IF mpc = "pausing" THEN "pause" ELSE mpc
        /\ could' = IF s = "SIGUSR1" THEN canjump ELSE could
  /\ UNCHANGED <<option, jmpmask, canjump, time, log, sent>>

InHandler(fn, pc) == /\ stack # <<>> /\ stack[1].fn = fn /\ stack[1].pc = pc
                     /\ Deliverable(sig) = {} /\ mpc \notin Ends

HandlerGoto(pc) == stack' = [stack EXCEPT ![1].pc = pc]

UsrStart == /\ InHandler("sig_usr1", "start")
            /\ PrMask("starting")
            /\ HandlerGoto("alarm")
            /\ UNCHANGED <<sig, mpc, jump, time, sent>>

\* Mutant: alarm(7).
LateAlarm == /\ InHandler("sig_usr1", "alarm")
             /\ alarm' = 7
             /\ HandlerGoto("time")
             /\ UNCHANGED <<sig, mpc, jump, elapsed, log, sent>>

UsrAlarm == /\ InHandler("sig_usr1", "alarm")
            /\ alarm' = AlarmTime
            /\ HandlerGoto("time")
            /\ UNCHANGED <<sig, mpc, jump, elapsed, log, sent>>

UsrTime == /\ InHandler("sig_usr1", "time")
           /\ elapsed' = 0
           /\ HandlerGoto("spin")
           /\ UNCHANGED <<sig, mpc, jump, alarm, log, sent>>

\* time(NULL) > starttime + 5
UsrSpin == /\ InHandler("sig_usr1", "spin")
           /\ elapsed > SpinTime
           /\ HandlerGoto("finish")
           /\ UNCHANGED <<sig, mpc, jump, time, log, sent>>

UsrFinish == /\ InHandler("sig_usr1", "finish")
             /\ PrMask("finishing")
             /\ HandlerGoto("siglongjmp")
             /\ UNCHANGED <<sig, mpc, jump, time, sent>>

\* jmpbuf was set, and main has not returned.
JumpDefined == mpc \in {"canjump", "pause", "pausing", "ending"}

Siglongjmp == /\ mpc' = IF JumpDefined THEN "ending" ELSE "undefined"
              /\ stack' = <<>>
              /\ sig' = IF option = 1 THEN SetMask(sig, jmpmask) ELSE sig

\* Mutant: canjump is not reset.
JumpNoReset == /\ InHandler("sig_usr1", "siglongjmp")
               /\ Siglongjmp
               /\ UNCHANGED <<jump, time, log, sent>>

UsrJump == /\ InHandler("sig_usr1", "siglongjmp")
           /\ canjump' = 0
           /\ Siglongjmp
           /\ UNCHANGED <<option, jmpmask, could, time, log, sent>>

AlrmStart == /\ InHandler("sig_alrm", "start")
             /\ PrMask("alrm")
             /\ HandlerGoto("return")
             /\ UNCHANGED <<sig, mpc, jump, time, sent>>

Return == /\ stack # <<>> /\ stack[1].pc = "return"
          /\ Deliverable(sig) = {} /\ mpc \notin Ends
          /\ sig' = SetMask(sig, stack[1].saved)
          /\ stack' = Tail(stack)
          /\ UNCHANGED <<mpc, jump, time, log, sent>>

---------------------------------------------------------------------------
\* External: other processes send SIGUSR1, and time passes.

Send == /\ sent < MaxSent /\ mpc \notin Ends
        /\ sent' = sent + 1
        /\ sig' = Generate(sig, "SIGUSR1")
        /\ UNCHANGED <<mpc, stack, jump, time, log>>

Spinning == \E k \in DOMAIN stack : stack[k].pc = "spin"

Tick == /\ mpc \notin Ends
        /\ alarm > 0 \/ (Spinning /\ elapsed =< SpinTime)
        /\ alarm' = IF alarm > 0 THEN alarm - 1 ELSE 0
        /\ elapsed' = IF elapsed > SpinTime THEN elapsed ELSE elapsed + 1
        /\ sig' = IF alarm = 1 THEN Generate(sig, "SIGALRM") ELSE sig
        /\ UNCHANGED <<mpc, stack, jump, log, sent>>

\* The process has ended, or waits for a signal that nobody sends any more.
Quiet == /\ mpc = "pausing" /\ stack = <<>> /\ sig.pending = {}
         /\ sent = MaxSent

Terminated == (mpc \in Ends \/ Quiet) /\ UNCHANGED vars

MainStep == \/ SignalUsr1 \/ SignalAlrm \/ Sigsetjmp \/ SetCanjump \/ Pause
            \/ Ending \/ Exit

HandlerStep == \/ Deliver \/ UsrStart \/ UsrAlarm \/ UsrTime \/ UsrSpin
               \/ UsrFinish \/ UsrJump \/ AlrmStart \/ Return

Next == MainStep \/ HandlerStep \/ Send \/ Tick \/ Terminated

Spec == Init /\ [][Next]_vars

\* The process runs when it can, and time passes.
FairSpec == Spec /\ WF_vars(MainStep) /\ WF_vars(HandlerStep) /\ WF_vars(Tick)

---------------------------------------------------------------------------
(* Properties *)

\* What the program shows (sigsetjmp.c:36-37, 51, 61, 69): SIGUSR1 is blocked
\* in its handler and both are in the handler of SIGALRM; after the jump nothing
\* is, if sigsetjmp saved the mask, and SIGUSR1 still is if not.  The line of
\* the alarm comes between the other two of sig_usr1, however slow the machine.
MaskShown(entry) ==
  entry.mask = CASE entry.line = "alrm"   -> {"SIGUSR1", "SIGALRM"}
                 [] entry.line = "ending" -> IF option = 1 THEN {} ELSE {"SIGUSR1"}
                 [] OTHER                 -> {"SIGUSR1"}

MasksShown ==
  \A k \in DOMAIN log :
    /\ MaskShown(log[k])
    /\ log[k].line = "finishing" => k > 1 /\ log[k - 1].line = "alrm"
    /\ log[k].line = "alrm"      => k > 1 /\ log[k - 1].line = "starting"

\* Without the saved mask, SIGUSR1 stays blocked after the jump
\* (sigsetjmp.c:36-39), so that main ends once and the jump is undefined only
\* if the signal came before sigsetjmp.  And canjump (41, 71) tells what line 58
\* should test: it was 0 when sig_usr1 started for every jump that is undefined.
IsEnding(k) == log[k].line = "ending"

JumpsOnce ==
  /\ option = 0 =>
       /\ \A j, k \in DOMAIN log : IsEnding(j) /\ IsEnding(k) => j = k
       /\ mpc = "undefined" => \A k \in DOMAIN log : ~IsEnding(k)
  /\ mpc = "undefined" => could = 0

\* A SIGUSR1 ends the program, also when it comes just before pause
\* (sigsetjmp.c:43-44, 72): the jump leaves no signal waiting in vain.
SignalEnds == (sent > 0) ~> (mpc \in Ends)

---------------------------------------------------------------------------
(* The inductive invariant behind the two properties *)

\* The handlers that can run: sig_usr1, and sig_alrm inside it while it waits.
Usr(pc)  == [fn |-> "sig_usr1", pc |-> pc, saved |-> {}]
Alrm(pc) == [fn |-> "sig_alrm", pc |-> pc, saved |-> {"SIGUSR1"}]

UsrPlaces == {"start", "alarm", "time", "spin", "finish", "siglongjmp"}

IsUsr(s)  == \E p \in UsrPlaces : s = <<Usr(p)>>
IsAlrm(s) == \E q \in {"start", "return"}, p \in {"time", "spin"} : s = <<Alrm(q), Usr(p)>>

Lines == {"starting", "alrm", "finishing", "ending"}

TypeOK == /\ option \in {0, 1}
          /\ sig \in SignalState(Signals, {"sig_usr1", "sig_alrm"})
          /\ mpc \in {"signal usr1", "signal alrm", "sigsetjmp", "canjump", "pause",
                      "pausing", "ending", "exit"} \cup Ends
          /\ stack = <<>> \/ IsUsr(stack) \/ IsAlrm(stack)
          /\ jmpmask = {} /\ canjump \in {0, 1} /\ could \in {0, 1}
          /\ alarm \in 0 .. AlarmTime /\ elapsed \in 0 .. SpinTime + 1
          /\ log \in Seq([line : Lines, mask : SUBSET Signals])
          /\ sent \in 0 .. MaxSent

\* What is installed is the program's, without a flag.
Installed == /\ sig.act["SIGUSR1"] \in {Default, Catch("sig_usr1", {})}
             /\ sig.act["SIGALRM"] \in {Default, Catch("sig_alrm", {})}

\* The mask is that of the handlers that run, but after a jump without it.
Jumped == mpc \in {"ending", "exit", "ended", "undefined"}
Masked == /\ stack = <<>>   => sig.mask = IF option = 0 /\ Jumped THEN {"SIGUSR1"} ELSE {}
          /\ IsUsr(stack)  => sig.mask = {"SIGUSR1"}
          /\ IsAlrm(stack) => sig.mask = {"SIGUSR1", "SIGALRM"}
          /\ stack # <<>>   => ~(option = 0 /\ Jumped)

\* The alarm goes off while sig_usr1 waits for it, and before it has waited
\* long enough.
Due     == alarm > 0 \/ "SIGALRM" \in sig.pending
Waiting == stack \in {<<Usr("time")>>, <<Usr("spin")>>}
AlarmOnTime == /\ Due => Waiting
               /\ "SIGALRM" \in sig.pending => alarm = 0
               /\ alarm > 0 /\ stack = <<Usr("spin")>> => alarm + elapsed =< AlarmTime

\* The last line that is shown.
Last(line) == log # <<>> /\ log[Len(log)].line = line
LastShown ==
  /\ stack = <<Usr("alarm")>>                   => Last("starting")
  /\ Waiting /\ Due                             => Last("starting")
  /\ IsAlrm(stack) /\ stack[1].pc = "start"     => Last("starting")
  /\ IsAlrm(stack) /\ stack[1].pc = "return"    => Last("alrm")
  /\ Waiting /\ ~Due                            => Last("alrm")
  /\ stack = <<Usr("finish")>>                  => Last("alrm")

\* canjump is set from SetCanjump to the jump.
Canjump == /\ mpc \notin {"pause", "pausing", "killed"} => canjump = 0
           /\ mpc \notin {"pause", "pausing", "killed"} /\ stack # <<>> => could = 0
           /\ mpc = "undefined" => could = 0

\* Without the saved mask there is one jump, and its line is shown at the end.
NoEnding == option = 0 /\ mpc \notin {"exit", "ended"} =>
              \A k \in DOMAIN log : ~IsEnding(k)

IInv == /\ TypeOK /\ Installed /\ Masked /\ AlarmOnTime /\ LastShown /\ Canjump
        /\ NoEnding /\ MasksShown /\ JumpsOnce
=============================================================================
