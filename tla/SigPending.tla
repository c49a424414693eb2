----------------------------- MODULE SigPending -----------------------------
(***************************************************************************)
(* signals/sigpending.c blocks SIGQUIT, sleeps, shows whether one is       *)
(* pending, restores the mask and sleeps again; its handler resets SIGQUIT *)
(* to the default, so that a second one kills.  signals/sig_mask.c shows   *)
(* the mask that a program starts with.                                    *)
(*                                                                         *)
(* A program inherits its mask from the one that runs it, which may block  *)
(* SIGQUIT.  A sleep ends at any time, by itself or with a handler.        *)
(***************************************************************************)
EXTENDS Naturals, Sequences, PosixSignals

CONSTANT MaxSent    \* bound: the SIGQUITs that other processes send

VARIABLES
  program,    \* "sigpending" or "sig_mask"
  oldmask,    \* the mask that it inherits, and restores
  sig,        \* the signals of the process
  mpc, stack, \* where main is, and the handlers that run
  log,        \* what it prints
  sent        \* how many SIGQUITs were sent

vars == <<program, oldmask, sig, mpc, stack, log, sent>>

Signals == {"SIGQUIT"}
Ends    == {"killed", "ended"}

Init == /\ program \in {"sigpending", "sig_mask"}
        /\ oldmask \in SUBSET Signals
        /\ sig = SetMask(NoActions(Signals), oldmask)
        /\ mpc = IF program = "sigpending" THEN "signal" ELSE "pr_mask"
        /\ stack = <<>> /\ log = <<>> /\ sent = 0

\* It sets SA_RESTART, which no call here obeys.
Signal(f) == Install(sig, "SIGQUIT", f)

InMain(from, to) == /\ stack = <<>> /\ Deliverable(sig) = {}
                    /\ mpc = from /\ mpc' = to
                    /\ UNCHANGED <<program, oldmask, stack, sent>>

PrMask == /\ InMain("pr_mask", "ended")
          /\ log' = Append(log, IF sig.mask = {} THEN "none" ELSE "SIGQUIT")
          /\ UNCHANGED sig

SetHandler == /\ InMain("signal", "block")
              /\ sig' = Signal(Catch("sig_quit", {"restart"}))
              /\ UNCHANGED log

BlockQuit == /\ InMain("block", "sleep")
             /\ sig' = Block(sig, {"SIGQUIT"})
             /\ UNCHANGED log

Sleep == /\ \/ InMain("sleep", "sigpending")
            \/ InMain("sleep again", "exit")
         /\ UNCHANGED <<sig, log>>

Sigpending == /\ InMain("sigpending", "restore")
              /\ log' = IF "SIGQUIT" \in sig.pending THEN Append(log, "pending") ELSE log
              /\ UNCHANGED sig

\* Mutant: SIGQUIT stays blocked.
NoRestore == InMain("restore", "print") /\ UNCHANGED <<sig, log>>

Restore == /\ InMain("restore", "print")
           /\ sig' = SetMask(sig, oldmask)
           /\ UNCHANGED log

PrintUnblocked == /\ InMain("print", "sleep again")
                  /\ log' = Append(log, "unblocked")
                  /\ UNCHANGED sig

Exit == InMain("exit", "ended") /\ UNCHANGED <<sig, log>>

\* The handler starts, or the default action kills.
Deliver == \E s \in Deliverable(sig) :
  /\ mpc \notin Ends
  /\ \/ /\ ~IsCaught(sig, s)
        /\ mpc' = "killed"
        /\ UNCHANGED <<sig, stack>>
     \/ /\ IsCaught(sig, s)
        /\ sig' = Enter(sig, s)
        /\ stack' = <<[pc |-> "catch", saved |-> sig.mask]>> \o stack
        /\ mpc' = IF mpc = "sleep again" THEN "exit" ELSE mpc
  /\ UNCHANGED <<program, oldmask, log, sent>>

InHandler(pc) == /\ stack # <<>> /\ stack[1].pc = pc /\ Deliverable(sig) = {}
                 /\ mpc \notin Ends
                 /\ UNCHANGED <<program, oldmask, mpc, sent>>

PrintCatch == /\ InHandler("catch")
              /\ log' = Append(log, "catch")
              /\ stack' = [stack EXCEPT ![1].pc = "reset"]
              /\ UNCHANGED sig

Reset == /\ InHandler("reset")
         /\ sig' = Signal(Default)
         /\ stack' = [stack EXCEPT ![1].pc = "return"]
         /\ UNCHANGED log

Return == /\ InHandler("return")
          /\ sig' = SetMask(sig, stack[1].saved)
          /\ stack' = Tail(stack)
          /\ UNCHANGED log

\* External: somebody sends SIGQUIT.
Send == /\ sent < MaxSent /\ mpc \notin Ends
        /\ sent' = sent + 1
        /\ sig' = Generate(sig, "SIGQUIT")
        /\ UNCHANGED <<program, oldmask, mpc, stack, log>>

Ended == mpc \in Ends

Step == \/ PrMask \/ SetHandler \/ BlockQuit \/ Sleep \/ Sigpending \/ Restore
        \/ PrintUnblocked \/ Exit \/ Deliver \/ PrintCatch \/ Reset \/ Return

Next == Step \/ Send \/ (Ended /\ UNCHANGED vars)

Spec == Init /\ [][Next]_vars

FairSpec == Spec /\ WF_vars(Step)

---------------------------------------------------------------------------
(* Properties *)

\* What the output of sigpending.c tells: a SIGQUIT shown as pending (62) is
\* caught before "SIGQUIT unblocked" (69), unless the program inherited a mask
\* with SIGQUIT, which the "unblock" of line 65 restores; at most one is caught
\* (32); a program that is killed has caught one or shown nothing yet; sig_mask.c
\* shows SIGQUIT only if it is in the mask that it inherited.
Before(a, b) == \A k \in DOMAIN log : log[k] = b => \E j \in 1 .. k - 1 : log[j] = a
Printed(a)   == \E k \in DOMAIN log : log[k] = a

PendingShown ==
  /\ Printed("pending") /\ oldmask = {} => Before("catch", "unblocked")
  /\ \A j, k \in DOMAIN log : log[j] = "catch" /\ log[k] = "catch" => j = k
  /\ mpc = "killed" => Printed("catch") \/ log = <<>>
  /\ Printed("SIGQUIT") => oldmask # {}

\* The program ends, whatever signals come.
ProgramEnds == <>Ended

---------------------------------------------------------------------------
(* The inductive invariant behind what the output tells *)

\* The handler interrupts main only where nothing is blocked.
Frame(pc)  == [pc |-> pc, saved |-> {}]
IsFrame(s) == \E p \in {"catch", "reset", "return"} : s = <<Frame(p)>>

TypeOK == /\ program \in {"sigpending", "sig_mask"}
          /\ oldmask \subseteq Signals
          /\ sig \in SignalState(Signals, {"sig_quit"})
          /\ mpc \in {"pr_mask", "signal", "block", "sleep", "sigpending", "restore",
                      "print", "sleep again", "exit"} \cup Ends
          /\ stack = <<>> \/ IsFrame(stack)
          /\ log \in Seq({"none", "SIGQUIT", "pending", "unblocked", "catch"})
          /\ sent \in 0 .. MaxSent

\* Main blocks SIGQUIT from block to Restore, the handler while it runs.
Blocked == mpc \in {"sleep", "sigpending", "restore"}
Masked  == mpc \notin Ends =>
             /\ stack = <<>>  => sig.mask = IF Blocked THEN {"SIGQUIT"} ELSE oldmask
             /\ stack # <<>>  => sig.mask = {"SIGQUIT"} /\ ~Blocked /\ oldmask = {}

\* The handler catches one signal, from SetHandler to Reset.
Action  == sig.act["SIGQUIT"]
Catches == /\ mpc \in {"pr_mask", "signal"} => stack = <<>> /\ log = <<>> /\ Action = Default
           /\ mpc \notin {"pr_mask", "signal"} \cup Ends /\ Action = Default => Printed("catch")
           /\ Action \in {Default, Catch("sig_quit", {"restart"})}
           /\ stack = <<Frame("catch")>> => ~Printed("catch") /\ Action # Default
           /\ stack = <<Frame("reset")>> => Printed("catch") /\ Action # Default
           /\ stack = <<Frame("return")>> => Printed("catch") /\ Action = Default
           /\ stack = <<>> /\ Action # Default => ~Printed("catch")

\* What is shown as pending is so until it is caught.
ShownIsKept ==
  /\ mpc \in {"pr_mask", "signal", "block", "sleep", "sigpending"} => ~Printed("pending")
  /\ mpc \in {"pr_mask", "signal", "block", "sleep", "sigpending", "restore", "print"} =>
       ~Printed("unblocked")
  /\ mpc \in {"restore", "print"} /\ Printed("pending") /\ oldmask = {} =>
       \/ Printed("catch") \/ "SIGQUIT" \in sig.pending
       \/ stack = <<Frame("catch")>>

IInv == TypeOK /\ Masked /\ Catches /\ ShownIsKept /\ PendingShown
=============================================================================
