--------------------------- MODULE Signals_proofs ---------------------------
(***************************************************************************)
(* The programs about signals: the inductive invariants of SigQueued,      *)
(* SigSemantics, SigJump and SigPending, and what they say of the          *)
(* composition that the model checker runs.                                *)
(***************************************************************************)
EXTENDS MCSignals, SequenceTheorems, FiniteSetTheorems, TLAPS

\* Stacks of one and two handlers.
LEMMA One ==
  ASSUME NEW f, NEW g
  PROVE  /\ <<f>> # <<>> /\ <<f>>[1] = f /\ Tail(<<f>>) = <<>>
         /\ [<<f>> EXCEPT ![1] = g] = <<g>>
         /\ <<f>> \o <<>> = <<f>>
<1>1. <<f>> # <<>> /\ <<f>>[1] = f /\ Tail(<<f>>) = <<>>
  OBVIOUS
<1>2. [<<f>> EXCEPT ![1] = g] = <<g>>
  OBVIOUS
<1>3. <<f>> \in Seq({f})
  OBVIOUS
<1>4. <<f>> \o <<>> = <<f>>
  BY <1>3, ConcatEmptySeq
<1> QED
  BY <1>1, <1>2, <1>4

LEMMA Two ==
  ASSUME NEW f, NEW g, NEW h
  PROVE  /\ <<f, h>> # <<>> /\ <<f, h>>[1] = f /\ Tail(<<f, h>>) = <<h>>
         /\ <<g>> # <<f, h>>
         /\ [<<f, h>> EXCEPT ![1] = g] = <<g, h>>
         /\ <<f>> \o <<h>> = <<f, h>>
<1>1. <<f, h>> # <<>> /\ <<f, h>>[1] = f /\ Tail(<<f, h>>) = <<h>> /\ <<g>> # <<f, h>>
  OBVIOUS
<1>2. [<<f, h>> EXCEPT ![1] = g] = <<g, h>>
  OBVIOUS
<1>3. <<f>> \o <<h>> = <<f, h>>
  <2> DEFINE E == {f, h}
             t == <<f>> \o <<h>>
             u == <<f, h>>
  <2>1. <<f>> \in Seq(E) /\ <<h>> \in Seq(E) /\ u \in Seq(E)
    OBVIOUS
  <2>2. t \in Seq(E) /\ Len(t) = 2 /\ t[1] = f /\ t[2] = h
    BY <2>1, ConcatProperties
  <2>3. Len(u) = 2 /\ u[1] = f /\ u[2] = h
    OBVIOUS
  <2> HIDE DEF E, t, u
  <2>4. \A i \in 1 .. Len(t) : t[i] = u[i]
    BY <2>2, <2>3
  <2>5. t = u
    BY <2>1, <2>2, <2>3, <2>4, SeqEqual
  <2> QED
    BY <2>5 DEF t, u
<1> QED
  BY <1>1, <1>2, <1>3

---------------------------------------------------------------------------
(* SigQueued: which signals are counted, and what the wait waits for.      *)

QueueSigs   == Q!SignalState(Q!Signals, {"sig_quit", "sig_usr"})
QueuePlaces == {"start", "return", "test", "suspend", "suspended", "clear", "setmask"}
QueueCaught == /\ sig.act["SIGQUIT"] = Q!Catch("sig_quit", {})
               /\ sig.act["SIGUSR1"] = Q!Catch("sig_usr", {})
               /\ sig.act["SIGUSR2"] = Q!Catch("sig_usr", {})

\* What the kernel's operations do to the signals of the parent.
LEMMA QueueGenerated ==
  ASSUME sig \in QueueSigs, QueueCaught, NEW s \in Q!Signals
  PROVE  LET new == Q!Generate(sig, s)
         IN  /\ new \in QueueSigs /\ new.mask = sig.mask /\ new.act = sig.act
             /\ new.pending = sig.pending \cup {s}
<1>1. ~Q!IsIgnored(sig, s)
  BY DEF QueueCaught, Q!Signals, Q!IsIgnored, Q!Handler, Q!Catch
<1> QED
  BY <1>1 DEF QueueSigs, Q!SignalState, Q!Generate

LEMMA QueueEntered ==
  ASSUME sig \in QueueSigs, QueueCaught, NEW s \in Q!Signals
  PROVE  LET new == Q!Enter(sig, s)
         IN  /\ new \in QueueSigs /\ new.act = sig.act
             /\ new.mask = sig.mask \cup {s} /\ new.pending = sig.pending \ {s}
<1>1. "nodefer" \notin Q!Flags(sig, s) /\ "reset" \notin Q!Flags(sig, s)
  BY DEF QueueCaught, Q!Signals, Q!Flags, Q!Catch
<1>2. [sig.act EXCEPT ![s] = sig.act[s]] = sig.act
  BY DEF QueueSigs, Q!SignalState
<1> QED
  BY <1>1, <1>2 DEF QueueSigs, Q!SignalState, Q!Enter

LEMMA QueueMaskSet ==
  ASSUME sig \in QueueSigs, NEW set \in SUBSET Q!Signals
  PROVE  LET new == Q!SetMask(sig, set)
         IN  /\ new \in QueueSigs /\ new.act = sig.act
             /\ new.mask = set /\ new.pending = sig.pending
BY DEF QueueSigs, Q!SignalState, Q!SetMask

LEMMA QueueSignaled ==
  ASSUME NEW x \in QueueSigs, NEW s \in Q!Signals, NEW f \in {"sig_quit", "sig_usr"}
  PROVE  LET new == Q!Signal(x, s, f)
         IN  /\ new \in QueueSigs /\ new.mask = x.mask /\ new.pending = x.pending
             /\ new.act[s] = Q!Catch(f, {})
             /\ \A t \in Q!Signals \ {s} : new.act[t] = x.act[t]
BY DEF QueueSigs, Q!SignalState, Q!Signal, Q!Install, Q!Catch, Q!IsIgnored, Q!Handler

\* The actions that main installs, and the mask of TELL_WAIT.
LEMMA QueueSetUp ==
  ASSUME sig \in QueueSigs, sig.mask = {}, sig.pending = {}
  PROVE  LET new == Q!TellWait(Q!Signal(sig, "SIGQUIT", "sig_quit"))
         IN  /\ new \in QueueSigs /\ new.mask = Q!UserMask /\ new.pending = {}
             /\ new.act["SIGQUIT"] = Q!Catch("sig_quit", {})
             /\ new.act["SIGUSR1"] = Q!Catch("sig_usr", {})
             /\ new.act["SIGUSR2"] = Q!Catch("sig_usr", {})
<1> DEFINE s0 == Q!Signal(sig, "SIGQUIT", "sig_quit")
           s1 == Q!Signal(s0, "SIGUSR1", "sig_usr")
           s2 == Q!Signal(s1, "SIGUSR2", "sig_usr")
<1>1. s0 \in QueueSigs /\ s0.mask = {} /\ s0.pending = {} /\ s0.act["SIGQUIT"] = Q!Catch("sig_quit", {})
  BY QueueSignaled DEF Q!Signals
<1> HIDE DEF s0
<1>2. /\ s1 \in QueueSigs /\ s1.mask = {} /\ s1.pending = {}
      /\ s1.act["SIGQUIT"] = Q!Catch("sig_quit", {}) /\ s1.act["SIGUSR1"] = Q!Catch("sig_usr", {})
  BY <1>1, QueueSignaled DEF Q!Signals
<1> HIDE DEF s1
<1>3. /\ s2 \in QueueSigs /\ s2.mask = {} /\ s2.pending = {}
      /\ s2.act["SIGQUIT"] = Q!Catch("sig_quit", {}) /\ s2.act["SIGUSR1"] = Q!Catch("sig_usr", {})
      /\ s2.act["SIGUSR2"] = Q!Catch("sig_usr", {})
  BY <1>2, QueueSignaled DEF Q!Signals
<1> HIDE DEF s2
<1>4. Q!TellWait(s0) = Q!Block(s2, Q!UserMask)
  BY DEF Q!TellWait, s1, s2
<1>5. LET new == Q!Block(s2, Q!UserMask)
      IN  /\ new \in QueueSigs /\ new.mask = Q!UserMask /\ new.pending = s2.pending /\ new.act = s2.act
  BY <1>3 DEF Q!Block, QueueSigs, Q!SignalState, Q!UserMask, Q!Signals
<1> QED
  BY <1>3, <1>4, <1>5 DEF s0

\* A handler that starts, that goes on, and that returns.
LEMMA QueuePush ==
  ASSUME NEW s \in Seq(Q!Frames), NEW f \in Q!Frames
  PROVE  LET t == <<f>> \o s
         IN  /\ t \in Seq(Q!Frames) /\ Len(t) = Len(s) + 1 /\ t[1] = f
             /\ \A k \in 1 .. Len(s) : t[k + 1] = s[k]
<1>1. <<f>> \in Seq(Q!Frames) /\ Len(<<f>>) = 1 /\ <<f>>[1] = f
  OBVIOUS
<1> QED
  BY <1>1, ConcatProperties

LEMMA QueuePut ==
  ASSUME NEW s \in Seq(Q!Frames), s # <<>>, NEW f \in Q!Frames
  PROVE  LET t == [s EXCEPT ![1] = f]
         IN  /\ t \in Seq(Q!Frames) /\ Len(t) = Len(s) /\ t[1] = f
             /\ \A k \in 2 .. Len(s) : t[k] = s[k]
OBVIOUS

LEMMA QueuePop ==
  ASSUME NEW s \in Seq(Q!Frames), s # <<>>
  PROVE  /\ Tail(s) \in Seq(Q!Frames) /\ Len(Tail(s)) = Len(s) - 1
         /\ \A k \in 1 .. Len(s) - 1 : Tail(s)[k] = s[k + 1]
OBVIOUS

\* What TypeOK says of the stack.
LEMMA QueueStacked ==
  ASSUME Q!TypeOK
  PROVE  /\ stack \in Seq(Q!Frames) /\ Q!Depth \in Nat
         /\ stack # <<>> <=> Q!Depth > 0
         /\ \A k \in 1 .. Q!Depth : stack[k] \in Q!Frames
         /\ sig \in QueueSigs
<1>1. stack \in Seq(Q!Frames) /\ sig \in QueueSigs
  BY DEF Q!TypeOK, QueueSigs
<1>2. /\ Len(stack) \in Nat /\ (stack # <<>> <=> Len(stack) > 0)
      /\ \A k \in 1 .. Len(stack) : stack[k] \in Q!Frames
  BY <1>1
<1> QED
  BY <1>1, <1>2 DEF Q!Depth

\* HandlerGoto.
LEMMA QueueGoes ==
  ASSUME Q!TypeOK, stack # <<>>, NEW p \in QueuePlaces, Q!HandlerGoto(p)
  PROVE  /\ stack' \in Seq(Q!Frames) /\ Len(stack') = Len(stack)
         /\ stack'[1] = [stack[1] EXCEPT !.pc = p]
         /\ \A k \in 2 .. Len(stack) : stack'[k] = stack[k]
<1> DEFINE f == [stack[1] EXCEPT !.pc = p]
<1>1. stack \in Seq(Q!Frames) /\ stack[1] \in Q!Frames
  BY QueueStacked DEF Q!Depth
<1>2. f \in Q!Frames
  BY <1>1 DEF Q!Frames, QueuePlaces
<1>3. stack' = [stack EXCEPT ![1] = f]
  BY DEF Q!HandlerGoto
<1> HIDE DEF f
<1> QED
  BY <1>1, <1>2, <1>3, QueuePut DEF f

---------------------------------------------------------------------------
LEMMA QueueInitIInv == ASSUME Q!Init PROVE Q!IInv
<1>1. stack = <<>> /\ Len(stack) = 0
  BY DEF Q!Init
<1>2. sig = Q!NoActions(Q!Signals)
  BY DEF Q!Init
<1>3. /\ sig \in Q!SignalState(Q!Signals, {"sig_quit", "sig_usr"}) /\ sig.pending = {}
      /\ sig.mask = {} /\ sig.act = [s \in Q!Signals |-> Q!Default]
  BY <1>2 DEF Q!NoActions, Q!SignalState, Q!Signals, Q!Default
<1>4. Q!TypeOK
  <2>1. stack \in Seq(Q!Frames)
    BY <1>1
  <2>2. now = 0 /\ sigcount = 0 /\ mwake = 0 /\ cwake = 0 /\ sent = 0
    BY DEF Q!Init
  <2>3. prompt \in BOOLEAN /\ stray \in BOOLEAN
    BY Zenon DEF Q!Init
  <2> QED
    BY <1>3, <2>1, <2>2, <2>3 DEF Q!Init, Q!TypeOK, Q!NQuit
<1>5. Q!Outside /\ Q!Nested
  BY <1>1, <1>3 DEF Q!Init, Q!Outside, Q!Started, Q!Nested, Q!Depth, Q!Resting,
     Q!AtBottom, Q!Alone, Q!OneMore, Q!TwoMore
<1>6. Q!Waits /\ Q!Tells
  BY <1>1, <1>3 DEF Q!Init, Q!Waits, Q!Tells, Q!Told, Q!Received, Q!Released, Q!Depth
<1>7. Q!Starting = 0 /\ Q!Pending = 0
  BY <1>1, <1>3 DEF Q!Starting, Q!Pending, Q!Depth
<1>8. Q!Counted
  BY <1>7 DEF Q!Counted, Q!Init
<1>9. Q!ChildSent /\ Q!ChildTime /\ Q!Fresh /\ Q!MainTime
  BY <1>1 DEF Q!Init, Q!ChildSent, Q!ChildTime, Q!Fresh, Q!MainTime
<1> QED
  BY <1>4, <1>5, <1>6, <1>8, <1>9 DEF Q!IInv

---------------------------------------------------------------------------
\* A step that neither a handler nor a signal takes part in.
LEMMA QueueQuiet ==
  ASSUME Q!IInv, UNCHANGED <<sig, Q!flags, stack, Q!child, prompt>>,
         mpc' = mpc \/ (mpc # "setup" /\ mpc' # "setup")
  PROVE  Q!Nested' /\ Q!Waits' /\ Q!Tells' /\ Q!Counted' /\ Q!ChildSent'
<1>1. Q!Nested /\ Q!Waits /\ Q!Tells /\ Q!Counted /\ Q!ChildSent
  BY DEF Q!IInv
<1>2. /\ stack' = stack /\ sig' = sig /\ cpc' = cpc /\ sent' = sent /\ prompt' = prompt
      /\ sigcount' = sigcount /\ waitflag' = waitflag /\ sigflag' = sigflag
  BY DEF Q!flags, Q!child
<1>3. Q!Nested'
  BY <1>1, <1>2 DEF Q!Nested, Q!Depth, Q!Bottom, Q!Own, Q!Short, Q!Resting,
     Q!AtBottom, Q!Alone, Q!OneMore, Q!TwoMore
<1>4. Q!Waits' /\ Q!Tells'
  BY <1>1, <1>2 DEF Q!Waits, Q!Tells, Q!Told, Q!Received, Q!Released, Q!Depth, Q!Bottom
<1>5. Q!Counted' /\ Q!ChildSent'
  BY <1>1, <1>2 DEF Q!Counted, Q!Starting, Q!Pending, Q!StartsQuit, Q!Depth, Q!ChildSent
<1> QED
  BY <1>3, <1>4, <1>5

LEMMA QueueSetupIInv == ASSUME Q!IInv, Q!Setup PROVE Q!IInv'
<1>1. /\ mpc = "setup" /\ mpc' = "fork" /\ stack = <<>> /\ stack' = stack
      /\ sig' = Q!TellWait(Q!Signal(sig, "SIGQUIT", "sig_quit"))
      /\ UNCHANGED <<Q!clock, Q!flags, mwake, verdict, Q!child>>
      /\ cpc = "none" /\ sig.pending = {} /\ sig.mask = {}
  BY DEF Q!Setup, Q!IInv, Q!Outside, Q!Started
<1>2. /\ sig' \in QueueSigs /\ sig'.mask = Q!UserMask /\ sig'.pending = {}
      /\ sig'.act["SIGQUIT"] = Q!Catch("sig_quit", {})
      /\ sig'.act["SIGUSR1"] = Q!Catch("sig_usr", {})
      /\ sig'.act["SIGUSR2"] = Q!Catch("sig_usr", {})
  BY <1>1, QueueSetUp DEF Q!IInv, Q!TypeOK, QueueSigs
<1>3. Q!TypeOK'
  BY <1>1, <1>2 DEF Q!IInv, Q!TypeOK, QueueSigs, Q!clock, Q!flags, Q!child
<1>4. Len(stack) = 0 /\ Len(stack') = 0
  BY <1>1
<1>5. Q!Outside'
  BY <1>1, <1>2 DEF Q!IInv, Q!Outside, Q!Started, Q!flags, Q!child
<1>6. Q!Nested'
  BY <1>2, <1>4 DEF Q!Nested, Q!Depth, Q!Resting, Q!AtBottom, Q!Alone, Q!OneMore,
     Q!TwoMore
<1>7. Q!Waits' /\ Q!Tells'
  BY <1>1, <1>2, <1>4 DEF Q!IInv, Q!Outside, Q!Started, Q!Waits, Q!Tells, Q!Told,
     Q!Received, Q!Released, Q!Depth, Q!flags, Q!child
<1>8. Q!Starting' = Q!Starting /\ Q!Pending' = Q!Pending
  BY <1>1, <1>2, <1>4 DEF Q!Starting, Q!Pending, Q!Depth
<1>9. Q!Counted' /\ Q!ChildSent'
  BY <1>1, <1>8 DEF Q!IInv, Q!Counted, Q!ChildSent, Q!clock, Q!flags, Q!child
<1>10. Q!ChildTime' /\ Q!Fresh' /\ Q!MainTime'
  BY <1>1, <1>2, <1>4 DEF Q!IInv, Q!ChildTime, Q!Fresh, Q!MainTime, Q!ChildEnded,
     Q!clock, Q!child, Q!Depth
<1> QED
  BY <1>3, <1>5, <1>6, <1>7, <1>9, <1>10 DEF Q!IInv

LEMMA QueueForkIInv == ASSUME Q!IInv, Q!Fork PROVE Q!IInv'
<1>1. /\ mpc = "fork" /\ stack = <<>> /\ stack' = stack /\ sig' = sig
      /\ UNCHANGED <<Q!clock, Q!flags, mwake, verdict, sent, cwake, stray>>
      /\ cpc = "none" /\ sig.pending = {}
      /\ \/ mpc' = "sleep" /\ cpc' = "kill"
         \/ mpc' = "exited" /\ cpc' = "none"
  BY DEF Q!Fork, Q!IInv, Q!Outside, Q!Started
<1>2. Len(stack) = 0 /\ Len(stack') = 0
  BY <1>1
<1>3. Q!TypeOK'
  BY <1>1 DEF Q!IInv, Q!TypeOK, Q!clock, Q!flags
<1>4. Q!Outside'
  BY <1>1 DEF Q!IInv, Q!Outside, Q!Started, Q!flags
<1>5. Q!Nested'
  BY <1>1, <1>2 DEF Q!IInv, Q!Nested, Q!Depth, Q!Resting, Q!AtBottom, Q!Alone,
     Q!OneMore, Q!TwoMore
<1>6. Q!Waits' /\ Q!Tells'
  BY <1>1, <1>2 DEF Q!IInv, Q!Outside, Q!Started, Q!Waits, Q!Tells, Q!Told,
     Q!Received, Q!Released, Q!Depth, Q!flags
<1>7. Q!Starting' = Q!Starting /\ Q!Pending' = Q!Pending
  BY <1>1, <1>2 DEF Q!Starting, Q!Pending, Q!Depth
<1>8. Q!Counted'
  BY <1>1, <1>7 DEF Q!IInv, Q!Counted, Q!clock, Q!flags
<1>9. sent = 0 /\ (prompt => now = 0)
  BY <1>1 DEF Q!IInv, Q!ChildSent, Q!ChildTime
<1>10. Q!ChildSent' /\ Q!ChildTime'
  BY <1>1, <1>9 DEF Q!ChildSent, Q!ChildTime, Q!NQuit, Q!clock
<1>11. Q!Fresh' /\ Q!MainTime'
  BY <1>1, <1>2 DEF Q!IInv, Q!Fresh, Q!MainTime, Q!ChildEnded, Q!clock, Q!Depth
<1> QED
  BY <1>3, <1>4, <1>5, <1>6, <1>8, <1>10, <1>11 DEF Q!IInv

LEMMA QueueMainSleepIInv == ASSUME Q!IInv, Q!MainSleep PROVE Q!IInv'
<1>1. /\ mpc = "sleep" /\ mpc' = "sleeping" /\ mwake' = now + Q!ParentSleep
      /\ UNCHANGED <<Q!clock, sig, Q!flags, verdict, stack, Q!child>>
  BY DEF Q!MainSleep
<1>2. Q!Nested' /\ Q!Waits' /\ Q!Tells' /\ Q!Counted' /\ Q!ChildSent'
  BY <1>1, QueueQuiet DEF Q!clock
<1>3. now \in Nat
  BY DEF Q!IInv, Q!TypeOK
<1>4. Q!TypeOK'
  BY <1>1, <1>3 DEF Q!IInv, Q!TypeOK, Q!clock, Q!flags, Q!child, Q!ParentSleep
<1>5. Q!Outside'
  BY <1>1 DEF Q!IInv, Q!Outside, Q!Started, Q!flags, Q!child
<1>6. Q!ChildTime' /\ Q!Fresh'
  BY <1>1 DEF Q!IInv, Q!ChildTime, Q!Fresh, Q!clock, Q!child
<1>7. Q!MainTime'
  BY <1>1, <1>3 DEF Q!IInv, Q!MainTime, Q!ParentSleep, Q!clock, Q!child
<1> QED
  BY <1>2, <1>4, <1>5, <1>6, <1>7 DEF Q!IInv

LEMMA QueueMainWakeIInv == ASSUME Q!IInv, Q!MainWake PROVE Q!IInv'
<1>1. /\ mpc = "sleeping" /\ mpc' = "verdict" /\ (prompt => now >= mwake)
      /\ UNCHANGED <<Q!clock, sig, Q!flags, mwake, verdict, stack, Q!child>>
  BY DEF Q!MainWake, Q!InMain
<1>2. Q!Nested' /\ Q!Waits' /\ Q!Tells' /\ Q!Counted' /\ Q!ChildSent'
  BY <1>1, QueueQuiet DEF Q!clock
<1>3. Q!TypeOK'
  BY <1>1 DEF Q!IInv, Q!TypeOK, Q!clock, Q!flags, Q!child
<1>4. Q!Outside'
  BY <1>1 DEF Q!IInv, Q!Outside, Q!Started, Q!flags, Q!child
<1>5. Q!ChildTime' /\ Q!Fresh'
  BY <1>1 DEF Q!IInv, Q!ChildTime, Q!Fresh, Q!clock, Q!child
<1>6. prompt => Q!ChildEnded
  <2>1. sent \in 0 .. 4 /\ now \in Nat /\ mwake \in Nat
    BY DEF Q!IInv, Q!TypeOK, Q!NQuit
  <2>2. prompt => now >= 5
    BY <1>1, <2>1 DEF Q!IInv, Q!MainTime, Q!ParentSleep
  <2>3. cpc \in {"none", "kill", "sleep", "sleeping", "tell", "exited", "killed"}
    BY DEF Q!IInv, Q!TypeOK
  <2> QED
    BY <2>1, <2>2, <2>3 DEF Q!IInv, Q!ChildTime, Q!ChildEnded, Q!NQuit
<1>7. Q!MainTime'
  BY <1>1, <1>6 DEF Q!IInv, Q!MainTime, Q!ChildEnded, Q!clock, Q!child
<1> QED
  BY <1>2, <1>3, <1>4, <1>5, <1>7 DEF Q!IInv

LEMMA QueueVerdictIInv == ASSUME Q!IInv, Q!Verdict PROVE Q!IInv'
<1>1. /\ mpc = "verdict" /\ mpc' = "exited" /\ stack = <<>> /\ Q!Deliverable(sig) = {}
      /\ UNCHANGED <<Q!clock, sig, Q!flags, mwake, stack, Q!child>>
  BY DEF Q!Verdict, Q!InMain
<1>2. Q!Nested' /\ Q!Waits' /\ Q!Tells' /\ Q!Counted' /\ Q!ChildSent'
  BY <1>1, QueueQuiet DEF Q!clock
<1>3. Len(stack) = 0
  BY <1>1
<1>4. "SIGQUIT" \notin sig.pending
  BY <1>1, <1>3 DEF Q!IInv, Q!Nested, Q!Resting, Q!Depth, Q!UserMask, Q!Deliverable
<1>5. Q!TypeOK'
  BY <1>1 DEF Q!IInv, Q!TypeOK, Q!clock, Q!flags, Q!child
<1>6. Q!Outside'
  BY <1>1, <1>4 DEF Q!IInv, Q!Outside, Q!Started, Q!flags, Q!child
<1>7. Q!ChildTime' /\ Q!Fresh'
  BY <1>1 DEF Q!IInv, Q!ChildTime, Q!Fresh, Q!clock, Q!child
<1>8. Q!MainTime'
  BY <1>1, <1>3 DEF Q!IInv, Q!MainTime, Q!ChildEnded, Q!Depth, Q!clock, Q!child
<1> QED
  BY <1>2, <1>5, <1>6, <1>7, <1>8 DEF Q!IInv

---------------------------------------------------------------------------
\* A handler runs: what its steps leave alone.
LEMMA QueueHandling ==
  ASSUME Q!IInv, stack # <<>>, stack' # <<>>, UNCHANGED <<Q!clock, Q!main, Q!child>>,
         sig'.pending = sig.pending, sig'.act = sig.act,
         stack' \in Seq(Q!Frames)
  PROVE  Q!Outside' /\ Q!ChildSent' /\ Q!ChildTime' /\ Q!Fresh' /\ Q!MainTime'
<1>1. /\ prompt' = prompt /\ now' = now /\ mpc' = mpc /\ mwake' = mwake
      /\ cpc' = cpc /\ sent' = sent /\ cwake' = cwake /\ stray' = stray
  BY DEF Q!clock, Q!main, Q!child
<1>2. Len(stack') # 0
  OBVIOUS
<1>3. mpc \notin {"setup", "fork", "exited"}
  BY DEF Q!IInv, Q!Outside, Q!Started
<1>4. Q!Outside'
  BY <1>1, <1>3 DEF Q!IInv, Q!Outside, Q!Started
<1>5. Q!ChildSent' /\ Q!ChildTime' /\ Q!Fresh'
  BY <1>1 DEF Q!IInv, Q!ChildSent, Q!ChildTime, Q!Fresh
<1>6. Q!MainTime'
  BY <1>1, <1>2 DEF Q!IInv, Q!MainTime, Q!Depth
<1> QED
  BY <1>4, <1>5, <1>6

\* Where the innermost handler of SIGQUIT can be.
LEMMA QueueInQuit ==
  ASSUME Q!IInv, NEW p \in QueuePlaces, Q!InHandler("sig_quit", p)
  PROVE  /\ stack # <<>> /\ Q!Depth \in {1, 2, 3} /\ stack[1] \in Q!Frames
         /\ stack[1].fn = "sig_quit" /\ stack[1].pc = p /\ Q!Deliverable(sig) = {}
         /\ p \notin {"start", "return"} => Q!Depth = 1
<1>1. stack # <<>> /\ stack[1].fn = "sig_quit" /\ stack[1].pc = p /\ Q!Deliverable(sig) = {}
  BY DEF Q!InHandler, Q!Top
<1>2. Q!Depth \in Nat /\ Q!Depth > 0 /\ stack[1] \in Q!Frames
  BY <1>1, QueueStacked DEF Q!IInv
<1>3. Q!Depth \in {1, 2, 3}
  BY <1>2 DEF Q!IInv, Q!Nested
<1>4. p \notin {"start", "return"} => Q!Depth = 1
  BY <1>1, <1>3 DEF Q!IInv, Q!Nested, Q!OneMore, Q!TwoMore, Q!Short
<1> QED
  BY <1>1, <1>2, <1>3, <1>4

LEMMA QueueQuitStartIInv == ASSUME Q!IInv, Q!QuitStart PROVE Q!IInv'
<1>1. /\ Q!InHandler("sig_quit", "start") /\ sigcount' = sigcount + 1
      /\ UNCHANGED <<Q!clock, sig, sigflag, Q!main, Q!child>> /\ waitflag' = 0
      /\ \/ waitflag = 1 /\ Q!HandlerGoto("test")
         \/ waitflag = 0 /\ Q!HandlerGoto("return")
  BY DEF Q!QuitStart
<1>2. /\ stack # <<>> /\ Q!Depth \in {1, 2, 3} /\ stack[1] \in Q!Frames
      /\ stack[1].fn = "sig_quit" /\ stack[1].pc = "start"
  BY <1>1, QueueInQuit DEF QueuePlaces
<1>3. PICK p \in {"test", "return"} : /\ Q!HandlerGoto(p)
                                      /\ p = "test" <=> waitflag = 1
  BY <1>1 DEF Q!IInv, Q!TypeOK
<1>4. /\ stack' \in Seq(Q!Frames) /\ Len(stack') = Len(stack)
      /\ stack'[1] = [stack[1] EXCEPT !.pc = p]
      /\ \A k \in 2 .. Len(stack) : stack'[k] = stack[k]
  BY <1>2, <1>3, QueueGoes DEF QueuePlaces, Q!IInv
<1>5. /\ Q!Depth' = Q!Depth
      /\ stack'[1].fn = "sig_quit" /\ stack'[1].pc = p
      /\ stack'[1].old = stack[1].old /\ stack'[1].saved = stack[1].saved
      /\ Q!Depth >= 2 => stack'[2] = stack[2]
      /\ Q!Depth = 3 => stack'[3] = stack[3]
      /\ Q!Depth >= 2 => p = "return"
  <2>1. Q!Depth >= 2 => waitflag = 0
    BY <1>2 DEF Q!IInv, Q!Waits, Q!TypeOK
  <2> QED
    BY <1>2, <1>3, <1>4, <2>1 DEF Q!Frames, Q!Depth
<1>6. sig' = sig /\ sigflag' = sigflag /\ cpc' = cpc /\ sent' = sent /\ prompt' = prompt /\ mpc' = mpc
  BY <1>1 DEF Q!clock, Q!main, Q!child
<1>7. Q!TypeOK'
  BY <1>1, <1>4 DEF Q!IInv, Q!TypeOK, Q!clock, Q!main, Q!child
<1>8. Q!Outside' /\ Q!ChildSent' /\ Q!ChildTime' /\ Q!Fresh' /\ Q!MainTime'
  <2>1. stack' # <<>>
    BY <1>2, <1>4 DEF Q!Depth
  <2> QED
    BY <1>1, <1>2, <1>4, <2>1, QueueHandling
<1>9. Q!Nested'
  BY <1>2, <1>3, <1>5, <1>6 DEF Q!IInv, Q!Nested, Q!Bottom, Q!Own, Q!Short, Q!Resting,
     Q!AtBottom, Q!Alone, Q!OneMore, Q!TwoMore
<1>10. Q!Waits'
  BY <1>1, <1>2, <1>3, <1>5, <1>6 DEF Q!IInv, Q!Nested, Q!TwoMore, Q!OneMore, Q!Short,
     Q!Waits, Q!Told, Q!Bottom
<1>11. Q!Tells'
  <2>1. Q!Received' = Q!Received /\ (Q!Released' => Q!Released)
    <3>1. Q!Received' = Q!Received
      BY <1>6 DEF Q!Received, Q!Told
    <3>2. Q!Depth = 1 => Q!Bottom = stack[1] /\ sig.mask = Q!Signals /\ Q!Signals # {}
      BY <1>2 DEF Q!IInv, Q!Nested, Q!Alone, Q!Bottom, Q!Signals
    <3>3. Q!Depth = 2 => Q!Bottom = stack[2] /\ Q!Bottom' = stack[2]
      BY <1>5 DEF Q!Bottom
    <3> QED
      BY <1>5, <1>6, <3>1, <3>2, <3>3 DEF Q!Released
  <2>2. \A k \in 1 .. Q!Depth' : stack'[k].fn = stack[k].fn
    BY <1>2, <1>5
  <2>3. Q!Depth > 0 /\ Q!Bottom'.pc \in {"clear", "setmask"} => Q!Bottom.pc \in {"clear", "setmask"}
    BY <1>2, <1>3, <1>5 DEF Q!Bottom
  <2> QED
    BY <1>5, <1>6, <2>1, <2>2, <2>3 DEF Q!IInv, Q!Tells, Q!Told
<1>12. Q!Counted'
  <2>1. Q!Starting = 1
    BY <1>2 DEF Q!Starting, Q!StartsQuit
  <2>2. Q!Starting' = 0
    BY <1>2, <1>3, <1>5 DEF Q!IInv, Q!Nested, Q!AtBottom, Q!OneMore, Q!TwoMore,
       Q!Short, Q!Bottom, Q!Starting, Q!StartsQuit
  <2>3. Q!Pending' = Q!Pending /\ Q!Pending \in {0, 1}
    BY <1>6 DEF Q!Pending
  <2> QED
    BY <1>1, <1>6, <2>1, <2>2, <2>3 DEF Q!IInv, Q!TypeOK, Q!Counted
<1> QED
  BY <1>7, <1>8, <1>9, <1>10, <1>11, <1>12 DEF Q!IInv

\* The masks of WAIT_CHILD.
QueueMaskOf(f, mask) == IF f.pc = "suspended"
                        THEN mask = {} /\ f.old = Q!Signals
                        ELSE mask = Q!Signals \/ (f.pc = "return" /\ mask = {})

\* Where WAIT_CHILD can be: only the handler of the first SIGQUIT is in it.
LEMMA QueueInWait ==
  ASSUME Q!IInv, NEW p \in {"test", "suspend", "clear", "setmask"}, Q!InHandler("sig_quit", p)
  PROVE  /\ stack # <<>> /\ Q!Depth = 1 /\ stack[1] \in Q!Frames /\ Q!Bottom = stack[1]
         /\ stack[1].fn = "sig_quit" /\ stack[1].pc = p /\ stack[1].saved = Q!UserMask
         /\ sig.mask = Q!Signals /\ waitflag = 0
         /\ p \in {"clear", "setmask"} => Q!Received
<1>1. /\ stack # <<>> /\ Q!Depth = 1 /\ stack[1] \in Q!Frames
      /\ stack[1].fn = "sig_quit" /\ stack[1].pc = p
  BY QueueInQuit DEF QueuePlaces
<1>2. Q!Bottom = stack[1]
  BY <1>1 DEF Q!Bottom
<1>3. sig.mask = Q!Signals /\ stack[1].saved = Q!UserMask
  BY <1>1, <1>2 DEF Q!IInv, Q!Nested, Q!Alone, Q!AtBottom
<1>4. waitflag = 0
  BY <1>1, <1>2 DEF Q!IInv, Q!Waits, Q!TypeOK
<1>5. p \in {"clear", "setmask"} => Q!Received
  BY <1>1, <1>2 DEF Q!IInv, Q!Tells
<1> QED
  BY <1>1, <1>2, <1>3, <1>4, <1>5

\* A step of WAIT_CHILD, from p to the place and the mask of f.
LEMMA QueueWaitStep ==
  ASSUME Q!IInv, NEW p \in {"test", "suspend", "clear", "setmask"}, Q!InHandler("sig_quit", p),
         NEW f \in Q!Frames, f.fn = "sig_quit", f.saved = stack[1].saved, f.pc # "start",
         stack' = [stack EXCEPT ![1] = f],
         sig' \in QueueSigs, sig'.pending = sig.pending, sig'.act = sig.act, QueueMaskOf(f, sig'.mask),
         f.pc \in {"test", "suspend", "suspended"} \/ Q!Received,
         sigflag' \in {0, sigflag},
         UNCHANGED <<Q!clock, sigcount, waitflag, Q!main, Q!child>>
  PROVE  Q!IInv'
<1>1. /\ stack # <<>> /\ Q!Depth = 1 /\ stack[1] \in Q!Frames /\ Q!Bottom = stack[1]
      /\ stack[1].fn = "sig_quit" /\ stack[1].pc = p /\ stack[1].saved = Q!UserMask
      /\ waitflag = 0
  BY QueueInWait
<1>2. stack' \in Seq(Q!Frames) /\ Len(stack') = 1 /\ stack'[1] = f
  BY <1>1, QueueStacked, QueuePut DEF Q!IInv, Q!Depth
<1>3. Q!Depth' = 1 /\ Q!Bottom' = f
  BY <1>2 DEF Q!Depth, Q!Bottom
<1>4. cpc' = cpc /\ sent' = sent /\ prompt' = prompt /\ mpc' = mpc
  BY DEF Q!clock, Q!main, Q!child
<1>5. Q!TypeOK'
  BY <1>2 DEF Q!IInv, Q!TypeOK, QueueSigs, Q!clock, Q!main, Q!child
<1>6. Q!Outside' /\ Q!ChildSent' /\ Q!ChildTime' /\ Q!Fresh' /\ Q!MainTime'
  <2>1. stack' # <<>>
    BY <1>2
  <2> QED
    BY <1>1, <1>2, <2>1, QueueHandling
<1>7. Q!Nested'
  BY <1>1, <1>3 DEF Q!Nested, QueueMaskOf, Q!Resting, Q!AtBottom, Q!Alone, Q!OneMore,
     Q!TwoMore
<1>8. Q!Received' = Q!Received /\ Q!Told' = Q!Told
  BY <1>4 DEF Q!Received, Q!Told
<1>9. Q!Waits'
  BY <1>1, <1>3, <1>8 DEF Q!Waits, Q!Received
<1>10. Q!Tells'
  <2>1. \A k \in 1 .. Q!Depth' : stack'[k].fn # "sig_usr"
    BY <1>2, <1>3
  <2>2. Q!Released' => Q!Received'
    BY <1>3, <1>8 DEF Q!Released
  <2>3. sigflag' = 1 => sigflag = 1
    OBVIOUS
  <2>4. f.pc \in {"clear", "setmask"} => Q!Received
    OBVIOUS
  <2> QED
    BY <1>3, <1>8, <2>1, <2>2, <2>3, <2>4 DEF Q!IInv, Q!Tells
<1>11. Q!Counted'
  <2>1. Q!Starting = 0 /\ Q!Starting' = 0
    BY <1>1, <1>2, <1>3 DEF Q!Starting, Q!StartsQuit
  <2>2. Q!Pending' = Q!Pending
    BY DEF Q!Pending
  <2> QED
    BY <1>4, <2>1, <2>2 DEF Q!IInv, Q!Counted
<1> QED
  BY <1>5, <1>6, <1>7, <1>9, <1>10, <1>11 DEF Q!IInv

LEMMA QueueWaitTestIInv == ASSUME Q!IInv, Q!WaitTest PROVE Q!IInv'
<1> DEFINE q == IF sigflag = 0 THEN "suspend" ELSE "clear"
           f == [stack[1] EXCEPT !.pc = q]
<1>1. /\ Q!InHandler("sig_quit", "test") /\ stack' = [stack EXCEPT ![1] = f]
      /\ UNCHANGED <<Q!clock, sig, Q!flags, Q!main, Q!child>>
  BY DEF Q!WaitTest, Q!HandlerGoto
<1>2. /\ stack[1] \in Q!Frames /\ stack[1].fn = "sig_quit" /\ sig.mask = Q!Signals
  BY <1>1, QueueInWait
<1>3. f \in Q!Frames /\ f.fn = "sig_quit" /\ f.saved = stack[1].saved /\ f.pc = q
  BY <1>2 DEF Q!Frames
<1>4. q = "suspend" \/ (q = "clear" /\ Q!Received)
  BY DEF Q!IInv, Q!TypeOK, Q!Tells
<1>5. sig' = sig /\ sig \in QueueSigs /\ QueueMaskOf(f, sig.mask)
  BY <1>1, <1>2, <1>3, <1>4 DEF QueueMaskOf, Q!IInv, Q!TypeOK, QueueSigs
<1> HIDE DEF f
<1> QED
  BY <1>1, <1>3, <1>4, <1>5, QueueWaitStep DEF Q!flags

LEMMA QueueSuspendIInv == ASSUME Q!IInv, Q!Suspend PROVE Q!IInv'
<1> DEFINE f == [stack[1] EXCEPT !.pc = "suspended", !.old = sig.mask]
<1>1. /\ Q!InHandler("sig_quit", "suspend") /\ sig' = Q!SetMask(sig, Q!Zeromask)
      /\ stack' = [stack EXCEPT ![1].pc = "suspended", ![1].old = sig.mask]
      /\ UNCHANGED <<Q!clock, Q!flags, Q!main, Q!child>>
  BY DEF Q!Suspend
<1>2. /\ stack # <<>> /\ stack[1] \in Q!Frames /\ stack[1].fn = "sig_quit" /\ sig.mask = Q!Signals
  BY <1>1, QueueInWait
<1>3. stack' = [stack EXCEPT ![1] = f]
  <2>1. stack \in Seq(Q!Frames) /\ 1 \in DOMAIN stack
    BY <1>2, QueueStacked DEF Q!IInv
  <2> QED
    BY <1>1, <2>1
<1>4. /\ f \in Q!Frames /\ f.fn = "sig_quit" /\ f.saved = stack[1].saved
      /\ f.pc = "suspended" /\ f.old = Q!Signals
  BY <1>2 DEF Q!Frames
<1>5. /\ sig' \in QueueSigs /\ sig'.mask = {} /\ sig'.pending = sig.pending /\ sig'.act = sig.act
  BY <1>1, QueueMaskSet DEF Q!Zeromask, Q!IInv, Q!TypeOK, QueueSigs
<1>6. QueueMaskOf(f, sig'.mask)
  BY <1>4, <1>5 DEF QueueMaskOf
<1> HIDE DEF f
<1> QED
  BY <1>1, <1>3, <1>4, <1>5, <1>6, QueueWaitStep DEF Q!flags

LEMMA QueueWaitClearIInv == ASSUME Q!IInv, Q!WaitClear PROVE Q!IInv'
<1> DEFINE f == [stack[1] EXCEPT !.pc = "setmask"]
<1>1. /\ Q!InHandler("sig_quit", "clear") /\ stack' = [stack EXCEPT ![1] = f] /\ sigflag' = 0
      /\ UNCHANGED <<Q!clock, sig, sigcount, waitflag, Q!main, Q!child>>
  BY DEF Q!WaitClear, Q!HandlerGoto
<1>2. /\ stack[1] \in Q!Frames /\ stack[1].fn = "sig_quit" /\ sig.mask = Q!Signals /\ Q!Received
  BY <1>1, QueueInWait
<1>3. f \in Q!Frames /\ f.fn = "sig_quit" /\ f.saved = stack[1].saved /\ f.pc = "setmask"
  BY <1>2 DEF Q!Frames
<1>4. sig' = sig /\ sig \in QueueSigs /\ QueueMaskOf(f, sig.mask)
  BY <1>1, <1>2, <1>3 DEF QueueMaskOf, Q!IInv, Q!TypeOK, QueueSigs
<1> HIDE DEF f
<1> QED
  BY <1>1, <1>2, <1>3, <1>4, QueueWaitStep

LEMMA QueueWaitSetMaskIInv == ASSUME Q!IInv, Q!WaitSetMask PROVE Q!IInv'
<1> DEFINE f == [stack[1] EXCEPT !.pc = "return"]
<1>1. /\ Q!InHandler("sig_quit", "setmask") /\ stack' = [stack EXCEPT ![1] = f]
      /\ sig' = Q!SetMask(sig, Q!Omask) /\ UNCHANGED <<Q!clock, Q!flags, Q!main, Q!child>>
  BY DEF Q!WaitSetMask, Q!HandlerGoto
<1>2. /\ stack[1] \in Q!Frames /\ stack[1].fn = "sig_quit" /\ Q!Received
  BY <1>1, QueueInWait
<1>3. f \in Q!Frames /\ f.fn = "sig_quit" /\ f.saved = stack[1].saved /\ f.pc = "return"
  BY <1>2 DEF Q!Frames
<1>4. /\ sig' \in QueueSigs /\ sig'.mask = {} /\ sig'.pending = sig.pending /\ sig'.act = sig.act
  BY <1>1, QueueMaskSet DEF Q!Omask, Q!IInv, Q!TypeOK, QueueSigs
<1>5. QueueMaskOf(f, sig'.mask)
  BY <1>3, <1>4 DEF QueueMaskOf
<1> HIDE DEF f
<1> QED
  BY <1>1, <1>2, <1>3, <1>4, <1>5, QueueWaitStep DEF Q!flags

LEMMA QueueUsrStartIInv == ASSUME Q!IInv, Q!UsrStart PROVE Q!IInv'
<1>1. /\ stack # <<>> /\ stack[1].fn = "sig_usr" /\ stack[1].pc = "start"
      /\ sigflag' = 1 /\ Q!HandlerGoto("return")
      /\ UNCHANGED <<Q!clock, sig, sigcount, waitflag, Q!main, Q!child>>
  BY DEF Q!UsrStart, Q!InHandler, Q!Top
<1>2. Q!Depth \in {2, 3} /\ stack[1] \in Q!Frames
  <2>1. Q!Depth \in Nat /\ Q!Depth > 0 /\ stack[1] \in Q!Frames
    BY <1>1, QueueStacked DEF Q!IInv
  <2> QED
    BY <1>1, <2>1 DEF Q!IInv, Q!Nested, Q!AtBottom, Q!Bottom
<1>3. Q!Received
  BY <1>1, <1>2 DEF Q!IInv, Q!Tells
<1>4. /\ stack' \in Seq(Q!Frames) /\ Len(stack') = Len(stack)
      /\ stack'[1] = [stack[1] EXCEPT !.pc = "return"]
      /\ \A k \in 2 .. Len(stack) : stack'[k] = stack[k]
  BY <1>1, QueueGoes DEF QueuePlaces, Q!IInv
<1>5. /\ Q!Depth' = Q!Depth /\ stack' # <<>>
      /\ stack'[1].fn = "sig_usr" /\ stack'[1].pc = "return"
      /\ stack'[1].old = stack[1].old /\ stack'[1].saved = stack[1].saved
      /\ stack'[2] = stack[2] /\ (Q!Depth = 3 => stack'[3] = stack[3])
      /\ Q!Bottom' = Q!Bottom
  BY <1>1, <1>2, <1>4 DEF Q!Frames, Q!Depth, Q!Bottom
<1>6. sig' = sig /\ cpc' = cpc /\ sent' = sent /\ prompt' = prompt /\ mpc' = mpc
  BY <1>1 DEF Q!clock, Q!main, Q!child
<1>7. Q!TypeOK'
  BY <1>1, <1>4 DEF Q!IInv, Q!TypeOK, Q!clock, Q!main, Q!child
<1>8. Q!Outside' /\ Q!ChildSent' /\ Q!ChildTime' /\ Q!Fresh' /\ Q!MainTime'
  BY <1>1, <1>4, <1>5, QueueHandling
<1>9. Q!Nested'
  BY <1>1, <1>2, <1>5, <1>6 DEF Q!IInv, Q!Nested, Q!Own, Q!Short, Q!Resting,
     Q!AtBottom, Q!Alone, Q!OneMore, Q!TwoMore
<1>10. Q!Received' /\ Q!Told' = Q!Told
  BY <1>3, <1>6 DEF Q!Received, Q!Told
<1>11. Q!Waits' /\ Q!Tells'
  BY <1>1, <1>2, <1>5, <1>6, <1>10 DEF Q!IInv, Q!Waits, Q!Tells, Q!Received
<1>12. Q!Counted'
  <2>1. \A k \in 1 .. Q!Depth : Q!StartsQuit(stack[k])' <=> Q!StartsQuit(stack[k])
    BY <1>1, <1>2, <1>5 DEF Q!StartsQuit
  <2>2. Q!Starting' = Q!Starting /\ Q!Pending' = Q!Pending
    BY <1>5, <1>6, <2>1 DEF Q!Starting, Q!Pending
  <2> QED
    BY <1>1, <1>6, <2>2 DEF Q!IInv, Q!Counted
<1> QED
  BY <1>7, <1>8, <1>9, <1>11, <1>12 DEF Q!IInv

LEMMA QueueReturnIInv == ASSUME Q!IInv, Q!Return PROVE Q!IInv'
<1>1. /\ stack # <<>> /\ stack[1].pc = "return" /\ stack' = Tail(stack)
      /\ sig' = Q!SetMask(sig, stack[1].saved)
      /\ UNCHANGED <<Q!clock, Q!flags, Q!main, Q!child>>
  BY DEF Q!Return, Q!Top
<1>2. Q!Depth \in {1, 2, 3} /\ stack[1] \in Q!Frames /\ stack \in Seq(Q!Frames)
  <2>1. Q!Depth \in Nat /\ Q!Depth > 0 /\ stack[1] \in Q!Frames /\ stack \in Seq(Q!Frames)
    BY <1>1, QueueStacked DEF Q!IInv
  <2> QED
    BY <2>1 DEF Q!IInv, Q!Nested
<1>3. stack[1].saved \in SUBSET Q!Signals
  BY <1>2 DEF Q!Frames
<1>4. /\ sig' \in QueueSigs /\ sig'.mask = stack[1].saved /\ sig'.pending = sig.pending
      /\ sig'.act = sig.act
  BY <1>1, <1>3, QueueMaskSet DEF Q!IInv, Q!TypeOK, QueueSigs
<1>5. /\ stack' \in Seq(Q!Frames) /\ Len(stack') = Len(stack) - 1
      /\ \A k \in 1 .. Len(stack) - 1 : stack'[k] = stack[k + 1]
  BY <1>1, <1>2, QueuePop
<1>6. /\ Q!Depth' = Q!Depth - 1
      /\ Q!Depth >= 2 => stack'[1] = stack[2] /\ stack' # <<>>
      /\ Q!Depth = 3 => stack'[2] = stack[3]
      /\ Q!Depth >= 2 => Q!Bottom' = Q!Bottom
      /\ Q!Depth = 1 => stack' = <<>>
  BY <1>2, <1>5 DEF Q!Depth, Q!Bottom
<1>7. /\ cpc' = cpc /\ sent' = sent /\ prompt' = prompt /\ mpc' = mpc /\ now' = now
      /\ cwake' = cwake /\ mwake' = mwake /\ stray' = stray
      /\ sigcount' = sigcount /\ waitflag' = waitflag /\ sigflag' = sigflag
  BY <1>1 DEF Q!clock, Q!main, Q!child, Q!flags
<1>8. Q!TypeOK'
  BY <1>4, <1>5, <1>7 DEF Q!IInv, Q!TypeOK, QueueSigs
<1>9. Q!Depth = 1 => Q!Bottom = stack[1] /\ waitflag = 0 /\ Q!Told
  BY <1>1, <1>2 DEF Q!IInv, Q!TypeOK, Q!Waits, Q!Bottom
<1>10. Q!Outside' /\ Q!ChildSent' /\ Q!ChildTime' /\ Q!Fresh'
  <2>1. mpc \notin {"setup", "fork", "exited"}
    BY <1>1 DEF Q!IInv, Q!Outside, Q!Started
  <2> QED
    BY <1>4, <1>7, <2>1 DEF Q!IInv, Q!Outside, Q!Started, Q!ChildSent, Q!ChildTime,
       Q!Fresh
<1>11. Q!MainTime'
  BY <1>2, <1>6, <1>7, <1>9 DEF Q!IInv, Q!MainTime, Q!ChildEnded, Q!Told
<1>12. Q!Nested'
  BY <1>1, <1>2, <1>4, <1>6, <1>9 DEF Q!IInv, Q!Nested, Q!Own, Q!Short, Q!Resting,
     Q!AtBottom, Q!Alone, Q!OneMore, Q!TwoMore
<1>13. Q!Received' = Q!Received /\ Q!Told' = Q!Told
  BY <1>4, <1>7 DEF Q!Received, Q!Told
<1>14. Q!Waits'
  BY <1>2, <1>6, <1>7, <1>9, <1>13 DEF Q!IInv, Q!Waits
<1>15. Q!Tells'
  <2>1. Q!Released' => Q!Released
    BY <1>2, <1>4, <1>6 DEF Q!IInv, Q!Nested, Q!OneMore, Q!TwoMore, Q!Released,
       Q!Signals
  <2>2. \A k \in 1 .. Q!Depth' : stack'[k] = stack[k + 1] /\ k + 1 \in 1 .. Q!Depth
    BY <1>2, <1>5, <1>6 DEF Q!Depth
  <2>3. Q!Depth' > 0 => Q!Depth > 0 /\ Q!Bottom' = Q!Bottom
    BY <1>2, <1>6
  <2> QED
    BY <1>4, <1>7, <1>13, <2>1, <2>2, <2>3 DEF Q!IInv, Q!Tells
<1>16. Q!Counted'
  <2>1. ~Q!StartsQuit(stack[1])
    BY <1>1 DEF Q!StartsQuit
  <2>2. Q!Starting' = Q!Starting
    BY <1>2, <1>6, <2>1 DEF Q!Starting, Q!StartsQuit
  <2>3. Q!Pending' = Q!Pending
    BY <1>4 DEF Q!Pending
  <2> QED
    BY <1>7, <2>2, <2>3 DEF Q!IInv, Q!Counted
<1> QED
  BY <1>8, <1>10, <1>11, <1>12, <1>14, <1>15, <1>16 DEF Q!IInv

---------------------------------------------------------------------------
\* What Deliver does with the signal s: the handler that starts, and those below it.
QueueSuspended == stack # <<>> /\ Q!Top.pc = "suspended"
QueueFrame(s)  == [fn |-> Q!Handler(sig, s), pc |-> "start", old |-> {},
                   saved |-> IF QueueSuspended THEN Q!Top.old ELSE sig.mask]
QueueBelow     == IF QueueSuspended THEN [stack EXCEPT ![1].pc = "test"] ELSE stack
QueueEnters(s) == /\ s \in Q!Deliverable(sig) /\ mpc # "exited"
                  /\ sig' = Q!Enter(sig, s)
                  /\ stack' = <<QueueFrame(s)>> \o QueueBelow
                  /\ mpc' = IF stack = <<>> /\ mpc = "sleeping" THEN "verdict" ELSE mpc
                  /\ UNCHANGED <<Q!clock, Q!flags, mwake, verdict, Q!child>>

\* The four ways in which a handler starts.
QueueAtRest(s)     == Q!Depth = 0 /\ s = "SIGQUIT" /\ sig.mask = Q!UserMask
QueueWakes(s)      == Q!Depth = 1 /\ Q!Bottom.pc = "suspended" /\ sig.mask = {}
QueueAgain(s)      == /\ Q!Depth = 1 /\ Q!Bottom.pc = "return" /\ sig.mask = {} /\ s = "SIGQUIT"
QueueInterrupts(s) == /\ Q!Depth = 2 /\ Q!Bottom.pc = "test" /\ stack[1].fn # (IF s = "SIGQUIT" THEN "sig_quit" ELSE "sig_usr")

LEMMA QueueWays ==
  ASSUME Q!IInv, NEW s, QueueEnters(s)
  PROVE  /\ s \in {"SIGQUIT", "SIGUSR2"} /\ s \in sig.pending /\ s \notin sig.mask
         /\ QueueAtRest(s) \/ QueueWakes(s) \/ QueueAgain(s) \/ QueueInterrupts(s)
         /\ QueueSuspended <=> QueueWakes(s)
<1>1. s \in sig.pending /\ s \notin sig.mask
  BY DEF QueueEnters, Q!Deliverable
<1>2. s \in {"SIGQUIT", "SIGUSR2"}
  BY <1>1 DEF Q!IInv, Q!TypeOK, Q!SignalState, Q!Signals, Q!Tells
<1>3. mpc # "setup"
  BY <1>1 DEF Q!IInv, Q!Outside, Q!Started
<1>4. Q!Depth \in {0, 1, 2, 3} /\ (stack # <<>> <=> Q!Depth > 0)
  BY QueueStacked DEF Q!IInv, Q!Nested
<1>5. CASE Q!Depth = 0
  BY <1>1, <1>2, <1>3, <1>4, <1>5
  DEF Q!IInv, Q!Nested, Q!Resting, Q!UserMask, QueueAtRest, QueueSuspended, QueueWakes
<1>6. CASE Q!Depth = 1
  <2>1. Q!Bottom = stack[1]
    BY <1>6 DEF Q!Bottom
  <2>2. Q!Bottom.pc \in {"suspended", "return"} /\ sig.mask = {}
    BY <1>1, <1>2, <1>6 DEF Q!IInv, Q!Nested, Q!Alone, Q!Signals
  <2>3. Q!Bottom.pc = "return" => s = "SIGQUIT"
    BY <1>1, <1>2, <1>6, <2>2 DEF Q!IInv, Q!Tells, Q!Released, Q!Received
  <2> QED
    BY <1>1, <1>2, <1>4, <1>6, <2>1, <2>2, <2>3 DEF QueueWakes, QueueAgain,
       QueueSuspended, Q!Top
<1>7. CASE Q!Depth = 2
  <2>1. Q!Short(stack[1]) /\ sig.mask = {Q!Own(stack[1])}
    BY <1>7 DEF Q!IInv, Q!Nested, Q!OneMore
  <2>2. Q!Bottom.pc = "test"
    <3>1. SUFFICES ASSUME Q!Bottom.pc = "return", stack[1].fn = "sig_quit" PROVE FALSE
      BY <1>7 DEF Q!IInv, Q!Nested, Q!OneMore
    <3>2. "SIGUSR2" \notin sig.pending
      BY <1>7, <3>1 DEF Q!IInv, Q!Tells, Q!Released, Q!Received
    <3> QED
      BY <1>1, <1>2, <2>1, <3>1, <3>2 DEF Q!Own
  <2>3. stack[1] \in Q!Frames
    BY <1>7, QueueStacked DEF Q!IInv
  <2>4. stack[1].fn # (IF s = "SIGQUIT" THEN "sig_quit" ELSE "sig_usr")
    BY <1>1, <1>2, <2>1, <2>3 DEF Q!Own, Q!Frames
  <2> QED
    BY <1>1, <1>2, <1>7, <2>1, <2>2, <2>4 DEF QueueInterrupts, QueueSuspended, Q!Top,
       Q!Short, QueueWakes
<1>8. CASE Q!Depth = 3
  BY <1>1, <1>2, <1>8 DEF Q!IInv, Q!Nested, Q!TwoMore
<1> QED
  BY <1>4, <1>5, <1>6, <1>7, <1>8

LEMMA QueueShapes ==
  ASSUME Q!IInv, NEW s, QueueEnters(s)
  PROVE  /\ sig' \in QueueSigs /\ sig'.act = sig.act
         /\ sig'.mask = sig.mask \cup {s} /\ sig'.pending = sig.pending \ {s}
         /\ stack' \in Seq(Q!Frames) /\ Q!Depth' = Q!Depth + 1 /\ stack' # <<>>
         /\ stack'[1].fn = (IF s = "SIGQUIT" THEN "sig_quit" ELSE "sig_usr")
         /\ stack'[1].pc = "start"
         /\ stack'[1].saved = IF QueueWakes(s) THEN Q!Signals ELSE sig.mask
         /\ Q!Depth = 1 => /\ stack'[2].fn = stack[1].fn /\ stack'[2].saved = stack[1].saved
                           /\ stack'[2].pc = IF QueueWakes(s) THEN "test" ELSE stack[1].pc
         /\ Q!Depth = 2 => stack'[2] = stack[1] /\ stack'[3] = stack[2]
<1>1. /\ s \in {"SIGQUIT", "SIGUSR2"} /\ s \in Q!Signals
      /\ QueueAtRest(s) \/ QueueWakes(s) \/ QueueAgain(s) \/ QueueInterrupts(s)
      /\ QueueSuspended <=> QueueWakes(s)
  BY QueueWays DEF Q!Signals
<1>2. sig \in QueueSigs /\ stack \in Seq(Q!Frames) /\ Q!Depth \in {0, 1, 2}
      /\ \A k \in 1 .. Q!Depth : stack[k] \in Q!Frames
      /\ (stack # <<>> <=> Q!Depth > 0)
  BY <1>1, QueueStacked DEF Q!IInv, QueueAtRest, QueueWakes, QueueAgain, QueueInterrupts
<1>3. QueueCaught
  <2>1. mpc # "setup"
    BY <1>1, QueueWays DEF Q!IInv, Q!Outside, Q!Started
  <2> QED
    BY <2>1 DEF Q!IInv, Q!Outside, QueueCaught
<1>4. /\ sig' \in QueueSigs /\ sig'.act = sig.act
      /\ sig'.mask = sig.mask \cup {s} /\ sig'.pending = sig.pending \ {s}
  BY <1>1, <1>2, <1>3, QueueEntered DEF QueueEnters
<1>5. Q!Handler(sig, s) = IF s = "SIGQUIT" THEN "sig_quit" ELSE "sig_usr"
  BY <1>1, <1>3 DEF QueueCaught, Q!Handler, Q!Catch
<1>6. QueueWakes(s) => Q!Top = stack[1] /\ stack[1] = Q!Bottom /\ Q!Bottom.old = Q!Signals
  BY DEF QueueWakes, Q!Top, Q!Bottom, Q!IInv, Q!Nested, Q!Alone
<1>7. /\ QueueFrame(s) \in Q!Frames
      /\ QueueFrame(s).fn = IF s = "SIGQUIT" THEN "sig_quit" ELSE "sig_usr"
      /\ QueueFrame(s).pc = "start"
      /\ QueueFrame(s).saved = IF QueueWakes(s) THEN Q!Signals ELSE sig.mask
  <2>1. sig.mask \in SUBSET Q!Signals
    BY <1>2 DEF QueueSigs, Q!SignalState
  <2> QED
    BY <1>1, <1>5, <1>6, <2>1 DEF QueueFrame, Q!Frames
<1>8. /\ QueueBelow \in Seq(Q!Frames) /\ Len(QueueBelow) = Q!Depth
      /\ Q!Depth = 1 => /\ QueueBelow[1].fn = stack[1].fn /\ QueueBelow[1].saved = stack[1].saved
                        /\ QueueBelow[1].pc = IF QueueWakes(s) THEN "test" ELSE stack[1].pc
      /\ Q!Depth = 2 => QueueBelow[1] = stack[1] /\ QueueBelow[2] = stack[2]
  <2>1. CASE QueueWakes(s)
    <3> DEFINE g == [stack[1] EXCEPT !.pc = "test"]
    <3>1. Q!Depth = 1 /\ stack # <<>> /\ stack[1] \in Q!Frames
      BY <1>2, <2>1 DEF QueueWakes
    <3>2. QueueBelow = [stack EXCEPT ![1] = g]
      BY <1>1, <2>1 DEF QueueBelow
    <3>3. g \in Q!Frames /\ g.fn = stack[1].fn /\ g.saved = stack[1].saved /\ g.pc = "test"
      BY <3>1 DEF Q!Frames
    <3> HIDE DEF g
    <3>4. QueueBelow \in Seq(Q!Frames) /\ Len(QueueBelow) = Len(stack) /\ QueueBelow[1] = g
      BY <1>2, <3>1, <3>2, <3>3, QueuePut
    <3> QED
      BY <2>1, <3>1, <3>3, <3>4 DEF Q!Depth
  <2>2. CASE ~QueueWakes(s)
    BY <1>1, <1>2, <2>2 DEF QueueBelow, Q!Depth
  <2> QED
    BY <2>1, <2>2
<1>9. /\ stack' \in Seq(Q!Frames) /\ Len(stack') = Len(QueueBelow) + 1 /\ stack'[1] = QueueFrame(s)
      /\ \A k \in 1 .. Len(QueueBelow) : stack'[k + 1] = QueueBelow[k]
  BY <1>7, <1>8, QueuePush DEF QueueEnters
<1>10. /\ Q!Depth' = Q!Depth + 1 /\ stack' # <<>>
       /\ Q!Depth = 1 => stack'[2] = QueueBelow[1]
       /\ Q!Depth = 2 => stack'[2] = QueueBelow[1] /\ stack'[3] = QueueBelow[2]
  BY <1>2, <1>8, <1>9 DEF Q!Depth
<1> QED
  BY <1>4, <1>7, <1>8, <1>9, <1>10

LEMMA QueueEntersIInv == ASSUME Q!IInv, NEW s, QueueEnters(s) PROVE Q!IInv'
<1>1. /\ s \in {"SIGQUIT", "SIGUSR2"} /\ s \in sig.pending /\ s \notin sig.mask
      /\ QueueAtRest(s) \/ QueueWakes(s) \/ QueueAgain(s) \/ QueueInterrupts(s)
  BY QueueWays
<1>2. /\ sig' \in QueueSigs /\ sig'.act = sig.act
      /\ sig'.mask = sig.mask \cup {s} /\ sig'.pending = sig.pending \ {s}
      /\ stack' \in Seq(Q!Frames) /\ Q!Depth' = Q!Depth + 1 /\ stack' # <<>>
      /\ stack'[1].fn = (IF s = "SIGQUIT" THEN "sig_quit" ELSE "sig_usr")
      /\ stack'[1].pc = "start"
      /\ stack'[1].saved = IF QueueWakes(s) THEN Q!Signals ELSE sig.mask
      /\ Q!Depth = 1 => /\ stack'[2].fn = stack[1].fn /\ stack'[2].saved = stack[1].saved
                        /\ stack'[2].pc = IF QueueWakes(s) THEN "test" ELSE stack[1].pc
      /\ Q!Depth = 2 => stack'[2] = stack[1] /\ stack'[3] = stack[2]
  BY QueueShapes
<1>3. /\ mpc # "exited" /\ mpc' = IF stack = <<>> /\ mpc = "sleeping" THEN "verdict" ELSE mpc
      /\ prompt' = prompt /\ now' = now /\ mwake' = mwake /\ stray' = stray
      /\ cpc' = cpc /\ sent' = sent /\ cwake' = cwake
      /\ sigcount' = sigcount /\ waitflag' = waitflag /\ sigflag' = sigflag
  BY DEF QueueEnters, Q!clock, Q!flags, Q!child
<1>4. mpc \notin {"setup", "fork"}
  BY <1>1 DEF Q!IInv, Q!Outside, Q!Started
<1>5. Q!Depth \in {0, 1, 2}
  BY <1>1 DEF QueueAtRest, QueueWakes, QueueAgain, QueueInterrupts
<1>6. /\ Q!Depth = 0 => Q!Bottom' = stack'[1]
      /\ Q!Depth = 1 => Q!Bottom' = stack'[2] /\ Q!Bottom = stack[1]
      /\ Q!Depth = 2 => Q!Bottom' = stack'[3] /\ Q!Bottom = stack[2]
  BY <1>2, <1>5 DEF Q!Bottom
<1>7. Q!TypeOK'
  BY <1>2, <1>3 DEF Q!IInv, Q!TypeOK, QueueSigs
<1>8. Q!Outside'
  BY <1>2, <1>3, <1>4 DEF Q!IInv, Q!Outside, Q!Started
<1>9. Q!ChildSent' /\ Q!ChildTime' /\ Q!Fresh'
  BY <1>2, <1>3, <1>4 DEF Q!IInv, Q!ChildSent, Q!ChildTime, Q!Fresh, Q!Outside
<1>10. Q!MainTime'
  BY <1>2, <1>3, <1>5 DEF Q!IInv, Q!MainTime
<1>11. Q!Nested'
  <2>1. Q!Resting' /\ Q!Depth' =< 3 /\ Q!Depth' > 0
    BY <1>2, <1>5 DEF Q!Resting
  <2>2. Q!Bottom'.fn = "sig_quit" /\ Q!Bottom'.saved = Q!UserMask
    <3>1. CASE Q!Depth = 0
      <4>1. QueueAtRest(s) /\ ~QueueWakes(s)
        BY <1>1, <3>1 DEF QueueWakes, QueueAgain, QueueInterrupts
      <4> QED
        BY <1>2, <1>6, <3>1, <4>1 DEF QueueAtRest
    <3>2. CASE Q!Depth = 1
      BY <1>2, <1>6, <3>2 DEF Q!IInv, Q!Nested, Q!AtBottom
    <3>3. CASE Q!Depth = 2
      BY <1>2, <1>6, <3>3 DEF Q!IInv, Q!Nested, Q!AtBottom
    <3> QED
      BY <1>5, <3>1, <3>2, <3>3
  <2>3. Q!Alone'
    BY <1>1, <1>2, <1>5, <1>6 DEF Q!Alone, QueueAtRest, QueueWakes, QueueAgain,
       QueueInterrupts, Q!UserMask, Q!Signals
  <2>4. Q!OneMore'
    BY <1>1, <1>2, <1>5, <1>6 DEF Q!OneMore, QueueAtRest, QueueWakes, QueueAgain,
       QueueInterrupts, Q!Short, Q!Own
  <2>5. Q!TwoMore'
    <3>1. ASSUME Q!Depth = 2
          PROVE  /\ Q!Short(stack[1]) /\ sig.mask = {Q!Own(stack[1])} /\ Q!Bottom.pc = "test"
                 /\ stack[1].saved = Q!Signals
                 /\ stack[1].fn # (IF s = "SIGQUIT" THEN "sig_quit" ELSE "sig_usr")
                 /\ ~QueueWakes(s) /\ stack[1].fn \in {"sig_quit", "sig_usr"}
      <4>1. stack[1] \in Q!Frames
        BY <3>1, QueueStacked DEF Q!IInv
      <4> QED
        BY <1>1, <3>1, <4>1 DEF Q!IInv, Q!Nested, Q!OneMore, QueueAtRest, QueueWakes,
           QueueAgain, QueueInterrupts, Q!Frames
    <3> QED
      BY <1>1, <1>2, <1>5, <1>6, <3>1 DEF Q!TwoMore, Q!Short, Q!Own
  <2> QED
    BY <2>1, <2>2, <2>3, <2>4, <2>5 DEF Q!Nested, Q!AtBottom
<1>12. Q!Waits'
  BY <1>1, <1>2, <1>3, <1>5, <1>6 DEF Q!IInv, Q!TypeOK, Q!Waits, Q!Told, QueueAtRest,
     QueueWakes, QueueAgain, QueueInterrupts
<1>13. Q!Tells'
  <2>1. Q!Told' = Q!Told /\ (Q!Received => Q!Received')
    BY <1>2, <1>3 DEF Q!Told, Q!Received
  <2>2. s = "SIGUSR2" => Q!Received'
    BY <1>1, <1>2, <1>3 DEF Q!IInv, Q!Tells, Q!Told, Q!Received
  <2>3. \A k \in 1 .. Q!Depth' : stack'[k].fn = "sig_usr" => Q!Received'
    <3>1. \A k \in 1 .. Q!Depth : stack[k].fn = "sig_usr" => Q!Received
      BY DEF Q!IInv, Q!Tells
    <3>2. stack'[1].fn = "sig_usr" => Q!Received'
      BY <1>1, <1>2, <2>2
    <3>3. Q!Depth >= 1 /\ stack'[2].fn = "sig_usr" => Q!Received'
      BY <1>2, <1>5, <2>1, <3>1
    <3>4. Q!Depth = 2 /\ stack'[3].fn = "sig_usr" => Q!Received'
      BY <1>2, <1>5, <2>1, <3>1
    <3> QED
      BY <1>2, <1>5, <3>2, <3>3, <3>4
  <2>4. Q!Depth' > 0 /\ Q!Bottom'.pc \in {"clear", "setmask"} => Q!Received'
    BY <1>1, <1>2, <1>5, <1>6 DEF QueueAtRest, QueueWakes, QueueAgain, QueueInterrupts
  <2>5. Q!Released' => Q!Released
    BY <1>1, <1>2, <1>5, <1>6 DEF Q!Released, QueueAtRest, QueueWakes, QueueAgain,
       QueueInterrupts
  <2> QED
    BY <1>2, <1>3, <2>1, <2>3, <2>4, <2>5 DEF Q!IInv, Q!Tells
<1>14. Q!Counted'
  <2>1. CASE s = "SIGQUIT"
    <3>1. Q!Starting = 0
      BY <1>1, <1>5, <1>6, <2>1 DEF Q!Starting, Q!StartsQuit, QueueAtRest, QueueWakes,
         QueueAgain, QueueInterrupts
    <3>2. Q!Starting' = 1
      BY <1>2, <1>5, <2>1 DEF Q!Starting, Q!StartsQuit
    <3>3. Q!Pending = 1 /\ Q!Pending' = 0
      BY <1>1, <1>2, <2>1 DEF Q!Pending
    <3> QED
      BY <1>3, <3>1, <3>2, <3>3 DEF Q!IInv, Q!TypeOK, Q!Counted
  <2>2. CASE s = "SIGUSR2"
    <3>1. Q!Starting' = Q!Starting
      BY <1>1, <1>2, <1>5, <1>6, <2>2 DEF Q!Starting, Q!StartsQuit, QueueAtRest,
         QueueWakes, QueueAgain, QueueInterrupts
    <3>2. Q!Pending' = Q!Pending
      BY <1>2, <2>2 DEF Q!Pending
    <3> QED
      BY <1>3, <3>1, <3>2 DEF Q!IInv, Q!Counted
  <2> QED
    BY <1>1, <2>1, <2>2
<1> QED
  BY <1>7, <1>8, <1>9, <1>10, <1>11, <1>12, <1>13, <1>14 DEF Q!IInv

LEMMA QueueDeliverIInv == ASSUME Q!IInv, Q!Deliver PROVE Q!IInv'
<1>1. PICK s \in Q!Deliverable(sig) : QueueEnters(s)
  BY DEF Q!Deliver, QueueEnters, QueueFrame, QueueBelow, QueueSuspended
<1> QED
  BY <1>1, QueueEntersIInv

---------------------------------------------------------------------------
\* The child sends a signal s to the parent: what this leaves alone.
LEMMA QueueSends ==
  ASSUME Q!IInv, cpc \in {"kill", "tell"}, NEW s \in {"SIGQUIT", "SIGUSR2"}, Q!SendParent(s)
  PROVE  /\ sig' \in QueueSigs /\ sig'.mask = sig.mask /\ sig'.act = sig.act
         /\ mpc = "exited" => sig' = sig
         /\ mpc # "exited" => sig'.pending = sig.pending \cup {s}
         /\ stray' \in BOOLEAN /\ (prompt => mpc # "exited" /\ ~stray')
         /\ mpc \notin {"setup", "fork"}
<1>1. mpc \notin {"setup", "fork"} /\ sig \in QueueSigs
  BY DEF Q!IInv, Q!TypeOK, Q!Outside, QueueSigs, Q!Started
<1>2. prompt => mpc # "exited" /\ ~stray
  <2>1. mpc = "exited" => Q!Depth = 0
    BY DEF Q!IInv, Q!Outside, Q!Depth
  <2> QED
    BY <2>1 DEF Q!IInv, Q!MainTime, Q!ChildEnded
<1>3. CASE mpc = "exited"
  BY <1>1, <1>2, <1>3 DEF Q!SendParent
<1>4. CASE mpc # "exited"
  <2>1. sig' = Q!Generate(sig, s) /\ stray' = stray
    BY <1>4 DEF Q!SendParent
  <2>2. QueueCaught
    BY <1>1 DEF Q!IInv, Q!Outside, QueueCaught
  <2>3. s \in Q!Signals
    BY DEF Q!Signals
  <2>4. sig' \in QueueSigs /\ sig'.mask = sig.mask /\ sig'.act = sig.act
        /\ sig'.pending = sig.pending \cup {s}
    BY <1>1, <2>1, <2>2, <2>3, QueueGenerated
  <2> QED
    BY <1>1, <1>2, <1>4, <2>1, <2>4 DEF Q!IInv, Q!TypeOK
<1> QED
  BY <1>3, <1>4

\* A step of the child leaves the handlers alone.
LEMMA QueueSameStack ==
  ASSUME Q!IInv, UNCHANGED <<Q!flags, Q!main, stack>>, sig'.mask = sig.mask, sig'.act = sig.act,
         cpc \notin {"none", "exited"}, cpc' # "none", mpc \notin {"setup", "fork"},
         mpc = "exited" => sig' = sig
  PROVE  Q!Nested' /\ Q!Outside' /\ Q!Starting' = Q!Starting /\ Q!Depth' = Q!Depth /\ Q!Bottom' = Q!Bottom
         /\ Q!Waits' /\ (Q!Released' <=> Q!Released)
<1>1. /\ stack' = stack /\ mpc' = mpc
      /\ sigcount' = sigcount /\ waitflag' = waitflag /\ sigflag' = sigflag
  BY DEF Q!flags, Q!main
<1>2. Q!Depth' = Q!Depth /\ Q!Bottom' = Q!Bottom
  BY <1>1 DEF Q!Depth, Q!Bottom
<1>3. Q!Nested'
  BY <1>1, <1>2 DEF Q!IInv, Q!Nested, Q!Own, Q!Short, Q!Resting, Q!AtBottom, Q!Alone,
     Q!OneMore, Q!TwoMore
<1>4. Q!Outside'
  BY <1>1 DEF Q!IInv, Q!Outside, Q!Started
<1>5. Q!Starting' = Q!Starting
  BY <1>1, <1>2 DEF Q!Starting, Q!StartsQuit
<1>6. Q!Waits' /\ (Q!Released' <=> Q!Released)
  BY <1>1, <1>2 DEF Q!IInv, Q!Waits, Q!Released, Q!Told
<1> QED
  BY <1>2, <1>3, <1>4, <1>5, <1>6

LEMMA QueueChildKillIInv == ASSUME Q!IInv, Q!ChildKill PROVE Q!IInv'
<1>1. /\ cpc = "kill" /\ cpc' = "sleep" /\ sent' = sent + 1 /\ Q!SendParent("SIGQUIT")
      /\ UNCHANGED <<Q!clock, Q!flags, Q!main, stack, cwake>>
  BY DEF Q!ChildKill
<1>2. /\ sig' \in QueueSigs /\ sig'.mask = sig.mask /\ sig'.act = sig.act
      /\ mpc = "exited" => sig' = sig
      /\ mpc # "exited" => sig'.pending = sig.pending \cup {"SIGQUIT"}
      /\ stray' \in BOOLEAN /\ (prompt => mpc # "exited" /\ ~stray')
      /\ mpc \notin {"setup", "fork"}
  BY <1>1, QueueSends
<1>3. sent < Q!NQuit /\ sent \in 0 .. Q!NQuit /\ Q!NQuit = 4
  BY <1>1 DEF Q!IInv, Q!ChildSent, Q!TypeOK, Q!NQuit
<1>4. /\ Q!Nested' /\ Q!Outside' /\ Q!Starting' = Q!Starting /\ Q!Depth' = Q!Depth /\ Q!Bottom' = Q!Bottom
      /\ Q!Waits' /\ (Q!Released' <=> Q!Released)
  BY <1>1, <1>2, QueueSameStack
<1>5. /\ prompt' = prompt /\ now' = now /\ mpc' = mpc /\ mwake' = mwake /\ stack' = stack
      /\ sigcount' = sigcount /\ waitflag' = waitflag /\ sigflag' = sigflag /\ cwake' = cwake
  BY <1>1 DEF Q!clock, Q!flags, Q!main
<1>6. Q!TypeOK'
  BY <1>1, <1>2, <1>3, <1>5 DEF Q!IInv, Q!TypeOK, QueueSigs
<1>7. ~Q!Received /\ ~Q!Told /\ ("SIGUSR2" \in sig'.pending <=> "SIGUSR2" \in sig.pending)
      /\ ("SIGUSR1" \in sig'.pending <=> "SIGUSR1" \in sig.pending)
  BY <1>1, <1>2 DEF Q!Received, Q!Told
<1>8. Q!Tells'
  BY <1>4, <1>5, <1>7 DEF Q!IInv, Q!Tells
<1>9. Q!Counted'
  <2>1. Q!Pending \in {0, 1} /\ Q!Starting \in {0, 1} /\ sigcount \in Nat
    BY DEF Q!Pending, Q!Starting, Q!IInv, Q!TypeOK
  <2>2. /\ sigcount + Q!Starting + Q!Pending =< sent
        /\ prompt => sigcount + Q!Starting + Q!Pending = sent /\ Q!Pending = 0
    BY <1>1 DEF Q!IInv, Q!Counted, Q!Fresh, Q!Pending
  <2>3. CASE mpc = "exited"
    <3>1. Q!Pending' = Q!Pending /\ ~prompt
      BY <1>2, <2>3 DEF Q!Pending
    <3> QED
      BY <1>1, <1>3, <1>4, <1>5, <2>1, <2>2, <3>1 DEF Q!Counted
  <2>4. CASE mpc # "exited"
    <3>1. Q!Pending' = 1
      BY <1>2, <2>4 DEF Q!Pending
    <3> QED
      BY <1>1, <1>3, <1>4, <1>5, <2>1, <2>2, <3>1 DEF Q!Counted
  <2> QED
    BY <2>3, <2>4
<1>10. Q!ChildSent' /\ Q!ChildTime' /\ Q!Fresh'
  BY <1>1, <1>3, <1>5 DEF Q!IInv, Q!TypeOK, Q!ChildSent, Q!ChildTime, Q!Fresh
<1>11. Q!MainTime'
  <2>1. ~Q!ChildEnded
    BY <1>1 DEF Q!ChildEnded
  <2> QED
    BY <1>2, <1>4, <1>5, <2>1 DEF Q!IInv, Q!MainTime
<1> QED
  BY <1>4, <1>6, <1>8, <1>9, <1>10, <1>11 DEF Q!IInv

LEMMA QueueTellParentIInv == ASSUME Q!IInv, Q!TellParent PROVE Q!IInv'
<1>1. /\ cpc = "tell" /\ cpc' = "exited" /\ Q!SendParent("SIGUSR2")
      /\ UNCHANGED <<Q!clock, Q!flags, Q!main, stack, sent, cwake>>
  BY DEF Q!TellParent
<1>2. /\ sig' \in QueueSigs /\ sig'.mask = sig.mask /\ sig'.act = sig.act
      /\ mpc = "exited" => sig' = sig
      /\ mpc # "exited" => sig'.pending = sig.pending \cup {"SIGUSR2"}
      /\ stray' \in BOOLEAN /\ (prompt => mpc # "exited" /\ ~stray')
      /\ mpc \notin {"setup", "fork"}
  BY <1>1, QueueSends
<1>3. /\ Q!Nested' /\ Q!Outside' /\ Q!Starting' = Q!Starting /\ Q!Depth' = Q!Depth /\ Q!Bottom' = Q!Bottom
      /\ Q!Waits' /\ (Q!Released' <=> Q!Released)
  BY <1>1, <1>2, QueueSameStack
<1>4. /\ prompt' = prompt /\ now' = now /\ mpc' = mpc /\ mwake' = mwake /\ stack' = stack
      /\ sigcount' = sigcount /\ waitflag' = waitflag /\ sigflag' = sigflag /\ cwake' = cwake
      /\ sent' = sent
  BY <1>1 DEF Q!clock, Q!flags, Q!main
<1>5. Q!TypeOK'
  BY <1>1, <1>2, <1>4 DEF Q!IInv, Q!TypeOK, QueueSigs
<1>6. ~Q!Received /\ Q!Told' /\ "SIGUSR1" \notin sig'.pending
      /\ ("SIGQUIT" \in sig'.pending <=> "SIGQUIT" \in sig.pending)
  BY <1>1, <1>2 DEF Q!IInv, Q!Tells, Q!Received, Q!Told
<1>7. Q!Tells'
  BY <1>3, <1>4, <1>6 DEF Q!IInv, Q!Tells
<1>8. Q!Counted'
  <2>1. Q!Pending' = Q!Pending
    BY <1>6 DEF Q!Pending
  <2> QED
    BY <1>3, <1>4, <2>1 DEF Q!IInv, Q!Counted
<1>9. Q!ChildSent' /\ Q!ChildTime' /\ Q!Fresh'
  BY <1>1, <1>4 DEF Q!IInv, Q!ChildSent, Q!ChildTime, Q!Fresh
<1>10. Q!MainTime'
  BY <1>1, <1>2, <1>4 DEF Q!IInv, Q!MainTime, Q!ChildEnded
<1> QED
  BY <1>3, <1>5, <1>7, <1>8, <1>9, <1>10 DEF Q!IInv

\* A step of the child that sends nothing, or its end by a signal.
LEMMA QueueChildGoes ==
  ASSUME Q!IInv, UNCHANGED <<Q!clock, Q!parent, sent, stray>>, cpc \notin {"none", "exited", "killed"},
         cpc' \in {"kill", "sleep", "sleeping", "tell", "killed"}
  PROVE  Q!Nested' /\ Q!Outside' /\ Q!Waits' /\ Q!Tells' /\ Q!Counted' /\ Q!MainTime'
<1>1. /\ prompt' = prompt /\ now' = now /\ mpc' = mpc /\ mwake' = mwake /\ stack' = stack
      /\ sigcount' = sigcount /\ waitflag' = waitflag /\ sigflag' = sigflag /\ sig' = sig
      /\ sent' = sent /\ stray' = stray /\ UNCHANGED <<Q!flags, Q!main, stack>>
  BY DEF Q!clock, Q!parent, Q!flags, Q!main
<1>2. mpc \notin {"setup", "fork"} /\ cpc' # "none"
  BY DEF Q!IInv, Q!Outside, Q!Started
<1>3. /\ Q!Nested' /\ Q!Outside' /\ Q!Starting' = Q!Starting /\ Q!Depth' = Q!Depth /\ Q!Bottom' = Q!Bottom
      /\ Q!Waits' /\ (Q!Released' <=> Q!Released)
  BY <1>1, <1>2, QueueSameStack
<1>4. ~Q!Told /\ ~Q!Told' /\ ~Q!Received /\ ~Q!Received'
  BY DEF Q!Told, Q!Received
<1>5. Q!Tells'
  BY <1>1, <1>3, <1>4 DEF Q!IInv, Q!Tells
<1>6. Q!Counted'
  BY <1>1, <1>3 DEF Q!IInv, Q!Counted, Q!Pending
<1>7. Q!MainTime'
  <2>1. ~(prompt /\ mpc \in {"verdict", "exited"} /\ Q!Depth = 0)
    BY DEF Q!IInv, Q!MainTime, Q!ChildEnded
  <2> QED
    BY <1>1, <1>3, <2>1 DEF Q!IInv, Q!MainTime
<1> QED
  BY <1>3, <1>5, <1>6, <1>7

LEMMA QueueChildNapIInv == ASSUME Q!IInv, Q!ChildNap PROVE Q!IInv'
<1>1. /\ cpc = "sleep" /\ cpc' = "sleeping" /\ cwake' = now + Q!ChildSleep /\ Q!ChildSleep = 1
      /\ UNCHANGED <<Q!clock, Q!parent, sent, stray>>
  BY DEF Q!ChildNap, Q!ChildSleep
<1>2. Q!Nested' /\ Q!Outside' /\ Q!Waits' /\ Q!Tells' /\ Q!Counted' /\ Q!MainTime'
  BY <1>1, QueueChildGoes
<1>3. sent \in 0 .. 4 /\ now \in Nat /\ prompt' = prompt /\ now' = now /\ sent' = sent
  BY <1>1 DEF Q!IInv, Q!TypeOK, Q!NQuit, Q!clock
<1>4. Q!TypeOK'
  BY <1>1, <1>3 DEF Q!IInv, Q!TypeOK, Q!clock, Q!parent, Q!flags, Q!main
<1>5. Q!ChildSent' /\ Q!ChildTime' /\ Q!Fresh'
  BY <1>1, <1>3 DEF Q!IInv, Q!ChildSent, Q!ChildTime, Q!Fresh
<1> QED
  BY <1>2, <1>4, <1>5 DEF Q!IInv

LEMMA QueueChildWakeIInv == ASSUME Q!IInv, Q!ChildWake PROVE Q!IInv'
<1>1. /\ cpc = "sleeping" /\ (prompt => now >= cwake)
      /\ cpc' = IF sent < Q!NQuit THEN "kill" ELSE "tell"
      /\ UNCHANGED <<Q!clock, Q!parent, sent, cwake, stray>>
  BY DEF Q!ChildWake
<1>2. Q!Nested' /\ Q!Outside' /\ Q!Waits' /\ Q!Tells' /\ Q!Counted' /\ Q!MainTime'
  BY <1>1, QueueChildGoes
<1>3. /\ sent \in 0 .. 4 /\ now \in Nat /\ Q!NQuit = 4 /\ prompt' = prompt /\ now' = now
      /\ sent' = sent /\ cwake' = cwake /\ sig' = sig
  BY <1>1 DEF Q!IInv, Q!TypeOK, Q!NQuit, Q!clock, Q!parent
<1>4. Q!TypeOK'
  BY <1>1, <1>3 DEF Q!IInv, Q!TypeOK, Q!clock, Q!parent, Q!flags, Q!main
<1>5. prompt => now = cwake /\ cwake = sent
  BY <1>1, <1>3 DEF Q!IInv, Q!ChildTime
<1>6. Q!ChildSent' /\ Q!ChildTime' /\ Q!Fresh'
  BY <1>1, <1>3, <1>5 DEF Q!IInv, Q!ChildSent, Q!ChildTime, Q!Fresh
<1> QED
  BY <1>2, <1>4, <1>6 DEF Q!IInv

LEMMA QueueKillChildIInv == ASSUME Q!IInv, Q!KillChild PROVE Q!IInv'
<1>1. /\ cpc \notin {"none", "exited", "killed"} /\ cpc' = "killed"
      /\ UNCHANGED <<Q!clock, Q!parent, sent, cwake, stray>>
  BY DEF Q!KillChild
<1>2. Q!Nested' /\ Q!Outside' /\ Q!Waits' /\ Q!Tells' /\ Q!Counted' /\ Q!MainTime'
  BY <1>1, QueueChildGoes
<1>3. Q!TypeOK'
  BY <1>1 DEF Q!IInv, Q!TypeOK, Q!clock, Q!parent, Q!flags, Q!main
<1>4. Q!ChildSent' /\ Q!ChildTime' /\ Q!Fresh'
  BY <1>1 DEF Q!IInv, Q!ChildSent, Q!ChildTime, Q!Fresh
<1> QED
  BY <1>2, <1>3, <1>4 DEF Q!IInv

\* A second passes on an idle machine: nothing is left to deliver.
LEMMA QueueTickIInv == ASSUME Q!IInv, Q!Tick PROVE Q!IInv'
<1>1. /\ prompt /\ prompt' = prompt /\ now' = now + 1 /\ Q!ParentIdle /\ Q!ChildIdle /\ Q!SleepLeft
      /\ UNCHANGED <<Q!parent, Q!child>>
  BY DEF Q!Tick
<1>2. /\ mpc' = mpc /\ mwake' = mwake /\ stack' = stack /\ sig' = sig /\ cpc' = cpc
      /\ sent' = sent /\ cwake' = cwake /\ stray' = stray
      /\ sigcount' = sigcount /\ waitflag' = waitflag /\ sigflag' = sigflag
  BY <1>1 DEF Q!parent, Q!flags, Q!main, Q!child
<1>3. Q!Nested' /\ Q!Waits' /\ Q!Tells' /\ Q!Counted' /\ Q!ChildSent'
  BY <1>1, <1>2, QueueQuiet DEF Q!parent, Q!flags, Q!main, Q!child
<1>4. now \in Nat /\ sent \in 0 .. 4 /\ mwake \in Nat /\ cwake \in Nat
  BY DEF Q!IInv, Q!TypeOK, Q!NQuit
<1>5. Q!TypeOK' /\ Q!Outside'
  <2>1. Q!TypeOK'
    BY <1>1, <1>2, <1>4 DEF Q!IInv, Q!TypeOK
  <2>2. Q!Outside'
    BY <1>2 DEF Q!IInv, Q!Outside, Q!Started
  <2> QED
    BY <2>1, <2>2
<1>6. "SIGQUIT" \notin sig.pending
  <2>1. CASE mpc = "exited"
    BY <2>1 DEF Q!IInv, Q!Outside
  <2>2. CASE Q!Deliverable(sig) = {} /\ stack = <<>> /\ mpc = "sleeping"
    <3>1. Q!Depth = 0
      BY <2>2 DEF Q!Depth
    <3> QED
      BY <2>2, <3>1 DEF Q!IInv, Q!Nested, Q!Resting, Q!UserMask, Q!Deliverable
  <2>3. CASE Q!Deliverable(sig) = {} /\ stack # <<>> /\ Q!Top.pc = "suspended"
    <3>1. Q!Depth \in {1, 2, 3}
      BY <2>3, QueueStacked DEF Q!IInv, Q!Nested
    <3>2. Q!Depth = 1 /\ Q!Bottom = stack[1]
      BY <2>3, <3>1 DEF Q!IInv, Q!Nested, Q!OneMore, Q!TwoMore, Q!Short, Q!Top, Q!Bottom
    <3> QED
      BY <2>3, <3>2 DEF Q!IInv, Q!Nested, Q!Alone, Q!Deliverable, Q!Top
  <2> QED
    BY <1>1, <2>1, <2>2, <2>3 DEF Q!ParentIdle
<1>7. Q!ChildTime' /\ Q!Fresh'
  <2>1. CASE cpc \in {"none", "exited", "killed"}
    <3>1. mpc = "sleeping"
      BY <1>1, <2>1 DEF Q!SleepLeft
    <3> QED
      BY <1>2, <2>1, <3>1 DEF Q!ChildTime, Q!Fresh
  <2>2. CASE cpc = "sleeping" /\ now < cwake
    BY <1>1, <1>2, <1>4, <1>6, <2>2 DEF Q!IInv, Q!ChildTime, Q!Fresh
  <2> QED
    BY <1>1, <2>1, <2>2 DEF Q!ChildIdle
<1>8. Q!MainTime'
  BY <1>1, <1>2 DEF Q!IInv, Q!MainTime, Q!ChildEnded, Q!Depth
<1> QED
  BY <1>3, <1>5, <1>7, <1>8 DEF Q!IInv

LEMMA QueueStutterIInv == ASSUME Q!IInv, UNCHANGED Q!vars PROVE Q!IInv'
<1>1. UNCHANGED <<sig, Q!flags, stack, Q!child, prompt, Q!clock, Q!main>>
  BY DEF Q!vars, Q!parent, Q!clock
<1>2. Q!Nested' /\ Q!Waits' /\ Q!Tells' /\ Q!Counted' /\ Q!ChildSent'
  BY <1>1, QueueQuiet DEF Q!main
<1>3. Q!TypeOK' /\ Q!Outside'
  BY <1>1 DEF Q!IInv, Q!TypeOK, Q!Outside, Q!Started, Q!clock, Q!flags, Q!main, Q!child
<1>4. Q!ChildTime' /\ Q!Fresh' /\ Q!MainTime'
  BY <1>1 DEF Q!IInv, Q!ChildTime, Q!Fresh, Q!MainTime, Q!ChildEnded, Q!Depth,
     Q!clock, Q!main, Q!child
<1> QED
  BY <1>2, <1>3, <1>4 DEF Q!IInv

\* Every step keeps the invariant.
LEMMA QueueNextIInv == ASSUME Q!IInv, [Q!Next]_(Q!vars) PROVE Q!IInv'
<1>1. CASE Q!ParentStep
  BY <1>1, QueueSetupIInv, QueueForkIInv, QueueMainSleepIInv, QueueMainWakeIInv,
     QueueVerdictIInv, QueueDeliverIInv, QueueQuitStartIInv, QueueUsrStartIInv,
     QueueWaitTestIInv, QueueSuspendIInv, QueueWaitClearIInv, QueueWaitSetMaskIInv,
     QueueReturnIInv DEF Q!ParentStep
<1>2. CASE Q!ChildStep
  BY <1>2, QueueChildKillIInv, QueueChildNapIInv, QueueChildWakeIInv,
     QueueTellParentIInv DEF Q!ChildStep
<1>3. CASE Q!KillChild \/ Q!Tick
  BY <1>3, QueueKillChildIInv, QueueTickIInv
<1>4. CASE UNCHANGED Q!vars
  BY <1>4, QueueStutterIInv
<1> QED
  BY <1>1, <1>2, <1>3, <1>4 DEF Q!Next, Q!Terminated

\* The inductive invariant holds of every behaviour of SigQueued.
THEOREM QueueInductive == Q!Spec => []Q!IInv
<1>1. Q!Init => Q!IInv
  BY QueueInitIInv
<1>2. Q!IInv /\ [Q!Next]_(Q!vars) => Q!IInv'
  BY QueueNextIInv
<1> QED
  BY <1>1, <1>2, PTL DEF Q!Spec

---------------------------------------------------------------------------
\* At most three handlers run.
LEMMA QueueHeights == ASSUME Q!IInv PROVE DOMAIN stack = 1 .. Q!Depth /\ Q!Depth \in {0, 1, 2, 3}
<1>1. stack \in Seq(Q!Frames) /\ Q!Depth \in Nat /\ Q!Depth =< 3
  BY QueueStacked DEF Q!IInv, Q!Nested
<1>2. DOMAIN stack = 1 .. Q!Depth
  BY <1>1 DEF Q!Depth
<1> QED
  BY <1>1, <1>2

\* At most one handler is about to count its SIGQUIT.
LEMMA QueueOneStarting ==
  ASSUME Q!IInv
  PROVE  LET starting == {k \in DOMAIN stack : Q!StartsQuit(stack[k])}
         IN  IsFiniteSet(starting) /\ Cardinality(starting) = Q!Starting
<1> DEFINE starting == {k \in DOMAIN stack : Q!StartsQuit(stack[k])}
<1>1. DOMAIN stack = 1 .. Q!Depth /\ Q!Depth \in {0, 1, 2, 3}
  BY QueueHeights
<1>2. \A j, k \in starting : j = k
  BY <1>1 DEF Q!IInv, Q!Nested, Q!AtBottom, Q!OneMore, Q!TwoMore, Q!Short, Q!Bottom,
     Q!StartsQuit
<1>3. CASE starting = {}
  <2>1. Q!Starting = 0
    BY <1>1, <1>3 DEF Q!Starting
  <2> QED
    BY <1>3, <2>1, FS_EmptySet
<1>4. CASE starting # {}
  <2>1. PICK k \in starting : TRUE
    BY <1>4
  <2>2. starting = {k}
    BY <1>2, <2>1
  <2>3. Q!Starting = 1
    BY <1>1, <2>1 DEF Q!Starting
  <2> QED
    BY <2>2, <2>3, FS_Singleton
<1> QED
  BY <1>3, <1>4

\* Q has an operator of its own.
LEMMA QueueCardinality == ASSUME NEW E PROVE Q!Cardinality(E) = Cardinality(E)
BY DEF Cardinality, Q!Cardinality

LEMMA QueueBounded == ASSUME Q!IInv PROVE Q!CountBound
<1> DEFINE starting == {k \in DOMAIN stack : Q!StartsQuit(stack[k])}
           pending  == sig.pending \cap {"SIGQUIT"}
<1>1. Cardinality(starting) = Q!Starting
  BY QueueOneStarting
<1>2. Cardinality(pending) = Q!Pending
  <2>1. pending = IF "SIGQUIT" \in sig.pending THEN {"SIGQUIT"} ELSE {}
    OBVIOUS
  <2> QED
    BY <2>1, FS_EmptySet, FS_Singleton DEF Q!Pending
<1>3. sigcount + Cardinality(starting) + Cardinality(pending) =< sent
  BY <1>1, <1>2 DEF Q!IInv, Q!Counted
<1> QED
  BY <1>3, QueueCardinality DEF Q!CountBound, Q!StartsQuit

LEMMA QueueOneWaits == ASSUME Q!IInv PROVE Q!OneWaiter
<1>1. DOMAIN stack = 1 .. Q!Depth /\ Q!Depth \in {0, 1, 2, 3}
  BY QueueHeights
<1>2. \A k \in DOMAIN stack : Q!Waiting(stack[k]) => k = Q!Depth
  BY <1>1 DEF Q!IInv, Q!Nested, Q!OneMore, Q!TwoMore, Q!Short, Q!Waiting
<1> QED
  BY <1>2 DEF Q!OneWaiter

LEMMA QueueTellEnds == ASSUME Q!IInv PROVE Q!WaitEndsOnTell
<1>1. DOMAIN stack = 1 .. Q!Depth /\ Q!Depth \in {0, 1, 2, 3}
  BY QueueHeights
<1>2. \A k \in DOMAIN stack : stack[k].pc \in {"clear", "setmask"} => k = Q!Depth
  BY <1>1 DEF Q!IInv, Q!Nested, Q!OneMore, Q!TwoMore, Q!Short
<1> QED
  BY <1>1, <1>2 DEF Q!WaitEndsOnTell, Q!IInv, Q!Tells, Q!Received, Q!Told, Q!Bottom

LEMMA QueueNoneLost == ASSUME Q!IInv PROVE Q!AllCounted
<1>1. SUFFICES ASSUME prompt, cpc = "exited", mpc = "exited"
               PROVE  sigcount = Q!NQuit /\ ~stray
  BY DEF Q!AllCounted
<1>2. Q!Depth = 0 /\ Q!Pending = 0
  BY <1>1 DEF Q!IInv, Q!Outside, Q!Depth, Q!Pending
<1>3. Q!Starting = 0
  BY <1>2 DEF Q!Starting
<1> QED
  BY <1>1, <1>2, <1>3 DEF Q!IInv, Q!TypeOK, Q!Counted, Q!ChildSent, Q!MainTime

---------------------------------------------------------------------------
(* SigSemantics: the S!answers, and the signals between the questions.       *)

SemSigs  == S!SignalState(S!Signals, {"sig_usr1", "sig_usr2", "sig_alrm"})
SemAllFlags == {"restart", "reset", "nodefer"}

\* What the kernel's operations do to the signals of the parent.
LEMMA SemGenerated ==
  ASSUME sig \in SemSigs, NEW s \in S!Signals
  PROVE  LET new == S!Generate(sig, s)
         IN  /\ new \in SemSigs /\ new.mask = sig.mask /\ new.act = sig.act
             /\ sig.pending \subseteq new.pending
             /\ new.pending \subseteq sig.pending \cup {s}
             /\ S!IsCaught(sig, s) => new.pending = sig.pending \cup {s}
<1>1. S!IsCaught(sig, s) => ~S!IsIgnored(sig, s)
  BY DEF S!IsCaught, S!IsIgnored
<1> QED
  BY <1>1 DEF SemSigs, S!SignalState, S!Generate

LEMMA SemEntered ==
  ASSUME sig \in SemSigs, NEW s \in S!Signals
  PROVE  LET new == S!Enter(sig, s)
         IN  /\ new \in SemSigs /\ new.pending = sig.pending \ {s}
             /\ new.mask = IF "nodefer" \in S!Flags(sig, s) THEN sig.mask
                           ELSE sig.mask \cup {s}
             /\ new.act[s] = IF "reset" \in S!Flags(sig, s) THEN S!Default ELSE sig.act[s]
             /\ \A t \in S!Signals \ {s} : new.act[t] = sig.act[t]
<1>1. S!Default \in [handler : {"sig_usr1", "sig_usr2", "sig_alrm", "SIG_DFL", "SIG_IGN"},
                     flags : SUBSET SemAllFlags]
  BY DEF S!Default
<1> QED
  BY <1>1 DEF SemSigs, S!SignalState, S!Enter, SemAllFlags

LEMMA SemMaskSet ==
  ASSUME sig \in SemSigs, NEW set \in SUBSET S!Signals
  PROVE  LET new == S!SetMask(sig, set)
         IN  new \in SemSigs /\ new.act = sig.act /\ new.mask = set /\ new.pending = sig.pending
BY DEF SemSigs, S!SignalState, S!SetMask

\* What the handlers are installed with.
LEMMA SemFlagsAre ==
  ASSUME sem \in S!Semantics, NEW passed \in SUBSET {"restart"}
  PROVE  /\ S!FlagsOf(passed) \in SUBSET SemAllFlags
         /\ "reset" \in S!FlagsOf(passed) <=> sem = "sysv"
         /\ "nodefer" \in S!FlagsOf(passed) <=> sem = "sysv"
BY DEF S!Semantics, S!FlagsOf, SemAllFlags

LEMMA SemHandlerIs ==
  /\ S!HandlerOf("SIGUSR1") = "sig_usr1" /\ S!HandlerOf("SIGUSR2") = "sig_usr2"
  /\ S!HandlerOf("SIGALRM") = "sig_alrm"
  /\ \A s \in S!Signals : S!HandlerOf(s) \in {"sig_usr1", "sig_usr2", "sig_alrm"}
  /\ S!SignalOf("sig_usr1") = "SIGUSR1" /\ S!SignalOf("sig_usr2") = "SIGUSR2"
  /\ S!SignalOf("sig_alrm") = "SIGALRM"
  /\ \A s \in S!Signals : S!SignalOf(S!HandlerOf(s)) = s
BY DEF S!HandlerOf, S!SignalOf, S!Signals

LEMMA SemSignalIs ==
  ASSUME sig \in SemSigs, sem \in S!Semantics, NEW s \in S!Signals, NEW passed \in SUBSET {"restart"}
  PROVE  LET new == S!Signal(sig, s, passed)
         IN  /\ new \in SemSigs /\ new.mask = sig.mask /\ new.pending = sig.pending
             /\ new.act[s] = S!Catch(S!HandlerOf(s), S!FlagsOf(passed))
             /\ \A t \in S!Signals \ {s} : new.act[t] = sig.act[t]
<1> DEFINE a == S!Catch(S!HandlerOf(s), S!FlagsOf(passed))
           new == [sig EXCEPT !.act[s] = a]
<1>1. a.handler = S!HandlerOf(s) /\ a.handler \in {"sig_usr1", "sig_usr2", "sig_alrm"}
      /\ a \in [handler : {"sig_usr1", "sig_usr2", "sig_alrm", "SIG_DFL", "SIG_IGN"},
                flags : SUBSET SemAllFlags]
  BY SemHandlerIs, SemFlagsAre DEF S!Catch
<1> HIDE DEF a
<1>2. /\ new \in SemSigs /\ new.mask = sig.mask /\ new.pending = sig.pending
      /\ new.act[s] = a /\ \A t \in S!Signals \ {s} : new.act[t] = sig.act[t]
  BY <1>1 DEF SemSigs, S!SignalState, SemAllFlags
<1>3. ~S!IsIgnored(new, s)
  BY <1>1, <1>2 DEF S!IsIgnored, S!Handler
<1>4. S!Signal(sig, s, passed) = new
  BY <1>3 DEF S!Signal, S!Install, a
<1> QED
  BY <1>2, <1>4 DEF a

LEMMA SemReinstalled ==
  ASSUME sig \in SemSigs, NEW s \in S!Signals
  PROVE  LET new == S!Install(sig, s, S!Default)
         IN  new \in SemSigs /\ new.mask = sig.mask /\ new.pending = sig.pending
<1>1. S!Default \in [handler : {"sig_usr1", "sig_usr2", "sig_alrm", "SIG_DFL", "SIG_IGN"},
                     flags : SUBSET SemAllFlags]
  BY DEF S!Default
<1> DEFINE new == [sig EXCEPT !.act[s] = S!Default]
<1>2. /\ new \in SemSigs /\ new.mask = sig.mask /\ new.pending = sig.pending
      /\ new.act[s] = S!Default
  BY <1>1 DEF SemSigs, S!SignalState, SemAllFlags
<1>3. ~S!IsIgnored(new, s)
  BY <1>2 DEF S!IsIgnored, S!Handler, S!Default, S!Signals
<1> QED
  BY <1>2, <1>3 DEF S!Install

\* What is installed with Signal is caught, with these flags.
LEMMA SemInstalledIs ==
  ASSUME sem \in S!Semantics, NEW s \in S!Signals, NEW passed \in SUBSET {"restart"},
         S!Installed(s, passed)
  PROVE  /\ S!IsCaught(sig, s) /\ S!Handler(sig, s) = S!HandlerOf(s)
         /\ S!Flags(sig, s) = S!FlagsOf(passed)
         /\ "reset" \in S!Flags(sig, s) <=> sem = "sysv"
         /\ "nodefer" \in S!Flags(sig, s) <=> sem = "sysv"
<1>1. S!Handler(sig, s) = S!HandlerOf(s) /\ S!Flags(sig, s) = S!FlagsOf(passed)
  BY DEF S!Installed, S!Handler, S!Flags, S!Catch
<1> QED
  BY <1>1, SemFlagsAre, SemHandlerIs DEF S!IsCaught

\* The reads of the two programs.
LEMMA SemReadsAre ==
  ASSUME sem \in S!Semantics
  PROVE  /\ Len(S!Reads) \in {2, 4} /\ 1 .. Len(S!Reads) \subseteq 1 .. 4
         /\ \A k \in 1 .. Len(S!Reads) : /\ S!Reads[k].signal \in {"SIGALRM", "SIGUSR1"}
                                         /\ S!Reads[k].flags \in SUBSET {"restart"}
<1> DEFINE a == [signal |-> "SIGALRM", flags |-> {}]
           b == [signal |-> "SIGUSR1", flags |-> {}]
           c == [signal |-> "SIGALRM", flags |-> {"restart"}]
           d == [signal |-> "SIGUSR1", flags |-> {"restart"}]
           Right(r) == r.signal \in {"SIGALRM", "SIGUSR1"} /\ r.flags \in SUBSET {"restart"}
<1>1. Right(a) /\ Right(b) /\ Right(c) /\ Right(d)
  OBVIOUS
<1> HIDE DEF a, b, c, d, Right
<1>2. Len(<<a, b>>) = 2 /\ \A k \in 1 .. 2 : Right(<<a, b>>[k])
  BY <1>1
<1>3. Len(<<a, b, c, d>>) = 4 /\ \A k \in 1 .. 4 : Right(<<a, b, c, d>>[k])
  BY <1>1
<1>4. \/ Len(S!Reads) = 2 /\ S!Reads = <<a, b>>
      \/ Len(S!Reads) = 4 /\ S!Reads = <<a, b, c, d>>
  BY <1>2, <1>3 DEF S!Reads, S!SigactionReads, S!SignalReads, a, b, c, d
<1>5. /\ Len(S!Reads) \in {2, 4} /\ \A k \in 1 .. Len(S!Reads) : Right(S!Reads[k])
  BY <1>2, <1>3, <1>4
<1>6. \A n \in {2, 4} : 1 .. n \subseteq 1 .. 4
  OBVIOUS
<1> QED
  BY <1>5, <1>6 DEF Right

---------------------------------------------------------------------------
\* What the invariant says when main goes on.
SemGoing == {"reset", "self", "query", "defer", "fork", "waitpid", "compare", "install",
             "pipe", "read", "reading", "data", "eof", "eintr"}
LEMMA SemAtRest ==
  ASSUME S!IInv, NEW from \in SemGoing, NEW to, S!Main(from, to)
  PROVE  /\ mpc = from /\ mpc' = to /\ stack = <<>> /\ S!Alive
         /\ sig \in SemSigs /\ sig.pending = {} /\ sig.mask = {} /\ sem \in S!Semantics
<1>1. mpc = from /\ mpc' = to /\ stack = <<>> /\ sig.pending \ sig.mask = {}
  BY DEF S!Main, S!Deliverable
<1>2. S!Alive
  BY <1>1 DEF SemGoing, S!Alive
<1>3. sig.mask = {}
  BY <1>1, <1>2 DEF S!IInv, S!Masked
<1> QED
  BY <1>1, <1>2, <1>3 DEF S!IInv, S!TypeOK, SemSigs

LEMMA SemResetInstallIInv == ASSUME S!IInv, S!ResetInstall PROVE S!IInv'
<1>1. /\ mpc = "reset" /\ mpc' = "self" /\ stack = <<>>
      /\ sig \in SemSigs /\ sig.pending = {} /\ sig.mask = {} /\ sem \in S!Semantics
  BY SemAtRest DEF S!ResetInstall, SemGoing
<1>2. /\ sig' = S!Signal(sig, "SIGUSR1", {})
      /\ UNCHANGED <<S!clock, S!flags, test, stack, S!answers, S!child>>
  BY DEF S!ResetInstall
<1>3. sig' \in SemSigs /\ sig'.mask = {} /\ sig'.pending = {} /\ S!Installed("SIGUSR1", {})'
  BY <1>1, <1>2, SemSignalIs DEF S!Signals, S!Installed, S!clock, S!HandlerOf, S!FlagsOf
<1>4. S!TypeOK'
  BY <1>1, <1>2, <1>3 DEF S!IInv, S!TypeOK, S!clock, S!flags, S!answers, S!child,
     S!Reads, SemSigs
<1> QED
  BY <1>1, <1>2, <1>3, <1>4 DEF S!IInv, S!clock, S!flags, S!answers, S!child, S!Reads,
     S!Children, S!Masked, S!Quiet, S!First, S!Second, S!SleepsToEnd, S!SleepInterrupted,
     S!Compared, S!Third, S!FirstAnswers, S!NotRestartedIsRight, S!KilledInWindow,
     S!Before, S!Reading, S!Alive, S!FlagsOf

LEMMA SemResetSelfIInv == ASSUME S!IInv, S!ResetSelf PROVE S!IInv'
<1>1. /\ mpc = "self" /\ mpc' = "query" /\ stack = <<>>
      /\ sig \in SemSigs /\ sig.pending = {} /\ sig.mask = {} /\ sem \in S!Semantics
  BY SemAtRest DEF S!ResetSelf, SemGoing
<1>2. /\ sig' = S!Generate(sig, "SIGUSR1")
      /\ UNCHANGED <<S!clock, S!flags, test, stack, S!answers, S!child>>
  BY DEF S!ResetSelf
<1>3. S!Installed("SIGUSR1", {}) /\ S!IsCaught(sig, "SIGUSR1")
  BY <1>1, SemInstalledIs DEF S!IInv, S!First, S!Signals
<1>4. /\ sig' \in SemSigs /\ sig'.mask = {} /\ sig'.pending = {"SIGUSR1"}
      /\ S!Installed("SIGUSR1", {})'
  BY <1>1, <1>2, <1>3, SemGenerated DEF S!Signals, S!Installed, S!clock, S!HandlerOf,
     S!FlagsOf
<1>5. S!TypeOK'
  BY <1>1, <1>2, <1>4 DEF S!IInv, S!TypeOK, S!clock, S!flags, S!answers, S!child,
     S!Reads, SemSigs
<1> QED
  BY <1>1, <1>2, <1>4, <1>5 DEF S!IInv, S!clock, S!flags, S!answers, S!child, S!Reads,
     S!Children, S!Masked, S!Quiet, S!First, S!Second, S!SleepsToEnd, S!SleepInterrupted,
     S!Compared, S!Third, S!FirstAnswers, S!NotRestartedIsRight, S!KilledInWindow,
     S!Before, S!Reading, S!Alive, S!FlagsOf, S!Emptied

LEMMA SemResetQueryIInv == ASSUME S!IInv, S!ResetQuery PROVE S!IInv'
<1>1. /\ mpc = "query" /\ mpc' = "defer" /\ stack = <<>>
      /\ sig \in SemSigs /\ sig.pending = {} /\ sig.mask = {} /\ sem \in S!Semantics
  BY SemAtRest DEF S!ResetQuery, SemGoing
<1>2. /\ sig' = S!Install(sig, "SIGUSR1", S!Default)
      /\ reset' = IF S!Handler(sig, "SIGUSR1") = "SIG_DFL" THEN "yes" ELSE "no"
      /\ UNCHANGED <<S!clock, S!flags, test, stack, prevent, restart, S!child>>
  BY DEF S!ResetQuery
<1>3. sig' \in SemSigs /\ sig'.mask = {} /\ sig'.pending = {}
  BY <1>1, <1>2, SemReinstalled DEF S!Signals
<1>4. S!Handler(sig, "SIGUSR1") = "SIG_DFL" <=> sem = "sysv"
  BY <1>1, SemHandlerIs DEF S!IInv, S!First, S!Installed, S!Handler, S!Catch, S!Default
<1>5. S!TypeOK'
  BY <1>1, <1>2, <1>3 DEF S!IInv, S!TypeOK, S!clock, S!flags, S!child, S!Reads, SemSigs
<1>6. S!FirstAnswers'
  BY <1>2, <1>4 DEF S!IInv, S!FirstAnswers, S!clock, S!child
<1>7. UNCHANGED <<S!clock, S!flags, test, stack, prevent, restart, S!child>>
  BY <1>2
<1>8. S!Children' /\ S!Masked' /\ S!Quiet'
  BY <1>1, <1>3, <1>7 DEF S!IInv, S!clock, S!flags, S!child, S!Children, S!Masked,
     S!Quiet, S!Before, S!Alive
<1>9. S!First' /\ S!Second' /\ S!SleepsToEnd' /\ S!SleepInterrupted' /\ S!Compared'
  BY <1>1 DEF S!First, S!Second, S!SleepsToEnd, S!SleepInterrupted, S!Compared
<1>10. S!Third' /\ S!KilledInWindow'
  BY <1>1 DEF S!Third, S!Reading, S!KilledInWindow
<1>11. S!NotRestartedIsRight'
  BY <1>7 DEF S!IInv, S!NotRestartedIsRight, S!clock, S!Reads, S!FlagsOf
<1> QED
  BY <1>5, <1>6, <1>8, <1>9, <1>10, <1>11 DEF S!IInv

LEMMA SemDeferInstallIInv == ASSUME S!IInv, S!DeferInstall PROVE S!IInv'
<1>1. /\ mpc = "defer" /\ mpc' = "fork" /\ stack = <<>>
      /\ sig \in SemSigs /\ sig.pending = {} /\ sig.mask = {} /\ sem \in S!Semantics
  BY SemAtRest DEF S!DeferInstall, SemGoing
<1>2. /\ sig' = S!Signal(sig, "SIGUSR2", {})
      /\ UNCHANGED <<S!clock, S!flags, test, stack, S!answers, S!child>>
  BY DEF S!DeferInstall
<1>3. sig' \in SemSigs /\ sig'.mask = {} /\ sig'.pending = {} /\ S!Installed("SIGUSR2", {})'
  BY <1>1, <1>2, SemSignalIs DEF S!Signals, S!Installed, S!clock, S!HandlerOf, S!FlagsOf
<1>4. S!TypeOK'
  BY <1>1, <1>2, <1>3 DEF S!IInv, S!TypeOK, S!clock, S!flags, S!answers, S!child,
     S!Reads, SemSigs
<1> QED
  BY <1>1, <1>2, <1>3, <1>4 DEF S!IInv, S!clock, S!flags, S!answers, S!child, S!Reads,
     S!Children, S!Masked, S!Quiet, S!First, S!Second, S!SleepsToEnd, S!SleepInterrupted,
     S!Compared, S!Third, S!FirstAnswers, S!NotRestartedIsRight, S!KilledInWindow,
     S!Before, S!Reading, S!Alive, S!FlagsOf, S!Usr2Caught

LEMMA SemDeferForkIInv == ASSUME S!IInv, S!DeferFork PROVE S!IInv'
<1>1. /\ mpc = "fork" /\ stack = <<>>
      /\ sig \in SemSigs /\ sig.pending = {} /\ sig.mask = {} /\ sem \in S!Semantics
  BY SemAtRest DEF S!DeferFork, SemGoing
<1>2. UNCHANGED <<S!clock, sig, S!flags, test, stack, S!answers, cwake, data, orphan>>
  BY DEF S!DeferFork
<1>3. \/ mpc' = "waitpid" /\ cpc' = "kill1"
      \/ mpc' = "exit1" /\ cpc' = cpc
  BY DEF S!DeferFork, S!Main
<1>4. S!TypeOK'
  BY <1>1, <1>2, <1>3 DEF S!IInv, S!TypeOK, S!clock, S!flags, S!answers, S!Reads,
     SemSigs
<1>5. S!Installed("SIGUSR2", {}) /\ S!Installed("SIGUSR2", {})'
  BY <1>1, <1>2 DEF S!IInv, S!Second, S!Usr2Caught, S!Installed, S!clock, S!HandlerOf,
     S!FlagsOf
<1>6. Len(stack') = 0
  BY <1>1, <1>2
<1>7. S!Children' /\ S!Masked' /\ S!Quiet' /\ S!First'
  BY <1>1, <1>2, <1>3 DEF S!IInv, S!clock, S!flags, S!Children, S!Masked, S!Quiet,
     S!First, S!Before, S!Reading, S!Alive
<1>8. S!Second'
  <2>1. now = 0 /\ needSleep = 1 /\ left = 5
    BY <1>1 DEF S!IInv, S!Children, S!Before
  <2>2. \A k \in 1 .. Len(stack') : stack'[k].fn = "sig_usr2"
    BY <1>6
  <2> QED
    BY <1>1, <1>2, <1>3, <1>5, <1>6, <2>1, <2>2 DEF S!Second, S!Usr2Caught, S!clock,
       S!flags
<1>9. S!SleepsToEnd'
  BY <1>1, <1>2, <1>3 DEF S!IInv, S!Children, S!Before, S!flags, S!SleepsToEnd,
     S!TopIn, S!Sent
<1>10. S!SleepInterrupted' /\ S!Compared' /\ S!Third' /\ S!KilledInWindow'
  BY <1>1, <1>3 DEF S!SleepInterrupted, S!Compared, S!Third, S!Reading, S!KilledInWindow
<1>11. S!FirstAnswers' /\ S!NotRestartedIsRight'
  BY <1>2 DEF S!IInv, S!FirstAnswers, S!NotRestartedIsRight, S!clock, S!answers,
     S!Reads, S!FlagsOf
<1> QED
  BY <1>4, <1>7, <1>8, <1>9, <1>10, <1>11 DEF S!IInv

LEMMA SemWaitpidIInv == ASSUME S!IInv, S!Waitpid PROVE S!IInv'
<1>1. /\ mpc = "waitpid" /\ mpc' = "compare" /\ stack = <<>>
      /\ sig \in SemSigs /\ sig.pending = {} /\ sig.mask = {} /\ sem \in S!Semantics
  BY SemAtRest DEF S!Waitpid, SemGoing
<1>2. /\ cpc \in {"exited", "killed"}
      /\ UNCHANGED <<S!clock, sig, S!flags, test, stack, S!answers, S!child>>
  BY DEF S!Waitpid
<1>3. S!TypeOK'
  BY <1>1, <1>2 DEF S!IInv, S!TypeOK, S!clock, S!flags, S!answers, S!child, S!Reads,
     SemSigs
<1>4. ~orphan => cpc = "exited"
  BY <1>2 DEF S!IInv, S!Children
<1>5. ~orphan /\ sem # "sysv" => left = 0
  BY <1>1, <1>4 DEF S!IInv, S!SleepsToEnd, S!TopIn, S!Sent, S!TypeOK
<1>6. ~orphan /\ sem = "sysv" /\ prompt => left # 0
  <2>1. ~S!Asleep
    BY <1>1, One DEF S!Asleep
  <2>2. S!Interrupted => \E n \in {2, 3} : left = n
    BY <1>1, One, Two DEF S!Interrupted
  <2> QED
    BY <1>1, <1>4, <2>1, <2>2 DEF S!IInv, S!SleepInterrupted
<1> QED
  BY <1>1, <1>2, <1>3, <1>5, <1>6 DEF S!IInv, S!clock, S!flags, S!answers, S!child,
     S!Reads, S!Children, S!Masked, S!Quiet, S!First, S!Second, S!SleepsToEnd,
     S!SleepInterrupted, S!Compared, S!Third, S!FirstAnswers, S!NotRestartedIsRight,
     S!KilledInWindow, S!Before, S!Reading, S!Alive, S!FlagsOf

LEMMA SemDeferCompareIInv == ASSUME S!IInv, S!DeferCompare PROVE S!IInv'
<1>1. /\ mpc = "compare" /\ mpc' = "install" /\ stack = <<>>
      /\ sig \in SemSigs /\ sig.pending = {} /\ sig.mask = {} /\ sem \in S!Semantics
  BY SemAtRest DEF S!DeferCompare, SemGoing
<1>2. /\ prevent' = IF left # 0 THEN "no" ELSE "yes"
      /\ UNCHANGED <<S!clock, sig, S!flags, test, stack, reset, restart, S!child>>
  BY DEF S!DeferCompare
<1>3. S!TypeOK'
  BY <1>1, <1>2 DEF S!IInv, S!TypeOK, S!clock, S!flags, S!child, S!Reads, SemSigs
<1>4. S!FirstAnswers'
  BY <1>1, <1>2 DEF S!IInv, S!Compared, S!FirstAnswers, S!clock, S!child
<1> QED
  BY <1>1, <1>2, <1>3, <1>4 DEF S!IInv, S!clock, S!flags, S!child, S!Reads,
     S!Children, S!Masked, S!Quiet, S!First, S!Second, S!SleepsToEnd, S!SleepInterrupted,
     S!Compared, S!Third, S!NotRestartedIsRight, S!KilledInWindow, S!Before, S!Reading,
     S!Alive, S!FlagsOf

\* A call of main that changes no signal.
SemUntouched == UNCHANGED <<S!clock, sig, S!flags, stack, reset, prevent, orphan>>

\* Outside the second question, and where no read is, only these facts matter.
LEMMA SemMainGoesOn ==
  ASSUME S!IInv, stack = <<>>, sig.pending = {}, sig.mask = {}, SemUntouched, S!TypeOK',
         mpc' \in {"install", "pipe", "read", "reading", "data", "eof", "eintr",
                   "exit0", "exit1"},
         cpc' = "killed" => orphan
  PROVE  /\ S!Masked' /\ S!Quiet' /\ S!First' /\ S!Second' /\ S!SleepsToEnd' /\ S!SleepInterrupted'
         /\ S!Compared' /\ S!KilledInWindow' /\ S!FirstAnswers'
         /\ stack' = <<>> /\ sig' = sig /\ sem' = sem
<1>1. S!Masked' /\ S!Quiet'
  BY DEF S!Masked, S!Quiet, SemUntouched
<1>2. S!First' /\ S!Second' /\ S!SleepsToEnd' /\ S!SleepInterrupted' /\ S!Compared' /\ S!KilledInWindow'
  BY DEF S!First, S!Second, S!SleepsToEnd, S!SleepInterrupted, S!Compared,
     S!KilledInWindow
<1>3. S!FirstAnswers'
  BY DEF S!IInv, S!FirstAnswers, SemUntouched, S!clock
<1> QED
  BY <1>1, <1>2, <1>3 DEF SemUntouched, S!clock

\* Which read it is.
LEMMA SemReadIs ==
  ASSUME sem \in S!Semantics, test \in 1 .. Len(S!Reads) + 1, test =< Len(S!Reads)
  PROVE  /\ S!Awaited \in {"SIGALRM", "SIGUSR1"} /\ S!Awaited \in S!Signals
         /\ S!Passed \in SUBSET {"restart"}
         /\ test \in 1 .. Len(S!Reads) /\ test \in 1 .. 4
         /\ S!HandlerOf(S!Awaited) \in {"sig_usr1", "sig_alrm"}
<1>1. Len(S!Reads) \in {2, 4} /\ test \in 1 .. Len(S!Reads)
  BY SemReadsAre
<1>2. S!Awaited \in {"SIGALRM", "SIGUSR1"} /\ S!Passed \in SUBSET {"restart"}
  BY <1>1, SemReadsAre DEF S!Awaited, S!Passed
<1>3. test \in 1 .. 4
  BY <1>1, SemReadsAre
<1> QED
  BY <1>1, <1>2, <1>3, SemHandlerIs DEF S!Signals

LEMMA SemReadInstallIInv == ASSUME S!IInv, S!ReadInstall PROVE S!IInv'
<1>1. /\ mpc = "install" /\ mpc' = "pipe" /\ stack = <<>>
      /\ sig \in SemSigs /\ sig.pending = {} /\ sig.mask = {} /\ sem \in S!Semantics
  BY SemAtRest DEF S!ReadInstall, SemGoing
<1>2. /\ test =< Len(S!Reads) /\ sig' = S!Signal(sig, S!Awaited, S!Passed)
      /\ UNCHANGED <<S!clock, S!flags, test, stack, S!answers, S!child>>
  BY DEF S!ReadInstall, S!Awaited, S!Passed
<1>3. S!Awaited \in S!Signals /\ S!Passed \in SUBSET {"restart"}
  BY <1>1, <1>2, SemReadIs DEF S!IInv, S!TypeOK
<1>4. S!Awaited' = S!Awaited /\ S!Passed' = S!Passed /\ S!Reads' = S!Reads
      /\ S!FlagsOf(S!Passed)' = S!FlagsOf(S!Passed) /\ S!HandlerOf(S!Awaited)' = S!HandlerOf(S!Awaited)
  BY <1>2 DEF S!Awaited, S!Passed, S!Reads, S!clock, S!FlagsOf, S!HandlerOf
<1>5. sig' \in SemSigs /\ sig'.mask = {} /\ sig'.pending = {} /\ S!Installed(S!Awaited, S!Passed)'
  BY <1>1, <1>2, <1>3, <1>4, SemSignalIs DEF S!Installed
<1>6. S!TypeOK'
  BY <1>1, <1>2, <1>4, <1>5 DEF S!IInv, S!TypeOK, S!clock, S!flags, S!answers,
     S!child, SemSigs
<1>7. S!Children' /\ S!Masked' /\ S!Quiet'
  BY <1>1, <1>2, <1>5 DEF S!IInv, S!Children, S!Masked, S!Quiet, S!Before, S!child
<1>8. S!First' /\ S!Second' /\ S!SleepsToEnd' /\ S!SleepInterrupted' /\ S!Compared' /\ S!KilledInWindow'
  BY <1>1 DEF S!First, S!Second, S!SleepsToEnd, S!SleepInterrupted, S!Compared,
     S!KilledInWindow
<1>9. S!Third'
  BY <1>1, <1>2, <1>4, <1>5 DEF S!Third, S!Reading
<1>10. S!FirstAnswers' /\ S!NotRestartedIsRight'
  BY <1>2 DEF S!IInv, S!FirstAnswers, S!NotRestartedIsRight, S!clock, S!answers,
     S!child, S!Reads, S!FlagsOf
<1> QED
  BY <1>6, <1>7, <1>8, <1>9, <1>10 DEF S!IInv

LEMMA SemReadForkIInv == ASSUME S!IInv, S!ReadFork PROVE S!IInv'
<1>1. /\ mpc = "pipe" /\ stack = <<>>
      /\ sig \in SemSigs /\ sig.pending = {} /\ sig.mask = {} /\ sem \in S!Semantics
  BY SemAtRest DEF S!ReadFork, SemGoing
<1>2. UNCHANGED <<S!clock, sig, S!flags, test, stack, S!answers, cwake, orphan>>
  BY DEF S!ReadFork
<1>3. \/ mpc' = "read" /\ cpc' = "sleep" /\ data' = 0
      \/ mpc' = "exit1" /\ UNCHANGED <<cpc, data>>
  BY DEF S!ReadFork, S!Main
<1>4. S!Awaited' = S!Awaited /\ S!Passed' = S!Passed /\ S!Reads' = S!Reads
      /\ S!FlagsOf(S!Passed)' = S!FlagsOf(S!Passed) /\ S!HandlerOf(S!Awaited)' = S!HandlerOf(S!Awaited)
  BY <1>2 DEF S!Awaited, S!Passed, S!Reads, S!clock, S!FlagsOf, S!HandlerOf
<1>5. S!TypeOK'
  BY <1>1, <1>2, <1>3, <1>4 DEF S!IInv, S!TypeOK, S!clock, S!flags, S!answers, SemSigs
<1>6. S!Children'
  BY <1>1, <1>2, <1>3 DEF S!IInv, S!Children, S!Before
<1>7. /\ S!Masked' /\ S!Quiet' /\ S!First' /\ S!Second' /\ S!SleepsToEnd' /\ S!SleepInterrupted'
      /\ S!Compared' /\ S!KilledInWindow' /\ S!FirstAnswers'
  <2>1. SemUntouched /\ mpc' \in {"read", "exit1"} /\ (cpc' = "killed" => orphan)
    BY <1>2, <1>3 DEF SemUntouched, S!answers, S!IInv, S!Children
  <2> QED
    BY <1>1, <1>5, <2>1, SemMainGoesOn
<1>8. S!Third'
  <2>1. test =< Len(S!Reads) /\ S!Installed(S!Awaited, S!Passed)
    BY <1>1 DEF S!IInv, S!Third
  <2>2. S!Installed(S!Awaited, S!Passed)'
    BY <1>2, <1>4, <2>1 DEF S!Installed
  <2>3. S!Emptied(S!HandlerOf(S!Awaited))'
    BY <1>1, <1>2 DEF S!Emptied
  <2> QED
    BY <1>1, <1>2, <1>3, <1>4, <2>1, <2>2, <2>3 DEF S!Third, S!Reading
<1>9. S!NotRestartedIsRight'
  BY <1>2 DEF S!IInv, S!NotRestartedIsRight, S!clock, S!answers, S!Reads, S!FlagsOf
<1> QED
  BY <1>5, <1>6, <1>7, <1>8, <1>9 DEF S!IInv

LEMMA SemReadIInv == ASSUME S!IInv, S!Read PROVE S!IInv'
<1>1. /\ mpc \in {"read", "reading"} /\ stack = <<>>
      /\ sig \in SemSigs /\ sig.pending = {} /\ sig.mask = {} /\ sem \in S!Semantics
  BY SemAtRest DEF S!Read, SemGoing
<1>2. UNCHANGED <<S!clock, sig, S!flags, test, stack, S!answers, S!child>>
  BY DEF S!Read
<1>3. \/ mpc' = "reading"
      \/ mpc' = "data" /\ data > 0
      \/ mpc' = "eof" /\ cpc \in {"exited", "killed"}
  BY DEF S!Read, S!Main, S!Readable, S!Outcome
<1>4. S!Awaited' = S!Awaited /\ S!Passed' = S!Passed /\ S!Reads' = S!Reads
      /\ S!FlagsOf(S!Passed)' = S!FlagsOf(S!Passed) /\ S!HandlerOf(S!Awaited)' = S!HandlerOf(S!Awaited)
  BY <1>2 DEF S!Awaited, S!Passed, S!Reads, S!clock, S!FlagsOf, S!HandlerOf
<1>5. S!TypeOK'
  BY <1>1, <1>2, <1>3, <1>4 DEF S!IInv, S!TypeOK, S!clock, S!flags, S!answers,
     SemSigs, S!child
<1>6. S!Children'
  BY <1>1, <1>2, <1>3 DEF S!IInv, S!Children, S!Before, S!child
<1>7. /\ S!Masked' /\ S!Quiet' /\ S!First' /\ S!Second' /\ S!SleepsToEnd' /\ S!SleepInterrupted'
      /\ S!Compared' /\ S!KilledInWindow' /\ S!FirstAnswers'
  <2>1. SemUntouched /\ mpc' \in {"reading", "data", "eof"} /\ (cpc' = "killed" => orphan)
    BY <1>2, <1>3 DEF SemUntouched, S!answers, S!child, S!IInv, S!Children
  <2> QED
    BY <1>1, <1>5, <2>1, SemMainGoesOn
<1>8. S!Third'
  <2>1. test =< Len(S!Reads)
    BY <1>1 DEF S!IInv, S!Third, S!Reading
  <2>2. cpc \in {"sleep", "sleeping", "kill"} => S!Installed(S!Awaited, S!Passed)
    BY <1>1 DEF S!IInv, S!Third, S!Reading
  <2>3. S!Installed(S!Awaited, S!Passed) => S!Installed(S!Awaited, S!Passed)'
    BY <1>2, <1>4 DEF S!Installed
  <2>4. S!Emptied(S!HandlerOf(S!Awaited))'
    BY <1>1, <1>2 DEF S!Emptied
  <2> QED
    BY <1>1, <1>2, <1>3, <1>4, <2>1, <2>2, <2>3, <2>4 DEF S!Third, S!Reading, S!child
<1>9. S!NotRestartedIsRight'
  BY <1>2 DEF S!IInv, S!NotRestartedIsRight, S!clock, S!answers, S!Reads, S!FlagsOf
<1> QED
  BY <1>5, <1>6, <1>7, <1>8, <1>9 DEF S!IInv

LEMMA SemReadAnswerIInv == ASSUME S!IInv, S!ReadAnswer PROVE S!IInv'
<1>1. /\ mpc \in {"data", "eintr", "eof"} /\ stack = <<>>
      /\ sig \in SemSigs /\ sig.pending = {} /\ sig.mask = {} /\ sem \in S!Semantics
  BY SemAtRest DEF S!ReadAnswer, S!Answer, SemGoing
<1>2. UNCHANGED <<S!clock, sig, S!flags, stack, reset, prevent, S!child>>
  BY DEF S!ReadAnswer
<1>3. \/ /\ mpc' = "install" /\ test' = test + 1
         /\ \/ mpc = "data"  /\ restart' = [restart EXCEPT ![test] = "yes"]
            \/ mpc = "eintr" /\ restart' = [restart EXCEPT ![test] = "no"]
      \/ mpc' = "exit1" /\ UNCHANGED <<restart, test>>
  BY DEF S!ReadAnswer, S!Answer, S!Main
<1>4. S!Reads' = S!Reads /\ sem' = sem
  BY <1>2 DEF S!Reads, S!clock
<1>5. test \in 1 .. Len(S!Reads) /\ test \in 1 .. 4 /\ Len(S!Reads) \in {2, 4}
  BY <1>1, SemReadIs, SemReadsAre DEF S!IInv, S!TypeOK, S!Third, S!Reading
<1>6. test' \in 1 .. Len(S!Reads)' + 1
  BY <1>3, <1>4, <1>5
<1>7. restart' \in [1 .. 4 -> {"none", "yes", "no"}]
  BY <1>3, <1>5 DEF S!IInv, S!TypeOK
<1>8. S!TypeOK'
  BY <1>1, <1>2, <1>3, <1>4, <1>6, <1>7 DEF S!IInv, S!TypeOK, S!clock, S!flags,
     SemSigs, S!child
<1>9. S!Children'
  BY <1>1, <1>2, <1>3 DEF S!IInv, S!Children, S!Before, S!child
<1>10. /\ S!Masked' /\ S!Quiet' /\ S!First' /\ S!Second' /\ S!SleepsToEnd' /\ S!SleepInterrupted'
       /\ S!Compared' /\ S!KilledInWindow' /\ S!FirstAnswers'
  <2>1. SemUntouched /\ mpc' \in {"install", "exit1"} /\ (cpc' = "killed" => orphan)
    BY <1>2, <1>3 DEF SemUntouched, S!child, S!IInv, S!Children
  <2> QED
    BY <1>1, <1>8, <2>1, SemMainGoesOn
<1>11. S!Third'
  BY <1>3 DEF S!Third, S!Reading
<1>12. S!NotRestartedIsRight'
  <2> SUFFICES ASSUME NEW k \in 1 .. Len(S!Reads), restart'[k] = "no"
               PROVE  "restart" \notin S!FlagsOf(S!Reads[k].flags)
    BY <1>4 DEF S!NotRestartedIsRight, S!FlagsOf
  <2>1. CASE restart[k] = "no"
    BY <2>1 DEF S!IInv, S!NotRestartedIsRight
  <2>2. CASE restart[k] # "no"
    <3>1. k \in 1 .. 4
      BY <1>1, SemReadsAre
    <3>2. k = test /\ mpc = "eintr"
      BY <1>3, <2>2, <3>1 DEF S!IInv, S!TypeOK
    <3> QED
      BY <3>2 DEF S!IInv, S!Third, S!Passed
  <2> QED
    BY <2>1, <2>2
<1> QED
  BY <1>8, <1>9, <1>10, <1>11, <1>12 DEF S!IInv

LEMMA SemExit0IInv == ASSUME S!IInv, S!Exit0 PROVE S!IInv'
<1>1. /\ mpc = "install" /\ mpc' = "exit0" /\ stack = <<>>
      /\ sig \in SemSigs /\ sig.pending = {} /\ sig.mask = {} /\ sem \in S!Semantics
  BY SemAtRest DEF S!Exit0, SemGoing
<1>2. UNCHANGED <<S!clock, sig, S!flags, test, stack, S!answers, S!child>>
  BY DEF S!Exit0
<1>3. S!TypeOK'
  BY <1>1, <1>2 DEF S!IInv, S!TypeOK, S!clock, S!flags, S!answers, SemSigs, S!child,
     S!Reads
<1>4. S!Children' /\ S!Third'
  BY <1>1, <1>2 DEF S!IInv, S!Children, S!Before, S!child, S!Third, S!Reading
<1>5. /\ S!Masked' /\ S!Quiet' /\ S!First' /\ S!Second' /\ S!SleepsToEnd' /\ S!SleepInterrupted'
      /\ S!Compared' /\ S!KilledInWindow' /\ S!FirstAnswers'
  <2>1. SemUntouched /\ (cpc' = "killed" => orphan)
    BY <1>2 DEF SemUntouched, S!answers, S!child, S!IInv, S!Children
  <2> QED
    BY <1>1, <1>3, <2>1, SemMainGoesOn
<1>6. S!NotRestartedIsRight'
  BY <1>2 DEF S!IInv, S!NotRestartedIsRight, S!clock, S!answers, S!Reads, S!FlagsOf
<1> QED
  BY <1>3, <1>4, <1>5, <1>6 DEF S!IInv

---------------------------------------------------------------------------
\* The child takes a step, or time does: only what is pending can change.
SemKept == /\ UNCHANGED <<prompt, sem, S!flags, mpc, test, stack, S!answers>>
           /\ sig'.act = sig.act /\ sig'.mask = sig.mask

LEMMA SemKeptFacts ==
  ASSUME S!IInv, SemKept
  PROVE  /\ S!Alive' = S!Alive /\ S!Masked' /\ S!NotRestartedIsRight' /\ S!KilledInWindow'
         /\ S!Usr2Caught' = S!Usr2Caught /\ S!Asleep' = S!Asleep /\ S!InWindow' = S!InWindow
         /\ \A places : S!TopIn(places)' = S!TopIn(places)
         /\ sig'.pending = sig.pending => S!ToSleep' = S!ToSleep /\ S!Interrupted' = S!Interrupted
         /\ S!Reads' = S!Reads /\ S!Awaited' = S!Awaited /\ S!FlagsOf(S!Passed)' = S!FlagsOf(S!Passed)
         /\ S!Installed(S!Awaited, S!Passed)' = S!Installed(S!Awaited, S!Passed)
         /\ S!Emptied(S!HandlerOf(S!Awaited))' = S!Emptied(S!HandlerOf(S!Awaited))
<1>1. S!Reads' = S!Reads /\ S!Awaited' = S!Awaited /\ S!Passed' = S!Passed
  BY DEF SemKept, S!Reads, S!Awaited, S!Passed
<1>2. \A x : S!FlagsOf(x)' = S!FlagsOf(x)
  BY DEF SemKept, S!FlagsOf
<1>3. /\ S!Installed("SIGUSR2", {})' = S!Installed("SIGUSR2", {})
      /\ S!Installed(S!Awaited, S!Passed)' = S!Installed(S!Awaited, S!Passed)
  BY <1>1, <1>2 DEF SemKept, S!Installed, S!HandlerOf
<1>4. S!Usr2Caught' = S!Usr2Caught
  BY <1>3 DEF S!Usr2Caught
<1>5. S!Asleep' = S!Asleep
  BY <1>4 DEF S!Asleep, SemKept, S!flags
<1>6. sig'.pending = sig.pending => S!ToSleep' = S!ToSleep /\ S!Interrupted' = S!Interrupted
  BY <1>4 DEF S!ToSleep, S!Interrupted, SemKept, S!flags
<1>7. \A places : S!TopIn(places)' = S!TopIn(places)
  BY DEF S!TopIn, S!Top, SemKept
<1>8. S!Alive' = S!Alive /\ S!Masked' /\ S!InWindow' = S!InWindow
  BY DEF S!IInv, S!Masked, S!Top, S!InWindow, SemKept, S!Alive
<1>11. S!KilledInWindow'
  BY <1>8 DEF S!IInv, S!KilledInWindow, SemKept
<1>9. S!NotRestartedIsRight'
  BY <1>1, <1>2 DEF S!IInv, S!NotRestartedIsRight, SemKept, S!answers, S!Reads
<1>10. S!Emptied(S!HandlerOf(S!Awaited))' = S!Emptied(S!HandlerOf(S!Awaited))
  BY <1>1 DEF S!Emptied, SemKept, S!HandlerOf
<1> QED
  BY <1>1, <1>2, <1>3, <1>4, <1>5, <1>6, <1>7, <1>8, <1>9, <1>10, <1>11

\* What the child does when the parent has ended has no effect.
LEMMA SemParentEnded ==
  ASSUME S!IInv, SemKept, ~S!Alive, S!TypeOK', S!FirstAnswers', cpc' = "killed" => orphan'
  PROVE  S!IInv'
<1>1. mpc' \in {"exit0", "exit1", "killed"} /\ ~S!Alive'
  BY DEF S!Alive, SemKept
<1>2. S!Children' /\ S!Masked' /\ S!Quiet' /\ S!First' /\ S!Second'
  BY <1>1 DEF S!Children, S!Masked, S!Quiet, S!First, S!Second, S!Before
<1>3. S!SleepsToEnd' /\ S!SleepInterrupted' /\ S!Compared' /\ S!Third'
  BY <1>1 DEF S!SleepsToEnd, S!SleepInterrupted, S!Compared, S!Third, S!Reading
<1> QED
  BY <1>2, <1>3, SemKeptFacts DEF S!IInv

LEMMA SemChildKill2IInv == ASSUME S!IInv, S!ChildKill2 PROVE S!IInv'
<1>1. /\ \/ cpc = "kill1" /\ cpc' = "sleep1"
         \/ cpc = "kill2" /\ cpc' = "exited"
      /\ UNCHANGED <<S!clock, S!flags, mpc, test, stack, S!answers, cwake, data, orphan>>
  BY DEF S!ChildKill2, S!Child
<1>2. sig' = IF S!Alive THEN S!Generate(sig, "SIGUSR2") ELSE sig
  BY DEF S!ChildKill2, S!Send
<1>3. sig \in SemSigs /\ sem \in S!Semantics
  BY DEF S!IInv, S!TypeOK, SemSigs
<1>4. /\ sig' \in SemSigs /\ sig'.mask = sig.mask /\ sig'.act = sig.act
      /\ sig.pending \subseteq sig'.pending
      /\ sig'.pending \subseteq sig.pending \cup {"SIGUSR2"}
      /\ S!Alive /\ S!Usr2Caught => sig'.pending = sig.pending \cup {"SIGUSR2"}
  BY <1>2, <1>3, SemGenerated, SemInstalledIs DEF S!Signals, S!Usr2Caught
<1>5. SemKept
  BY <1>1, <1>4 DEF SemKept, S!clock
<1>6. S!TypeOK'
  BY <1>1, <1>4, SemKeptFacts, <1>5 DEF S!IInv, S!TypeOK, S!clock, S!flags, S!answers,
     SemSigs
<1>7. S!FirstAnswers'
  BY <1>1 DEF S!IInv, S!FirstAnswers, S!clock, S!answers
<1>8. CASE ~S!Alive
  BY <1>1, <1>5, <1>6, <1>7, <1>8, SemParentEnded
<1>9. CASE S!Alive
  <2>1. mpc = "waitpid" /\ mpc' = "waitpid"
    BY <1>1, <1>9 DEF S!IInv, S!TypeOK, S!Alive, S!Children, S!Before
  <2>2. S!Children' /\ S!Quiet' /\ S!First' /\ S!Compared' /\ S!Third'
    BY <1>1, <2>1 DEF S!Children, S!Quiet, S!First, S!Compared, S!Third, S!Before,
       S!Reading
  <2>3. S!Second'
    <3>1. prompt => S!Usr2Caught
      BY <1>1, <2>1 DEF S!IInv, S!Second, S!SleepInterrupted, S!Asleep
    <3>2. S!Usr2Caught' = S!Usr2Caught /\ S!InWindow' = S!InWindow
      BY <1>5, SemKeptFacts
    <3>3. sig'.pending \subseteq {"SIGUSR2"} /\ UNCHANGED <<prompt, sem, mpc, stack>>
      BY <1>1, <1>4, <2>1 DEF S!IInv, S!Second, S!clock
    <3>4. S!Handler(sig, "SIGUSR2")' = S!Handler(sig, "SIGUSR2")
      BY <1>4 DEF S!Handler
    <3> QED
      BY <1>1, <2>1, <3>1, <3>2, <3>3, <3>4 DEF S!IInv, S!Second
  <2>4. S!SleepsToEnd'
    <3>1. cpc = "kill1" => sig'.pending # {}
      BY <1>4, <1>9, <2>1 DEF S!IInv, S!Second
    <3> QED
      BY <1>1, <1>4, <2>1, <3>1, <1>5, SemKeptFacts DEF S!IInv, S!SleepsToEnd,
         S!clock, S!flags, S!Sent, S!Top
  <2>5. S!SleepInterrupted'
    <3>1. cpc = "kill1" => now = 0 /\ S!ToSleep'
      BY <1>1, <1>4, <1>9, <2>1 DEF S!IInv, S!Second, S!ToSleep, S!flags
    <3>2. cpc = "kill2" /\ sem = "sysv" /\ prompt => now = 2 /\ S!Asleep /\ sig'.pending # {}
      BY <1>4, <1>9, <2>1 DEF S!IInv, S!SleepInterrupted, S!Asleep
    <3> QED
      BY <1>1, <3>1, <3>2, <1>5, SemKeptFacts DEF S!SleepInterrupted, S!clock
  <2> QED
    BY <1>6, <1>7, <2>2, <2>3, <2>4, <2>5, <1>5, SemKeptFacts DEF S!IInv
<1> QED
  BY <1>8, <1>9

\* A step of the child that is no signal, or one of time.
LEMMA SemNothingSent ==
  ASSUME S!IInv, SemKept, sig' = sig, S!TypeOK', S!Children', S!FirstAnswers',
         cpc' \in {"kill1", "sleep1", "sleeping1", "kill2", "exited"} => UNCHANGED orphan,
         S!SleepInterrupted', S!Compared',
         mpc \in S!Reading /\ cpc' \in {"sleep", "sleeping", "kill"} =>
           cpc \in {"sleep", "sleeping", "kill"},
         cpc' = "kill1" => cpc = "kill1" /\ now' = now, cpc' \in S!Sent => cpc \in S!Sent
  PROVE  S!IInv'
<1>1. mpc' = mpc /\ stack' = stack /\ test' = test
  BY DEF SemKept
<1>2. S!Quiet' /\ S!First'
  <2>1. \A s : S!Installed(s, {})' = S!Installed(s, {})
    BY DEF SemKept, S!Installed, S!HandlerOf, S!FlagsOf
  <2>2. S!Emptied("sig_usr1")' = S!Emptied("sig_usr1")
    BY <1>1 DEF S!Emptied
  <2> QED
    BY <1>1, <2>1, <2>2 DEF S!IInv, S!Quiet, S!First, SemKept
<1>3. S!Second'
  BY <1>1, SemKeptFacts DEF S!IInv, S!Second, SemKept, S!flags
<1>4. S!SleepsToEnd'
  BY <1>1, SemKeptFacts DEF S!IInv, S!SleepsToEnd, SemKept, S!flags, S!Top
<1>5. S!Third'
  <2>1. S!Installed(S!Awaited, S!Passed)' = S!Installed(S!Awaited, S!Passed)
        /\ S!Emptied(S!HandlerOf(S!Awaited))' = S!Emptied(S!HandlerOf(S!Awaited))
        /\ S!Reads' = S!Reads /\ S!Awaited' = S!Awaited /\ S!FlagsOf(S!Passed)' = S!FlagsOf(S!Passed)
    BY SemKeptFacts
  <2>2. mpc = "pipe" \/ mpc \in S!Reading => test =< Len(S!Reads)
    BY DEF S!IInv, S!Third
  <2>3. mpc = "eintr" => "restart" \notin S!FlagsOf(S!Passed)
    BY DEF S!IInv, S!Third
  <2>4. mpc = "pipe" => S!Installed(S!Awaited, S!Passed)
    BY DEF S!IInv, S!Third
  <2>5. mpc \in S!Reading =>
          /\ sig.pending \subseteq {S!Awaited} /\ S!Emptied(S!HandlerOf(S!Awaited))
          /\ cpc \in {"sleep", "sleeping", "kill"} => sig.pending = {}
          /\ cpc \in {"sleep", "sleeping", "kill"} \/ sig.pending # {} =>
               stack = <<>> /\ S!Installed(S!Awaited, S!Passed)
    BY DEF S!IInv, S!Third
  <2> QED
    BY <1>1, <2>1, <2>2, <2>3, <2>4, <2>5 DEF S!Third
<1> QED
  BY <1>2, <1>3, <1>4, <1>5, SemKeptFacts DEF S!IInv

LEMMA SemChildSleepIInv == ASSUME S!IInv, S!ChildSleep PROVE S!IInv'
<1>1. /\ \/ cpc = "sleep1" /\ cpc' = "sleeping1"
         \/ cpc = "sleep" /\ cpc' = "sleeping"
      /\ cwake' = now + 2
      /\ UNCHANGED <<S!clock, sig, S!flags, mpc, test, stack, S!answers, data, orphan>>
  BY DEF S!ChildSleep, S!Child
<1>2. SemKept /\ sig' = sig
  BY <1>1 DEF SemKept, S!clock
<1>3. S!TypeOK'
  BY <1>1, <1>2, SemKeptFacts DEF S!IInv, S!TypeOK, S!clock, S!flags, S!answers, SemSigs
<1>4. S!Children' /\ S!FirstAnswers' /\ S!Compared'
  BY <1>1 DEF S!IInv, S!Children, S!FirstAnswers, S!Compared, S!clock, S!answers,
     S!flags
<1>5. S!SleepInterrupted'
  BY <1>1, <1>2, SemKeptFacts DEF S!IInv, S!SleepInterrupted, S!clock
<1> QED
  BY <1>1, <1>2, <1>3, <1>4, <1>5, SemNothingSent DEF S!Sent

LEMMA SemChildWakeIInv == ASSUME S!IInv, S!ChildWake PROVE S!IInv'
<1>1. /\ \/ cpc = "sleeping1" /\ cpc' = "kill2"
         \/ cpc = "sleeping" /\ cpc' = "kill"
      /\ prompt => now >= cwake
      /\ UNCHANGED <<S!clock, sig, S!flags, mpc, test, stack, S!answers, cwake, data, orphan>>
  BY DEF S!ChildWake, S!Child
<1>2. SemKept /\ sig' = sig
  BY <1>1 DEF SemKept, S!clock
<1>3. S!TypeOK'
  BY <1>1, <1>2, SemKeptFacts DEF S!IInv, S!TypeOK, S!clock, S!flags, S!answers, SemSigs
<1>4. S!Children' /\ S!FirstAnswers' /\ S!Compared'
  BY <1>1 DEF S!IInv, S!Children, S!FirstAnswers, S!Compared, S!clock, S!answers,
     S!flags
<1>5. S!SleepInterrupted'
  <2>1. now \in Nat /\ cwake \in Nat
    BY DEF S!IInv, S!TypeOK
  <2>2. mpc = "waitpid" /\ sem = "sysv" /\ prompt /\ cpc = "sleeping1" =>
          now = 2 /\ S!Asleep /\ sig.pending = {}
    BY <1>1, <2>1 DEF S!IInv, S!SleepInterrupted
  <2> QED
    BY <1>1, <1>2, <2>2, SemKeptFacts DEF S!SleepInterrupted, S!clock
<1> QED
  BY <1>1, <1>2, <1>3, <1>4, <1>5, SemNothingSent DEF S!Sent

LEMMA SemKillChildIInv == ASSUME S!IInv, S!KillChild PROVE S!IInv'
<1>1. /\ cpc \notin {"none", "exited", "killed"} /\ cpc' = "killed" /\ orphan' = TRUE
      /\ UNCHANGED <<S!clock, sig, S!flags, mpc, test, stack, S!answers, cwake, data>>
  BY DEF S!KillChild
<1>2. SemKept /\ sig' = sig
  BY <1>1 DEF SemKept, S!clock
<1>3. S!TypeOK'
  BY <1>1, <1>2, SemKeptFacts DEF S!IInv, S!TypeOK, S!clock, S!flags, S!answers, SemSigs
<1>4. S!Children' /\ S!FirstAnswers' /\ S!Compared' /\ S!SleepInterrupted'
  BY <1>1 DEF S!IInv, S!Children, S!FirstAnswers, S!Compared, S!SleepInterrupted,
     S!clock, S!answers, S!flags
<1> QED
  BY <1>1, <1>2, <1>3, <1>4, SemNothingSent DEF S!Sent

LEMMA SemChildKillWriteIInv == ASSUME S!IInv, S!ChildKillWrite PROVE S!IInv'
<1>1. UNCHANGED <<S!clock, S!flags, mpc, test, stack, S!answers, cwake, orphan>>
  BY DEF S!ChildKillWrite
<1>2. sig \in SemSigs /\ sem \in S!Semantics
  BY DEF S!IInv, S!TypeOK, SemSigs
<1>3. S!FirstAnswers'
  BY <1>1 DEF S!IInv, S!FirstAnswers, S!clock, S!answers
<1>4. CASE cpc = "write" /\ cpc' = "exited" /\ data' = 1 /\ UNCHANGED sig
  <2>1. SemKept /\ sig' = sig
    BY <1>1, <1>4 DEF SemKept, S!clock
  <2>2. S!TypeOK'
    BY <1>1, <1>4, <2>1, SemKeptFacts DEF S!IInv, S!TypeOK, S!clock, S!flags,
       S!answers, SemSigs
  <2>3. S!Children' /\ S!Compared' /\ S!SleepInterrupted'
    BY <1>1, <1>4 DEF S!IInv, S!Children, S!Compared, S!SleepInterrupted, S!Before
  <2>4. S!IInv'
    <3>1. mpc # "waitpid"
      BY <1>4 DEF S!IInv, S!Children
    <3>2. S!Quiet' /\ S!First'
      BY <1>1, <1>4, <2>1 DEF S!IInv, S!Children, S!Quiet, S!First, S!Before
    <3>3. S!Second' /\ S!SleepsToEnd'
      BY <1>1, <1>4, <3>1 DEF S!IInv, S!Children, S!Second, S!SleepsToEnd, S!Before
    <3>4. S!Third'
      <4>1. S!Installed(S!Awaited, S!Passed)' = S!Installed(S!Awaited, S!Passed)
            /\ S!Emptied(S!HandlerOf(S!Awaited))' = S!Emptied(S!HandlerOf(S!Awaited))
            /\ S!Reads' = S!Reads /\ S!Awaited' = S!Awaited /\ S!FlagsOf(S!Passed)' = S!FlagsOf(S!Passed)
        BY <2>1, SemKeptFacts
      <4>2. mpc' = mpc /\ stack' = stack /\ test' = test
        BY <1>1
      <4> QED
        BY <1>4, <2>1, <4>1, <4>2 DEF S!IInv, S!Third
    <3> QED
      BY <1>3, <2>1, <2>2, <2>3, <3>2, <3>3, <3>4, SemKeptFacts DEF S!IInv
  <2> QED
    BY <2>4
<1>5. CASE cpc = "kill" /\ cpc' = "write" /\ UNCHANGED data /\ S!Send(S!Awaited)
  <2>1. sig' = IF S!Alive THEN S!Generate(sig, S!Awaited) ELSE sig
    BY <1>5 DEF S!Send
  <2>2. S!Alive => mpc \in {"read", "reading"} /\ mpc' = mpc
    BY <1>1, <1>5 DEF S!IInv, S!TypeOK, S!Alive, S!Children, S!Before
  <2>3. S!Alive => /\ S!Awaited \in S!Signals /\ S!Passed \in SUBSET {"restart"}
                   /\ sig.pending = {} /\ stack = <<>> /\ S!Installed(S!Awaited, S!Passed)
                   /\ S!Emptied(S!HandlerOf(S!Awaited)) /\ test =< Len(S!Reads)
    BY <1>2, <1>5, <2>2, SemReadIs DEF S!IInv, S!TypeOK, S!Third, S!Reading
  <2>4. /\ sig' \in SemSigs /\ sig'.mask = sig.mask /\ sig'.act = sig.act
        /\ S!Alive => sig'.pending = {S!Awaited}
    BY <1>2, <2>1, <2>3, SemGenerated, SemInstalledIs
  <2>5. SemKept
    BY <1>1, <2>4 DEF SemKept, S!clock
  <2>6. S!TypeOK'
    BY <1>1, <1>5, <2>4, <2>5, SemKeptFacts DEF S!IInv, S!TypeOK, S!clock, S!flags,
       S!answers, SemSigs
  <2>7. CASE ~S!Alive
    BY <1>1, <1>3, <1>5, <2>5, <2>6, <2>7, SemParentEnded
  <2>8. CASE S!Alive
    <3>1. S!Children' /\ S!Quiet' /\ S!First' /\ S!Second'
      BY <1>1, <1>5, <2>2, <2>8 DEF S!IInv, S!Children, S!Quiet, S!First, S!Second,
         S!Before
    <3>2. S!SleepsToEnd' /\ S!SleepInterrupted' /\ S!Compared'
      BY <2>2, <2>8 DEF S!SleepsToEnd, S!SleepInterrupted, S!Compared
    <3>3. S!Third'
      <4>1. S!Installed(S!Awaited, S!Passed)' /\ S!Emptied(S!HandlerOf(S!Awaited))'
            /\ S!Reads' = S!Reads /\ S!Awaited' = S!Awaited
        BY <2>3, <2>5, <2>8, SemKeptFacts
      <4> QED
        BY <1>1, <1>5, <2>2, <2>3, <2>4, <2>8, <4>1 DEF S!Third, S!Reading
    <3> QED
      BY <1>3, <2>5, <2>6, <3>1, <3>2, <3>3, SemKeptFacts DEF S!IInv
  <2> QED
    BY <2>7, <2>8
<1> QED
  BY <1>4, <1>5 DEF S!ChildKillWrite, S!Child, S!Awaited

\* The only handler that runs.
LEMMA SemOneFrame ==
  ASSUME NEW f, NEW p, NEW w, NEW r, stack = <<S!Frame(f, p, w, r)>>
  PROVE  /\ stack # <<>> /\ S!Top = S!Frame(f, p, w, r) /\ S!Top.fn = f /\ S!Top.pc = p
         /\ S!Top.saved = {} /\ S!Top.wake = w /\ S!Top.rest = r
<1>1. stack # <<>> /\ S!Top = S!Frame(f, p, w, r)
  BY One DEF S!Top
<1> QED
  BY <1>1 DEF S!Frame

LEMMA SemTickIInv == ASSUME S!IInv, S!Tick PROVE S!IInv'
<1>1. /\ prompt /\ S!ParentIdle /\ S!ChildIdle /\ now' = now + 1
      /\ UNCHANGED <<prompt, sem, sig, S!flags, mpc, test, stack, S!answers, S!child>>
  BY DEF S!Tick
<1>2. SemKept /\ sig' = sig
  BY <1>1 DEF SemKept
<1>3. now \in Nat
  BY DEF S!IInv, S!TypeOK
<1>4. S!TypeOK'
  BY <1>1, <1>2, <1>3, SemKeptFacts DEF S!IInv, S!TypeOK, S!flags, S!answers, S!child,
     SemSigs
<1>5. S!Alive => /\ sig.pending \ sig.mask = {}
                 /\ \/ S!TopIn({"sleeping"})
                    \/ stack = <<>> /\ mpc \in {"waitpid", "reading"}
  BY <1>1 DEF S!ParentIdle, S!Deliverable, S!TopIn
<1>6. mpc \notin S!Before
  <2> SUFFICES ASSUME mpc \in S!Before PROVE FALSE
    OBVIOUS
  <2>1. S!TopIn({"sleeping"})
    BY <1>5 DEF S!Before, S!Alive
  <2>2. mpc = "query"
    BY <2>1 DEF S!IInv, S!Quiet, S!Before, S!TopIn
  <2>3. PICK p \in {"start", "return"} : stack = <<S!Frame("sig_usr1", p, 0, 0)>>
    BY <2>1, <2>2 DEF S!IInv, S!First, S!Emptied, S!TopIn
  <2>4. S!Top.pc = p
    BY <2>3, SemOneFrame
  <2> QED
    BY <2>1, <2>4 DEF S!TopIn
<1>7. S!Children' /\ S!FirstAnswers' /\ S!Compared'
  BY <1>1, <1>6 DEF S!IInv, S!Children, S!FirstAnswers, S!Compared, S!child,
     S!answers, S!flags
<1>8. S!SleepInterrupted'
  <2> SUFFICES ASSUME mpc = "waitpid", sem = "sysv" PROVE S!SleepInterrupted'
    BY <1>1 DEF S!SleepInterrupted
  <2>1. sig.pending = {} /\ (S!TopIn({"sleeping"}) \/ stack = <<>>)
    BY <1>5 DEF S!IInv, S!Masked, S!Alive
  <2>2. ~S!ToSleep
    <3>1. \A p : stack = <<S!Usr2(p, 0, 0)>> => stack # <<>> /\ S!Top.pc = p
      BY SemOneFrame DEF S!Usr2
    <3> QED
      BY <2>1, <3>1 DEF S!ToSleep, S!TopIn
  <2>3. cpc \notin {"sleep1", "kill2"} /\ (cpc = "sleeping1" => now < cwake)
    BY <1>1 DEF S!ChildIdle, S!ChildEnded
  <2>4. cpc = "sleeping1" => cwake = 2 /\ now' =< 2 /\ S!Asleep
    BY <1>1, <1>3, <2>2, <2>3 DEF S!IInv, S!SleepInterrupted
  <2>5. cpc = "exited" => S!Interrupted
    BY <1>1, <2>1 DEF S!IInv, S!SleepInterrupted
  <2> QED
    BY <1>1, <1>2, <2>1, <2>3, <2>4, <2>5, SemKeptFacts DEF S!SleepInterrupted, S!child
<1>9. cpc # "kill1"
  BY <1>1 DEF S!ChildIdle, S!ChildEnded
<1> QED
  BY <1>1, <1>2, <1>4, <1>7, <1>8, <1>9, SemNothingSent DEF S!child

---------------------------------------------------------------------------
\* A handler that starts, that goes on, and that returns.
LEMMA SemPush ==
  ASSUME NEW s \in Seq(S!Frames), NEW f \in S!Frames
  PROVE  LET t == <<f>> \o s
         IN  /\ t \in Seq(S!Frames) /\ Len(t) = Len(s) + 1 /\ t[1] = f /\ t # <<>>
             /\ \A k \in 1 .. Len(s) : t[k + 1] = s[k]
<1>1. <<f>> \in Seq(S!Frames) /\ Len(<<f>>) = 1 /\ <<f>>[1] = f
  OBVIOUS
<1>2. LET t == <<f>> \o s
      IN  /\ t \in Seq(S!Frames) /\ Len(t) = Len(s) + 1 /\ t[1] = f
          /\ \A k \in 1 .. Len(s) : t[k + 1] = s[k]
  BY <1>1, ConcatProperties
<1>3. Len(s) + 1 # 0
  OBVIOUS
<1> QED
  BY <1>2, <1>3

LEMMA SemPut ==
  ASSUME NEW s \in Seq(S!Frames), s # <<>>, NEW f \in S!Frames
  PROVE  LET t == [s EXCEPT ![1] = f]
         IN  /\ t \in Seq(S!Frames) /\ Len(t) = Len(s) /\ t[1] = f /\ t # <<>>
             /\ \A k \in 2 .. Len(s) : t[k] = s[k]
OBVIOUS

LEMMA SemPop ==
  ASSUME NEW s \in Seq(S!Frames), s # <<>>
  PROVE  /\ Tail(s) \in Seq(S!Frames) /\ Len(Tail(s)) = Len(s) - 1
         /\ \A k \in 1 .. Len(s) - 1 : Tail(s)[k] = s[k + 1]
OBVIOUS

\* What TypeOK says of the stack.
LEMMA SemStacked ==
  ASSUME S!TypeOK
  PROVE  /\ stack \in Seq(S!Frames) /\ Len(stack) \in Nat
         /\ stack # <<>> <=> Len(stack) > 0
         /\ stack # <<>> => S!Top \in S!Frames
         /\ \A k \in 1 .. Len(stack) : stack[k] \in S!Frames
<1>1. stack \in Seq(S!Frames)
  BY DEF S!TypeOK
<1>2. /\ Len(stack) \in Nat /\ (stack # <<>> <=> Len(stack) > 0)
      /\ \A k \in 1 .. Len(stack) : stack[k] \in S!Frames
  BY <1>1
<1> QED
  BY <1>1, <1>2 DEF S!Top

\* Where the program can be while a handler runs.
SemEmptying == {"query"} \cup S!Reading
SemEmptyFn  == IF mpc = "query" THEN "sig_usr1" ELSE S!HandlerOf(S!Awaited)
LEMMA SemHandling ==
  ASSUME S!IInv, S!Alive, stack # <<>>
  PROVE  /\ mpc = "waitpid" \/ mpc \in SemEmptying
         /\ mpc = "waitpid" => S!Top.fn = "sig_usr2"
         /\ mpc \in SemEmptying =>
              /\ sig.pending = {} /\ SemEmptyFn \in {"sig_usr1", "sig_alrm"}
              /\ cpc \notin {"sleep", "sleeping", "kill"}
              /\ \E p \in {"start", "return"} : stack = <<S!Frame(SemEmptyFn, p, 0, 0)>>
<1>1. mpc = "waitpid" \/ mpc \in SemEmptying
  BY DEF S!IInv, S!TypeOK, S!Alive, S!Quiet, SemEmptying, S!Reading
<1>2. mpc = "waitpid" => S!Top.fn = "sig_usr2"
  BY SemStacked DEF S!IInv, S!Second, S!Top
<1>3. CASE mpc = "query"
  BY <1>3 DEF S!IInv, S!First, S!Emptied, SemEmptyFn, SemEmptying, S!Reading,
     S!Children, S!Before
<1>4. CASE mpc \in S!Reading
  <2>1. SemEmptyFn = S!HandlerOf(S!Awaited) /\ mpc # "waitpid" /\ mpc # "query"
    BY <1>4 DEF SemEmptyFn, S!Reading
  <2>2. test =< Len(S!Reads) /\ S!Emptied(SemEmptyFn) /\ sig.pending = {}
        /\ cpc \notin {"sleep", "sleeping", "kill"}
    BY <1>4, <2>1 DEF S!IInv, S!Third
  <2>3. S!HandlerOf(S!Awaited) \in {"sig_usr1", "sig_alrm"}
    BY <2>2, SemReadIs DEF S!IInv, S!TypeOK
  <2> QED
    BY <1>4, <2>1, <2>2, <2>3 DEF S!Emptied, SemEmptying
<1> QED
  BY <1>1, <1>2, <1>3, <1>4 DEF SemEmptying, S!Reading

\* How a handler leaves the stack when it goes on: its frame, with another place, and
\* with the time or the rest of its sleep.
SemReplaced(t, p, w, r) ==
  /\ t \in Seq(S!Frames) /\ Len(t) = Len(stack) /\ t # <<>>
  /\ t[1].fn = S!Top.fn /\ t[1].pc = p /\ t[1].wake = w /\ t[1].rest = r
  /\ \A k \in 2 .. Len(stack) : t[k] = stack[k]
SemFrameGoes(p, w, r) == SemReplaced(stack', p, w, r)

LEMMA SemFrameIn ==
  ASSUME NEW f \in {"sig_usr1", "sig_usr2", "sig_alrm"}, NEW p \in S!HandlerPlaces,
         NEW w \in Nat, NEW r \in 0 .. 5
  PROVE  LET x == S!Frame(f, p, w, r)
         IN  x \in S!Frames /\ x.fn = f /\ x.pc = p /\ x.wake = w /\ x.rest = r /\ x.saved = {}
BY DEF S!Frame, S!Frames

LEMMA SemGoesOn ==
  ASSUME S!TypeOK, stack # <<>>, NEW p \in S!HandlerPlaces, stack' = [stack EXCEPT ![1].pc = p]
  PROVE  SemFrameGoes(p, S!Top.wake, S!Top.rest)
<1>1. stack \in Seq(S!Frames) /\ S!Top \in S!Frames /\ stack[1] = S!Top
  BY SemStacked DEF S!Top
<1> DEFINE x == [S!Top EXCEPT !.pc = p]
<1>2. x \in S!Frames /\ x.fn = S!Top.fn /\ x.pc = p /\ x.wake = S!Top.wake /\ x.rest = S!Top.rest
  BY <1>1 DEF S!Frames
<1>3. stack' = [stack EXCEPT ![1] = x]
  BY <1>1
<1> HIDE DEF x
<1> QED
  BY <1>1, <1>2, <1>3, SemPut DEF SemFrameGoes, SemReplaced

LEMMA SemGoesToSleep ==
  ASSUME S!TypeOK, stack # <<>>, NEW w \in Nat,
         stack' = [stack EXCEPT ![1].pc = "sleeping", ![1].wake = w]
  PROVE  SemFrameGoes("sleeping", w, S!Top.rest)
<1>1. stack \in Seq(S!Frames) /\ S!Top \in S!Frames /\ stack[1] = S!Top
  BY SemStacked DEF S!Top
<1> DEFINE y == [S!Top EXCEPT !.pc = "sleeping"]
           x == [y EXCEPT !.wake = w]
<1>2. y \in S!Frames /\ y.fn = S!Top.fn /\ y.pc = "sleeping" /\ y.wake = S!Top.wake /\ y.rest = S!Top.rest
  BY <1>1 DEF S!Frames, S!HandlerPlaces
<1>3. stack' = [stack EXCEPT ![1] = x]
  BY <1>1
<1> HIDE DEF y
<1>4. x \in S!Frames /\ x.fn = S!Top.fn /\ x.pc = "sleeping" /\ x.wake = w /\ x.rest = S!Top.rest
  BY <1>2 DEF S!Frames
<1> HIDE DEF x
<1> DEFINE s == [stack EXCEPT ![1] = x]
<1>5. SemReplaced(s, "sleeping", w, S!Top.rest)
  BY <1>1, <1>4, SemPut DEF SemReplaced
<1>6. stack' = s
  BY <1>3
<1> HIDE DEF s
<1> QED
  BY <1>5, <1>6 DEF SemFrameGoes

LEMMA SemGoesAwake ==
  ASSUME S!TypeOK, stack # <<>>, NEW n \in 0 .. 5
  PROVE  SemReplaced(S!Awake(n), "assign", S!Top.wake, n)
<1>1. stack \in Seq(S!Frames) /\ S!Top \in S!Frames /\ stack[1] = S!Top
  BY SemStacked DEF S!Top
<1> DEFINE y == [S!Top EXCEPT !.pc = "assign"]
           x == [y EXCEPT !.rest = n]
<1>2. y \in S!Frames /\ y.fn = S!Top.fn /\ y.pc = "assign" /\ y.wake = S!Top.wake /\ y.rest = S!Top.rest
  BY <1>1 DEF S!Frames, S!HandlerPlaces
<1>3. S!Awake(n) = [stack EXCEPT ![1] = x]
  BY <1>1 DEF S!Awake
<1> HIDE DEF y
<1>4. x \in S!Frames /\ x.fn = S!Top.fn /\ x.pc = "assign" /\ x.wake = S!Top.wake /\ x.rest = n
  BY <1>2 DEF S!Frames
<1> HIDE DEF x
<1> QED
  BY <1>1, <1>3, <1>4, SemPut DEF SemReplaced

\* A stack of one or two handlers is made of its frames.
LEMMA SemIsFrame == ASSUME NEW x \in S!Frames PROVE x = S!Frame(x.fn, x.pc, x.wake, x.rest)
<1>1. x = [fn |-> x.fn, pc |-> x.pc, saved |-> x.saved, wake |-> x.wake, rest |-> x.rest]
      /\ x.saved = {}
  BY DEF S!Frames
<1> QED
  BY <1>1 DEF S!Frame

LEMMA SemElements ==
  ASSUME NEW E, NEW t \in Seq(E)
  PROVE  /\ Len(t) = 1 => t = <<t[1]>> /\ t[1] \in E
         /\ Len(t) = 2 => t = <<t[1], t[2]>> /\ t[1] \in E
OBVIOUS

LEMMA SemIsSingle ==
  ASSUME NEW t \in Seq(S!Frames), Len(t) = 1
  PROVE  t = <<S!Frame(t[1].fn, t[1].pc, t[1].wake, t[1].rest)>>
<1>1. t = <<t[1]>> /\ t[1] \in S!Frames
  BY SemElements
<1>2. t[1] = S!Frame(t[1].fn, t[1].pc, t[1].wake, t[1].rest)
  BY <1>1, SemIsFrame
<1> QED
  BY <1>1, <1>2, Zenon

LEMMA SemIsDouble ==
  ASSUME NEW t \in Seq(S!Frames), Len(t) = 2
  PROVE  t = <<S!Frame(t[1].fn, t[1].pc, t[1].wake, t[1].rest), t[2]>>
<1>1. t = <<t[1], t[2]>> /\ t[1] \in S!Frames
  BY SemElements
<1>2. t[1] = S!Frame(t[1].fn, t[1].pc, t[1].wake, t[1].rest)
  BY <1>1, SemIsFrame
<1> QED
  BY <1>1, <1>2, Zenon

LEMMA SemSingleGoes ==
  ASSUME S!TypeOK, NEW f, NEW p, NEW w, NEW r, stack = <<S!Frame(f, p, w, r)>>,
         NEW q, NEW v, NEW s, SemFrameGoes(q, v, s)
  PROVE  stack' = <<S!Frame(f, q, v, s)>>
<1>1. Len(stack) = 1 /\ S!Top.fn = f
  BY SemOneFrame
<1>2. stack' \in Seq(S!Frames) /\ Len(stack') = 1
  BY <1>1 DEF SemFrameGoes, SemReplaced
<1>3. stack'[1].fn = f /\ stack'[1].pc = q /\ stack'[1].wake = v /\ stack'[1].rest = s
  BY <1>1 DEF SemFrameGoes, SemReplaced
<1>4. stack' = <<S!Frame(stack'[1].fn, stack'[1].pc, stack'[1].wake, stack'[1].rest)>>
  BY <1>2, SemIsSingle
<1> QED
  BY <1>3, <1>4, Zenon

LEMMA SemDoubleIs ==
  ASSUME NEW f, NEW p, NEW w, NEW r, NEW h, stack = <<S!Frame(f, p, w, r), h>>
  PROVE  /\ stack # <<>> /\ Len(stack) = 2 /\ stack[2] = h /\ Tail(stack) = <<h>>
         /\ S!Top = S!Frame(f, p, w, r) /\ S!Top.fn = f /\ S!Top.pc = p
<1>1. stack # <<>> /\ S!Top = S!Frame(f, p, w, r) /\ Tail(stack) = <<h>>
  BY Two DEF S!Top
<1>2. Len(stack) = 2 /\ stack[2] = h
  OBVIOUS
<1> QED
  BY <1>1, <1>2 DEF S!Frame

LEMMA SemDoubleGoes ==
  ASSUME S!TypeOK, NEW f, NEW p, NEW w, NEW r, NEW h, stack = <<S!Frame(f, p, w, r), h>>,
         NEW q, NEW v, NEW s, SemFrameGoes(q, v, s)
  PROVE  stack' = <<S!Frame(f, q, v, s), h>>
<1>1. Len(stack) = 2 /\ S!Top.fn = f /\ stack[2] = h
  BY SemDoubleIs
<1>2. stack' \in Seq(S!Frames) /\ Len(stack') = 2
  BY <1>1 DEF SemFrameGoes, SemReplaced
<1>3. stack'[1].fn = f /\ stack'[1].pc = q /\ stack'[1].wake = v /\ stack'[1].rest = s
      /\ stack'[2] = h
  BY <1>1 DEF SemFrameGoes, SemReplaced
<1>4. stack' = <<S!Frame(stack'[1].fn, stack'[1].pc, stack'[1].wake, stack'[1].rest), stack'[2]>>
  BY <1>2, SemIsDouble
<1> QED
  BY <1>3, <1>4, Zenon

\* The handler of an empty function, and its return.
LEMMA SemEmptyGoes ==
  ASSUME S!IInv, S!Alive, stack # <<>>, mpc \in SemEmptying, S!TypeOK', S!Masked', S!Emptied(SemEmptyFn)',
         UNCHANGED <<S!clock, S!flags, mpc, test, S!answers, S!child>>,
         sig'.pending = sig.pending, sig'.act = sig.act
  PROVE  S!IInv'
<1>1. sig.pending = {} /\ cpc \notin {"sleep", "sleeping", "kill"}
  BY SemHandling
<1>2. S!Reads' = S!Reads /\ SemEmptyFn' = SemEmptyFn /\ S!HandlerOf(S!Awaited)' = S!HandlerOf(S!Awaited)
      /\ \A x : S!FlagsOf(x)' = S!FlagsOf(x)
  BY DEF S!Reads, SemEmptyFn, S!Awaited, S!HandlerOf, S!FlagsOf, S!clock
<1>3. S!Children' /\ S!Quiet' /\ S!FirstAnswers' /\ S!KilledInWindow' /\ S!Compared'
  BY DEF S!IInv, S!Children, S!Quiet, S!FirstAnswers, S!KilledInWindow, S!Compared,
     SemEmptying, S!Reading, S!clock, S!flags, S!answers, S!child
<1>4. S!Second' /\ S!SleepsToEnd' /\ S!SleepInterrupted'
  BY DEF S!Second, S!SleepsToEnd, S!SleepInterrupted, SemEmptying, S!Reading
<1>5. S!First'
  <2>1. mpc = "query" => S!Emptied("sig_usr1")'
    BY DEF SemEmptyFn, S!Emptied
  <2>2. S!Installed("SIGUSR1", {})' = S!Installed("SIGUSR1", {})
    BY <1>2 DEF S!Installed, S!HandlerOf
  <2> QED
    BY <1>1, <2>1, <2>2 DEF S!IInv, S!First, SemEmptying, S!Reading, S!clock
<1>6. S!Third'
  <2>1. mpc \in S!Reading => S!Emptied(S!HandlerOf(S!Awaited))'
    BY DEF SemEmptyFn, S!Emptied, S!Reading
  <2>2. mpc \in S!Reading => test =< Len(S!Reads)
    BY DEF S!IInv, S!Third
  <2>3. mpc = "eintr" => "restart" \notin S!FlagsOf(S!Passed)'
    BY <1>2 DEF S!IInv, S!Third, S!Passed, S!Reads, S!clock
  <2> QED
    BY <1>1, <1>2, <2>1, <2>2, <2>3 DEF S!Third, SemEmptying, S!Reading, S!child
<1>7. S!NotRestartedIsRight'
  BY <1>2 DEF S!IInv, S!NotRestartedIsRight, S!answers
<1> QED
  BY <1>3, <1>4, <1>5, <1>6, <1>7 DEF S!IInv

LEMMA SemEmptyHandlerIInv == ASSUME S!IInv, S!EmptyHandler PROVE S!IInv'
<1>1. /\ S!Alive /\ stack # <<>> /\ S!Top.fn \in {"sig_usr1", "sig_alrm"} /\ S!Top.pc = "start"
      /\ stack' = [stack EXCEPT ![1].pc = "return"]
      /\ UNCHANGED <<S!clock, sig, S!flags, mpc, test, S!answers, S!child>>
  BY DEF S!EmptyHandler, S!InHandler
<1>2. mpc \in SemEmptying
  BY <1>1, SemHandling
<1>3. PICK p \in {"start", "return"} : stack = <<S!Frame(SemEmptyFn, p, 0, 0)>>
  BY <1>1, <1>2, SemHandling
<1>4. SemFrameGoes("return", S!Top.wake, S!Top.rest) /\ S!Top.wake = 0 /\ S!Top.rest = 0
  BY <1>1, <1>3, SemGoesOn, SemOneFrame DEF S!IInv, S!HandlerPlaces
<1>5. stack' = <<S!Frame(SemEmptyFn, "return", 0, 0)>>
  BY <1>3, <1>4, SemSingleGoes DEF S!IInv
<1>6. SemEmptyFn' = SemEmptyFn /\ S!Reads' = S!Reads
  BY <1>1 DEF SemEmptyFn, S!Awaited, S!Reads, S!clock, S!HandlerOf
<1>7. S!Emptied(SemEmptyFn)'
  BY <1>5, <1>6 DEF S!Emptied
<1>8. S!TypeOK'
  BY <1>1, <1>4, <1>6 DEF S!IInv, S!TypeOK, SemFrameGoes, SemReplaced, S!clock,
     S!flags, S!answers, S!child
<1>9. S!Masked'
  BY <1>1, <1>4 DEF S!IInv, S!Masked, SemFrameGoes, SemReplaced, S!Top, S!clock, S!Alive
<1> QED
  BY <1>1, <1>2, <1>7, <1>8, <1>9, SemEmptyGoes

\* A step of sig_usr2 that leaves this of the second question keeps the rest.
LEMMA SemUsr2Step ==
  ASSUME S!IInv, mpc = "waitpid", UNCHANGED <<S!clock, mpc, test, S!answers, S!child>>,
         S!TypeOK', S!Masked', cpc # "kill1", sig'.pending \subseteq {"SIGUSR2"},
         \A k \in 1 .. Len(stack') : stack'[k].fn = "sig_usr2",
         S!Usr2Caught' \/ (S!Handler(sig, "SIGUSR2")' = "SIG_DFL" /\ S!InWindow'),
         sem # "sysv" => S!Usr2Caught' /\ Len(stack') =< 1,
         prompt /\ sig'.pending # {} => S!Usr2Caught',
         S!SleepsToEnd', S!SleepInterrupted'
  PROVE  S!IInv'
<1>1. S!Children' /\ S!Quiet' /\ S!First' /\ S!Compared' /\ S!Third' /\ S!KilledInWindow'
  BY DEF S!IInv, S!Children, S!Quiet, S!First, S!Compared, S!Third, S!KilledInWindow,
     S!Before, S!Reading, S!child
<1>2. S!FirstAnswers'
  BY DEF S!IInv, S!FirstAnswers, S!clock, S!answers, S!child
<1>3. S!NotRestartedIsRight'
  <2>1. S!Reads' = S!Reads /\ \A x : S!FlagsOf(x)' = S!FlagsOf(x)
    BY DEF S!Reads, S!FlagsOf, S!clock
  <2> QED
    BY <2>1 DEF S!IInv, S!NotRestartedIsRight, S!answers
<1>4. S!Second'
  BY DEF S!Second, S!clock, S!child
<1> QED
  BY <1>1, <1>2, <1>3, <1>4 DEF S!IInv

\* How the interrupted sleep goes on.
LEMMA SemInterrupting ==
  ASSUME S!IInv, mpc = "waitpid", UNCHANGED <<S!clock, mpc, S!child>>,
         sem = "sysv" /\ prompt =>
           /\ S!ToSleep /\ now = 0 => S!ToSleep' \/ (S!Asleep' /\ sig'.pending = {})
           /\ ~(S!Asleep /\ sig.pending = {} /\ now =< 2)
           /\ S!Asleep /\ sig.pending # {} /\ now = 2 => S!Interrupted'
           /\ S!Interrupted => S!Interrupted'
  PROVE  S!SleepInterrupted'
<1> SUFFICES ASSUME sem = "sysv", prompt, cpc \in S!Sent PROVE S!SleepInterrupted'
  BY DEF S!SleepInterrupted, S!Sent, S!clock, S!child
<1>1. cpc = "sleep1" => now = 0 /\ S!ToSleep
  BY DEF S!IInv, S!SleepInterrupted
<1>2. cpc = "sleeping1" => cwake = 2 /\ now = 0 /\ S!ToSleep
  BY DEF S!IInv, S!SleepInterrupted
<1>3. cpc # "kill2"
  BY DEF S!IInv, S!SleepInterrupted
<1>4. cpc = "exited" => S!Interrupted'
  BY DEF S!IInv, S!SleepInterrupted
<1> QED
  BY <1>1, <1>2, <1>3, <1>4 DEF S!SleepInterrupted, S!clock, S!child

\* The stages of the interrupted sleep, by the place of the innermost handler.
LEMMA SemStages ==
  ASSUME stack # <<>>
  PROVE  /\ S!ToSleep => /\ left = 5 /\ sig.pending = {} /\ stack = <<S!Usr2(S!Top.pc, 0, 0)>>
                         /\ \/ S!Top.pc = "start" /\ needSleep = 1
                            \/ S!Top.pc \in {"check", "clear"} /\ needSleep = 1 /\ S!Usr2Caught
                            \/ S!Top.pc = "sleep" /\ needSleep = 0 /\ S!Usr2Caught
         /\ S!Asleep => S!Top.pc = "sleeping" /\ S!Top.wake = 5
         /\ S!Interrupted =>
                 /\ needSleep = 0 /\ sig.pending = {}
                 /\ \E n \in {2, 3} :
                     \/ /\ S!Top.pc \in {"start", "check", "return"}
                        /\ stack = <<S!Usr2(S!Top.pc, 0, 0), S!Usr2("assign", 5, n)>>
                     \/ S!Top.pc = "assign" /\ S!Top.rest = n /\ stack = <<S!Usr2("assign", 5, n)>>
                     \/ S!Top.pc = "return" /\ left = n /\ stack = <<S!Usr2("return", 5, n)>>
<1>1. \A p, w, r : stack = <<S!Usr2(p, w, r)>> => S!Top.pc = p /\ S!Top.wake = w /\ S!Top.rest = r
  BY SemOneFrame DEF S!Usr2
<1>2. \A p, h : stack = <<S!Usr2(p, 0, 0), h>> => S!Top.pc = p
  BY SemDoubleIs DEF S!Usr2
<1>3. S!ToSleep => /\ left = 5 /\ sig.pending = {} /\ stack = <<S!Usr2(S!Top.pc, 0, 0)>>
                   /\ \/ S!Top.pc = "start" /\ needSleep = 1
                      \/ S!Top.pc \in {"check", "clear"} /\ needSleep = 1 /\ S!Usr2Caught
                      \/ S!Top.pc = "sleep" /\ needSleep = 0 /\ S!Usr2Caught
  BY <1>1 DEF S!ToSleep
<1>4. S!Asleep => S!Top.pc = "sleeping" /\ S!Top.wake = 5
  BY <1>1 DEF S!Asleep
<1>5. ASSUME S!Interrupted
      PROVE  \E n \in {2, 3} :
               \/ /\ S!Top.pc \in {"start", "check", "return"}
                  /\ stack = <<S!Usr2(S!Top.pc, 0, 0), S!Usr2("assign", 5, n)>>
               \/ S!Top.pc = "assign" /\ S!Top.rest = n /\ stack = <<S!Usr2("assign", 5, n)>>
               \/ S!Top.pc = "return" /\ left = n /\ stack = <<S!Usr2("return", 5, n)>>
  BY <1>1, <1>2, <1>5 DEF S!Interrupted
<1>6. S!Interrupted => needSleep = 0 /\ sig.pending = {}
  BY DEF S!Interrupted
<1> QED
  BY <1>3, <1>4, <1>5, <1>6

\* sig_usr2 runs while main waits for the child of the second question.
LEMMA SemUsr2Runs ==
  ASSUME S!IInv, NEW pc, S!InHandler("sig_usr2", pc)
  PROVE  /\ mpc = "waitpid" /\ S!Alive /\ stack # <<>> /\ S!Top.pc = pc /\ cpc # "kill1"
         /\ sig \in SemSigs /\ sig.pending \subseteq {"SIGUSR2"} /\ sem \in S!Semantics
         /\ sem = "sysv" => sig.pending = {}
<1>1. S!Alive /\ stack # <<>> /\ S!Top.fn = "sig_usr2" /\ S!Top.pc = pc
      /\ sig.pending \ sig.mask = {}
  BY DEF S!InHandler, S!Deliverable
<1>2. mpc \notin SemEmptying
  <2> SUFFICES ASSUME mpc \in SemEmptying PROVE FALSE
    OBVIOUS
  <2>1. PICK p \in {"start", "return"} : stack = <<S!Frame(SemEmptyFn, p, 0, 0)>>
    BY <1>1, SemHandling
  <2>2. S!Top.fn = SemEmptyFn /\ SemEmptyFn \in {"sig_usr1", "sig_alrm"}
    BY <1>1, <2>1, SemOneFrame, SemHandling
  <2> QED
    BY <1>1, <2>2
<1>3. mpc = "waitpid"
  BY <1>1, <1>2, SemHandling
<1>4. sem = "sysv" => sig.pending = {}
  BY <1>1 DEF S!IInv, S!Masked
<1> QED
  BY <1>1, <1>3, <1>4 DEF S!IInv, S!TypeOK, SemSigs, S!Second

LEMMA SemUsr2Goes ==
  ASSUME S!IInv, NEW pc, S!InHandler("sig_usr2", pc),
         UNCHANGED <<S!clock, mpc, test, S!answers, S!child>>,
         NEW p \in S!HandlerPlaces, NEW w, NEW r, SemFrameGoes(p, w, r),
         sig' \in SemSigs, sig'.pending = sig.pending, sig'.mask = sig.mask,
         (sig'.act = sig.act /\ pc # "start") \/ S!Usr2Caught',
         needSleep' \in {0, 1}, left' \in 0 .. 5,
         S!SleepsToEnd', S!SleepInterrupted'
  PROVE  S!IInv'
<1>1. /\ mpc = "waitpid" /\ S!Alive /\ stack # <<>> /\ S!Top.pc = pc /\ cpc # "kill1"
      /\ sig \in SemSigs /\ sig.pending \subseteq {"SIGUSR2"} /\ sem \in S!Semantics
  BY SemUsr2Runs
<1>2. /\ stack' \in Seq(S!Frames) /\ Len(stack') = Len(stack) /\ stack' # <<>>
      /\ stack'[1].fn = S!Top.fn /\ \A k \in 2 .. Len(stack) : stack'[k] = stack[k]
  BY DEF SemFrameGoes, SemReplaced
<1>3. S!TypeOK'
  BY <1>2 DEF S!IInv, S!TypeOK, SemSigs, S!clock, S!answers, S!child, S!Reads
<1>4. S!Masked'
  BY <1>1, <1>2 DEF S!IInv, S!Masked, S!Top, S!clock, S!Alive
<1>5. \A k \in 1 .. Len(stack') : stack'[k].fn = "sig_usr2"
  BY <1>1, <1>2, SemStacked DEF S!IInv, S!Second, S!Top
<1>6. S!Usr2Caught'
  <2>1. pc # "start" => ~S!InWindow
    BY <1>1 DEF S!InWindow
  <2>2. pc # "start" => S!Usr2Caught
    BY <1>1, <2>1 DEF S!IInv, S!Second
  <2>3. sig'.act = sig.act => S!Usr2Caught' = S!Usr2Caught
    BY DEF S!Usr2Caught, S!Installed, S!clock, S!HandlerOf, S!FlagsOf
  <2> QED
    BY <2>2, <2>3
<1>7. sem # "sysv" => Len(stack') =< 1
  BY <1>1, <1>2 DEF S!IInv, S!Second
<1> QED
  BY <1>1, <1>3, <1>4, <1>5, <1>6, <1>7, SemUsr2Step

LEMMA SemUsr2StartIInv == ASSUME S!IInv, S!Usr2Start PROVE S!IInv'
<1>1. /\ S!InHandler("sig_usr2", "start") /\ sig' = S!Signal(sig, "SIGUSR2", {})
      /\ stack' = [stack EXCEPT ![1].pc = "check"]
      /\ UNCHANGED <<S!clock, S!flags, mpc, test, S!answers, S!child>>
  BY DEF S!Usr2Start
<1>2. /\ mpc = "waitpid" /\ stack # <<>> /\ S!Top.pc = "start" /\ sig \in SemSigs /\ sem \in S!Semantics
  BY <1>1, SemUsr2Runs
<1>3. /\ sig' \in SemSigs /\ sig'.mask = sig.mask /\ sig'.pending = sig.pending
      /\ sig'.act["SIGUSR2"] = S!Catch(S!HandlerOf("SIGUSR2"), S!FlagsOf({}))
  BY <1>1, <1>2, SemSignalIs DEF S!Signals
<1>4. S!Usr2Caught'
  BY <1>1, <1>3 DEF S!Usr2Caught, S!Installed, S!clock, S!HandlerOf, S!FlagsOf
<1>5. SemFrameGoes("check", S!Top.wake, S!Top.rest)
  BY <1>1, <1>2, SemGoesOn DEF S!IInv, S!HandlerPlaces
<1>6. stack' # <<>> /\ S!Top'.pc = "check"
  BY <1>5 DEF SemFrameGoes, SemReplaced, S!Top
<1>7. S!SleepsToEnd'
  BY <1>1, <1>2, <1>3, <1>6 DEF S!IInv, S!SleepsToEnd, S!TopIn, S!flags, S!clock,
     S!child
<1>8. S!SleepInterrupted'
  <2>1. ASSUME S!ToSleep PROVE S!ToSleep'
    <3>1. stack = <<S!Usr2("start", 0, 0)>> /\ needSleep = 1 /\ left = 5 /\ sig.pending = {}
      BY <1>2, <2>1, SemStages
    <3>2. S!Top.wake = 0 /\ S!Top.rest = 0
      BY <3>1, SemOneFrame DEF S!Usr2
    <3>3. stack' = <<S!Usr2("check", 0, 0)>>
      BY <1>5, <3>1, <3>2, SemSingleGoes DEF S!IInv, S!Usr2
    <3> QED
      BY <1>1, <1>3, <1>4, <3>1, <3>3 DEF S!ToSleep, S!flags
  <2>2. ~S!Asleep
    BY <1>2, SemStages
  <2>3. ASSUME S!Interrupted PROVE S!Interrupted'
    <3>1. PICK n \in {2, 3} : stack = <<S!Usr2("start", 0, 0), S!Usr2("assign", 5, n)>>
      BY <1>2, <2>3, SemStages
    <3>2. S!Top.wake = 0 /\ S!Top.rest = 0
      BY <3>1, SemDoubleIs DEF S!Usr2, S!Frame
    <3>3. stack' = <<S!Usr2("check", 0, 0), S!Usr2("assign", 5, n)>>
      BY <1>5, <3>1, <3>2, SemDoubleGoes DEF S!IInv, S!Usr2
    <3>4. needSleep = 0 /\ sig.pending = {}
      BY <1>2, <2>3, SemStages
    <3> QED
      BY <1>1, <1>3, <3>3, <3>4 DEF S!Interrupted, S!flags
  <2> QED
    BY <1>1, <1>2, <2>1, <2>2, <2>3, SemInterrupting
<1>9. needSleep' \in {0, 1} /\ left' \in 0 .. 5
  BY <1>1 DEF S!IInv, S!TypeOK, S!flags
<1> QED
  BY <1>1, <1>3, <1>4, <1>5, <1>7, <1>8, <1>9, SemUsr2Goes DEF S!HandlerPlaces

LEMMA SemUsr2CheckIInv == ASSUME S!IInv, S!Usr2Check PROVE S!IInv'
<1> DEFINE p == IF needSleep = 1 THEN "clear" ELSE "return"
<1>1. /\ S!InHandler("sig_usr2", "check")
      /\ stack' = [stack EXCEPT ![1].pc = p]
      /\ UNCHANGED <<S!clock, sig, S!flags, mpc, test, S!answers, S!child>>
  BY DEF S!Usr2Check
<1>2. /\ mpc = "waitpid" /\ stack # <<>> /\ S!Top.pc = "check" /\ sig \in SemSigs /\ sem \in S!Semantics
  BY <1>1, SemUsr2Runs
<1>3. p \in S!HandlerPlaces /\ (needSleep = 1 => p = "clear") /\ (needSleep = 0 => p = "return")
  BY DEF S!HandlerPlaces
<1> HIDE DEF p
<1>4. SemFrameGoes(p, S!Top.wake, S!Top.rest)
  BY <1>1, <1>2, <1>3, SemGoesOn DEF S!IInv
<1>5. stack' # <<>> /\ S!Top'.pc = p
  BY <1>4 DEF SemFrameGoes, SemReplaced, S!Top
<1>6. needSleep \in {0, 1}
  BY DEF S!IInv, S!TypeOK
<1>7. S!SleepsToEnd'
  BY <1>1, <1>2, <1>3, <1>5, <1>6 DEF S!IInv, S!SleepsToEnd, S!TopIn, S!clock, S!child, S!flags
<1>8. S!SleepInterrupted'
  <2>1. ASSUME S!ToSleep PROVE S!ToSleep'
    <3>1. /\ stack = <<S!Usr2("check", 0, 0)>> /\ needSleep = 1 /\ left = 5 /\ sig.pending = {}
          /\ S!Usr2Caught
      BY <1>2, <2>1, SemStages
    <3>2. S!Top.wake = 0 /\ S!Top.rest = 0
      BY <3>1, SemOneFrame DEF S!Usr2
    <3>3. stack' = <<S!Usr2("clear", 0, 0)>>
      BY <1>3, <1>4, <3>1, <3>2, SemSingleGoes DEF S!IInv, S!Usr2
    <3>4. S!Usr2Caught'
      BY <1>1, <3>1 DEF S!Usr2Caught, S!Installed, S!clock, S!HandlerOf, S!FlagsOf
    <3> QED
      BY <1>1, <3>1, <3>3, <3>4 DEF S!ToSleep, S!flags
  <2>2. ~S!Asleep
    BY <1>2, SemStages
  <2>3. ASSUME S!Interrupted PROVE S!Interrupted'
    <3>1. PICK n \in {2, 3} : stack = <<S!Usr2("check", 0, 0), S!Usr2("assign", 5, n)>>
      BY <1>2, <2>3, SemStages
    <3>2. S!Top.wake = 0 /\ S!Top.rest = 0
      BY <3>1, SemDoubleIs DEF S!Usr2, S!Frame
    <3>3. needSleep = 0 /\ sig.pending = {}
      BY <1>2, <2>3, SemStages
    <3>4. stack' = <<S!Usr2("return", 0, 0), S!Usr2("assign", 5, n)>>
      BY <1>3, <1>4, <3>1, <3>2, <3>3, SemDoubleGoes DEF S!IInv, S!Usr2
    <3> QED
      BY <1>1, <3>3, <3>4 DEF S!Interrupted, S!flags
  <2> QED
    BY <1>1, <1>2, <2>1, <2>2, <2>3, SemInterrupting
<1>9. needSleep' \in {0, 1} /\ left' \in 0 .. 5
  BY <1>1 DEF S!IInv, S!TypeOK, S!flags
<1> QED
  BY <1>1, <1>2, <1>3, <1>4, <1>7, <1>8, <1>9, SemUsr2Goes

LEMMA SemUsr2ClearIInv == ASSUME S!IInv, S!Usr2Clear PROVE S!IInv'
<1>1. /\ S!InHandler("sig_usr2", "clear") /\ needSleep' = 0
      /\ stack' = [stack EXCEPT ![1].pc = "sleep"]
      /\ UNCHANGED <<S!clock, sig, left, mpc, test, S!answers, S!child>>
  BY DEF S!Usr2Clear
<1>2. /\ mpc = "waitpid" /\ stack # <<>> /\ S!Top.pc = "clear" /\ sig \in SemSigs /\ sem \in S!Semantics
  BY <1>1, SemUsr2Runs
<1>3. SemFrameGoes("sleep", S!Top.wake, S!Top.rest)
  BY <1>1, <1>2, SemGoesOn DEF S!IInv, S!HandlerPlaces
<1>4. stack' # <<>> /\ S!Top'.pc = "sleep"
  BY <1>3 DEF SemFrameGoes, SemReplaced, S!Top
<1>5. S!SleepsToEnd'
  BY <1>1, <1>2, <1>4 DEF S!IInv, S!SleepsToEnd, S!TopIn, S!clock, S!child
<1>6. S!SleepInterrupted'
  <2>1. ASSUME S!ToSleep PROVE S!ToSleep'
    <3>1. /\ stack = <<S!Usr2("clear", 0, 0)>> /\ left = 5 /\ sig.pending = {}
          /\ S!Usr2Caught
      BY <1>2, <2>1, SemStages
    <3>2. S!Top.wake = 0 /\ S!Top.rest = 0
      BY <3>1, SemOneFrame DEF S!Usr2
    <3>3. stack' = <<S!Usr2("sleep", 0, 0)>>
      BY <1>3, <3>1, <3>2, SemSingleGoes DEF S!IInv, S!Usr2
    <3>4. S!Usr2Caught'
      BY <1>1, <3>1 DEF S!Usr2Caught, S!Installed, S!clock, S!HandlerOf, S!FlagsOf
    <3> QED
      BY <1>1, <3>1, <3>3, <3>4 DEF S!ToSleep
  <2>2. ~S!Asleep /\ ~S!Interrupted
    BY <1>2, SemStages
  <2> QED
    BY <1>1, <1>2, <2>1, <2>2, SemInterrupting
<1>7. left' \in 0 .. 5
  BY <1>1 DEF S!IInv, S!TypeOK
<1> QED
  BY <1>1, <1>2, <1>3, <1>5, <1>6, <1>7, SemUsr2Goes DEF S!HandlerPlaces

LEMMA SemUsr2SleepIInv == ASSUME S!IInv, S!Usr2Sleep PROVE S!IInv'
<1>1. /\ S!InHandler("sig_usr2", "sleep")
      /\ stack' = [stack EXCEPT ![1].pc = "sleeping", ![1].wake = now + left]
      /\ UNCHANGED <<S!clock, sig, S!flags, mpc, test, S!answers, S!child>>
  BY DEF S!Usr2Sleep
<1>2. /\ mpc = "waitpid" /\ stack # <<>> /\ S!Top.pc = "sleep" /\ sig \in SemSigs /\ sem \in S!Semantics
  BY <1>1, SemUsr2Runs
<1>3. now + left \in Nat
  BY DEF S!IInv, S!TypeOK
<1>4. SemFrameGoes("sleeping", now + left, S!Top.rest)
  BY <1>1, <1>2, <1>3, SemGoesToSleep DEF S!IInv
<1>5. stack' # <<>> /\ S!Top'.pc = "sleeping"
  BY <1>4 DEF SemFrameGoes, SemReplaced, S!Top
<1>6. S!SleepsToEnd'
  BY <1>1, <1>2, <1>5 DEF S!IInv, S!SleepsToEnd, S!TopIn, S!clock, S!flags, S!child
<1>7. S!SleepInterrupted'
  <2>1. ASSUME S!ToSleep, now = 0 PROVE S!Asleep' /\ sig'.pending = {}
    <3>1. /\ stack = <<S!Usr2("sleep", 0, 0)>> /\ needSleep = 0 /\ left = 5 /\ sig.pending = {}
          /\ S!Usr2Caught
      BY <1>2, <2>1, SemStages
    <3>2. S!Top.rest = 0 /\ now + left = 5
      BY <2>1, <3>1, SemOneFrame DEF S!Usr2
    <3>3. stack' = <<S!Usr2("sleeping", 5, 0)>>
      BY <1>4, <3>1, <3>2, SemSingleGoes DEF S!IInv, S!Usr2
    <3>4. S!Usr2Caught'
      BY <1>1, <3>1 DEF S!Usr2Caught, S!Installed, S!clock, S!HandlerOf, S!FlagsOf
    <3> QED
      BY <1>1, <3>1, <3>3, <3>4 DEF S!Asleep, S!flags
  <2>2. ~S!Asleep /\ ~S!Interrupted
    BY <1>2, SemStages
  <2> QED
    BY <1>1, <1>2, <2>1, <2>2, SemInterrupting
<1>8. needSleep' \in {0, 1} /\ left' \in 0 .. 5
  BY <1>1 DEF S!IInv, S!TypeOK, S!flags
<1> QED
  BY <1>1, <1>2, <1>4, <1>6, <1>7, <1>8, SemUsr2Goes DEF S!HandlerPlaces

LEMMA SemUsr2WakeIInv == ASSUME S!IInv, S!Usr2Wake PROVE S!IInv'
<1>1. /\ S!InHandler("sig_usr2", "sleeping") /\ (prompt => now >= S!Top.wake)
      /\ stack' = S!Awake(0)
      /\ UNCHANGED <<S!clock, sig, S!flags, mpc, test, S!answers, S!child>>
  BY DEF S!Usr2Wake
<1>2. /\ mpc = "waitpid" /\ stack # <<>> /\ S!Top.pc = "sleeping" /\ sig \in SemSigs
      /\ sem \in S!Semantics /\ (sem = "sysv" => sig.pending = {})
  BY <1>1, SemUsr2Runs
<1>3. SemFrameGoes("assign", S!Top.wake, 0)
  BY <1>1, <1>2, SemGoesAwake DEF S!IInv, SemFrameGoes
<1>4. stack' # <<>> /\ S!Top'.pc = "assign" /\ S!Top'.rest = 0
  BY <1>3 DEF SemFrameGoes, SemReplaced, S!Top
<1>5. S!SleepsToEnd'
  BY <1>1, <1>2, <1>4 DEF S!IInv, S!SleepsToEnd, S!TopIn, S!clock, S!flags, S!child
<1>6. S!SleepInterrupted'
  <2>1. ~S!ToSleep /\ ~S!Interrupted /\ (S!Asleep => S!Top.wake = 5)
    BY <1>2, SemStages
  <2>2. now \in Nat
    BY DEF S!IInv, S!TypeOK
  <2>3. prompt => ~(S!Asleep /\ sig.pending = {} /\ now =< 2)
    BY <1>1, <2>1, <2>2
  <2> QED
    BY <1>1, <1>2, <2>1, <2>3, SemInterrupting
<1>7. needSleep' \in {0, 1} /\ left' \in 0 .. 5
  BY <1>1 DEF S!IInv, S!TypeOK, S!flags
<1> QED
  BY <1>1, <1>2, <1>3, <1>5, <1>6, <1>7, SemUsr2Goes DEF S!HandlerPlaces

LEMMA SemUsr2AssignIInv == ASSUME S!IInv, S!Usr2Assign PROVE S!IInv'
<1>1. /\ S!InHandler("sig_usr2", "assign") /\ left' = S!Top.rest
      /\ stack' = [stack EXCEPT ![1].pc = "return"]
      /\ UNCHANGED <<S!clock, sig, needSleep, mpc, test, S!answers, S!child>>
  BY DEF S!Usr2Assign
<1>2. /\ mpc = "waitpid" /\ stack # <<>> /\ S!Top.pc = "assign" /\ sig \in SemSigs /\ sem \in S!Semantics
  BY <1>1, SemUsr2Runs
<1>3. SemFrameGoes("return", S!Top.wake, S!Top.rest)
  BY <1>1, <1>2, SemGoesOn DEF S!IInv, S!HandlerPlaces
<1>4. stack' # <<>> /\ S!Top'.pc = "return"
  BY <1>3 DEF SemFrameGoes, SemReplaced, S!Top
<1>5. S!SleepsToEnd'
  BY <1>1, <1>2, <1>4 DEF S!IInv, S!SleepsToEnd, S!TopIn, S!clock, S!child
<1>6. S!SleepInterrupted'
  <2>1. ~S!ToSleep /\ ~S!Asleep
    BY <1>2, SemStages
  <2>2. ASSUME S!Interrupted PROVE S!Interrupted'
    <3>1. PICK n \in {2, 3} : S!Top.rest = n /\ stack = <<S!Usr2("assign", 5, n)>>
      BY <1>2, <2>2, SemStages
    <3>2. S!Top.wake = 5
      BY <3>1, SemOneFrame DEF S!Usr2
    <3>3. stack' = <<S!Usr2("return", 5, n)>>
      BY <1>3, <3>1, <3>2, SemSingleGoes DEF S!IInv, S!Usr2
    <3>4. needSleep = 0 /\ sig.pending = {}
      BY <1>2, <2>2, SemStages
    <3> QED
      BY <1>1, <3>1, <3>3, <3>4 DEF S!Interrupted
  <2> QED
    BY <1>1, <1>2, <2>1, <2>2, SemInterrupting
<1>7. S!Top \in S!Frames
  BY <1>2, SemStacked DEF S!IInv
<1>8. needSleep' \in {0, 1} /\ left' \in 0 .. 5
  BY <1>1, <1>7 DEF S!IInv, S!TypeOK, S!Frames
<1> QED
  BY <1>1, <1>2, <1>3, <1>5, <1>6, <1>8, SemUsr2Goes DEF S!HandlerPlaces

LEMMA SemReturnIInv == ASSUME S!IInv, S!Return PROVE S!IInv'
<1>1. /\ stack # <<>> /\ S!Top.pc = "return" /\ S!Alive /\ sig.pending \ sig.mask = {}
      /\ sig' = S!SetMask(sig, S!Top.saved) /\ stack' = Tail(stack)
      /\ UNCHANGED <<S!clock, S!flags, mpc, test, S!answers, S!child>>
  BY DEF S!Return, S!Deliverable
<1>2. sig \in SemSigs /\ sem \in S!Semantics /\ stack \in Seq(S!Frames) /\ S!Top.saved = {}
  BY <1>1, SemStacked DEF S!IInv, S!TypeOK, SemSigs, S!Frames
<1>3. sig' \in SemSigs /\ sig'.act = sig.act /\ sig'.mask = {} /\ sig'.pending = sig.pending
  BY <1>1, <1>2, SemMaskSet
<1>4. /\ stack' \in Seq(S!Frames) /\ Len(stack') = Len(stack) - 1
      /\ \A k \in 1 .. Len(stack) - 1 : stack'[k] = stack[k + 1]
  BY <1>1, <1>2, SemPop
<1>5. S!TypeOK'
  BY <1>1, <1>3, <1>4 DEF S!IInv, S!TypeOK, SemSigs, S!clock, S!flags, S!answers,
     S!child, S!Reads
<1>6. Len(stack) \in Nat /\ Len(stack') \in Nat /\ (Len(stack') = 0 <=> stack' = <<>>)
  BY <1>2, <1>4
<1>7. mpc = "waitpid" \/ mpc \in SemEmptying
  BY <1>1, SemHandling
<1>8. CASE mpc \in SemEmptying
  <2>1. PICK p \in {"start", "return"} : stack = <<S!Frame(SemEmptyFn, p, 0, 0)>>
    BY <1>1, <1>8, SemHandling
  <2>2. stack' = <<>>
    BY <1>1, <2>1, One
  <2>3. S!Masked' /\ S!Emptied(SemEmptyFn)'
    BY <1>3, <2>2 DEF S!Masked, S!Emptied
  <2> QED
    BY <1>1, <1>3, <1>5, <1>8, <2>3, SemEmptyGoes
<1>9. CASE mpc = "waitpid"
  <2>1. sem # "sysv" => S!Usr2Caught /\ Len(stack) =< 1 /\ stack' = <<>>
    BY <1>1, <1>4, <1>6, <1>9 DEF S!IInv, S!Second
  <2>2. S!Masked'
    BY <1>1, <1>3, <2>1 DEF S!Masked, S!clock
  <2>3. /\ cpc # "kill1" /\ sig'.pending \subseteq {"SIGUSR2"}
        /\ \A k \in 1 .. Len(stack) : stack[k].fn = "sig_usr2"
    BY <1>1, <1>3, <1>9 DEF S!IInv, S!Second
  <2>4. \A k \in 1 .. Len(stack') : stack'[k].fn = "sig_usr2"
    BY <1>4, <1>6, <2>3
  <2>5. S!Usr2Caught' = S!Usr2Caught
    BY <1>1, <1>3 DEF S!Usr2Caught, S!Installed, S!clock, S!HandlerOf, S!FlagsOf
  <2>6. /\ S!Usr2Caught'
        /\ sem # "sysv" => Len(stack') =< 1
    <3>1. ~S!InWindow
      BY <1>1 DEF S!InWindow
    <3>2. S!Usr2Caught
      BY <1>9, <3>1 DEF S!IInv, S!Second
    <3> QED
      BY <1>6, <2>1, <2>5, <3>2
  <2>7. S!SleepsToEnd'
    BY <1>1, <1>3, <1>9, <2>1 DEF S!IInv, S!SleepsToEnd, S!TopIn, S!clock, S!flags,
       S!child
  <2>8. S!SleepInterrupted'
    <3>1. ~S!ToSleep /\ ~S!Asleep
      BY <1>1, SemStages
    <3>2. ASSUME S!Interrupted PROVE S!Interrupted'
      <4>1. PICK n \in {2, 3} :
              \/ stack = <<S!Usr2("return", 0, 0), S!Usr2("assign", 5, n)>>
              \/ left = n /\ stack = <<S!Usr2("return", 5, n)>>
        BY <1>1, <3>2, SemStages
      <4>2. stack' = <<S!Usr2("assign", 5, n)>> \/ (left = n /\ stack' = <<>>)
        <5>1. stack = <<S!Usr2("return", 0, 0), S!Usr2("assign", 5, n)>> =>
                Tail(stack) = <<S!Usr2("assign", 5, n)>>
          BY SemDoubleIs DEF S!Usr2
        <5>2. stack = <<S!Usr2("return", 5, n)>> => Tail(stack) = <<>>
          BY One
        <5> QED
          BY <1>1, <4>1, <5>1, <5>2
      <4>3. needSleep = 0 /\ sig.pending = {}
        BY <1>1, <3>2, SemStages
      <4> QED
        BY <1>1, <1>3, <4>2, <4>3 DEF S!Interrupted, S!flags
    <3> QED
      BY <1>1, <1>9, <3>1, <3>2, SemInterrupting
  <2> QED
    BY <1>1, <1>5, <1>9, <2>2, <2>3, <2>4, <2>6, <2>7, <2>8, SemUsr2Step
<1> QED
  BY <1>7, <1>8, <1>9

---------------------------------------------------------------------------
\* A signal is delivered: which one it can be, where main is.
LEMMA SemArrives ==
  ASSUME S!IInv, S!Alive, NEW s \in S!Deliverable(sig)
  PROVE  /\ s \in S!Signals /\ sig \in SemSigs /\ sem \in S!Semantics /\ sig.pending = {s}
         /\ stack = <<>> \/ sem = "sysv" => sig.mask = {}
         /\ \/ mpc = "waitpid" /\ s = "SIGUSR2" /\ cpc # "kill1"
            \/ /\ mpc = "query" /\ s = "SIGUSR1" /\ stack = <<>>
               /\ S!Installed("SIGUSR1", {})
            \/ /\ mpc \in S!Reading /\ stack = <<>> /\ S!Installed(S!Awaited, S!Passed) /\ s = S!Awaited
               /\ cpc \notin {"sleep", "sleeping", "kill"} /\ test \in 1 .. Len(S!Reads)
<1>1. s \in sig.pending /\ sig \in SemSigs /\ sem \in S!Semantics /\ s \notin sig.mask
  BY DEF S!Deliverable, S!IInv, S!TypeOK, SemSigs
<1>2. s \in S!Signals
  BY <1>1 DEF SemSigs, S!SignalState
<1>3. stack = <<>> \/ sem = "sysv" => sig.mask = {}
  BY DEF S!IInv, S!Masked
<1>4. mpc \in {"query", "waitpid"} \cup S!Reading
  BY <1>1 DEF S!IInv, S!TypeOK, S!Quiet, S!Alive, S!Reading
<1>5. CASE mpc = "waitpid"
  <2>1. sig.pending \subseteq {"SIGUSR2"} /\ cpc # "kill1"
    BY <1>1, <1>5 DEF S!IInv, S!Second
  <2> QED
    BY <1>1, <1>2, <1>3, <1>5, <2>1
<1>6. CASE mpc = "query"
  <2>1. sig.pending \subseteq {"SIGUSR1"} /\ stack = <<>> /\ S!Installed("SIGUSR1", {})
    BY <1>1, <1>6 DEF S!IInv, S!First
  <2> QED
    BY <1>1, <1>2, <1>3, <1>6, <2>1
<1>7. CASE mpc \in S!Reading
  <2>1. /\ sig.pending \subseteq {S!Awaited} /\ stack = <<>> /\ S!Installed(S!Awaited, S!Passed)
        /\ cpc \notin {"sleep", "sleeping", "kill"} /\ test =< Len(S!Reads)
    BY <1>1, <1>7 DEF S!IInv, S!Third
  <2>2. test \in 1 .. Len(S!Reads)
    BY <2>1, SemReadsAre, <1>1 DEF S!IInv, S!TypeOK
  <2> QED
    BY <1>1, <1>2, <1>3, <1>7, <2>1, <2>2
<1> QED
  BY <1>4, <1>5, <1>6, <1>7

\* What is caught there, and by which handler.
LEMMA SemCatches ==
  ASSUME S!IInv, S!Alive, NEW s \in S!Deliverable(sig)
  PROVE  /\ mpc = "query" => /\ S!IsCaught(sig, s) /\ S!Handler(sig, s) = "sig_usr1"
                             /\ "nodefer" \in S!Flags(sig, s) <=> sem = "sysv"
                             /\ "reset" \in S!Flags(sig, s) <=> sem = "sysv"
         /\ mpc \in S!Reading => /\ S!IsCaught(sig, s) /\ S!Handler(sig, s) = S!HandlerOf(S!Awaited)
                                 /\ S!HandlerOf(S!Awaited) \in {"sig_usr1", "sig_alrm"}
                                 /\ S!SignalOf(S!HandlerOf(S!Awaited)) = s
                                 /\ S!Flags(sig, s) = S!FlagsOf(S!Passed)
                                 /\ "nodefer" \in S!Flags(sig, s) <=> sem = "sysv"
         /\ mpc = "waitpid" =>
                 /\ S!IsCaught(sig, s) <=> S!Usr2Caught
                 /\ prompt \/ sem # "sysv" => S!Usr2Caught
                 /\ S!Usr2Caught => /\ S!Handler(sig, s) = "sig_usr2"
                                    /\ "nodefer" \in S!Flags(sig, s) <=> sem = "sysv"
                                    /\ "reset" \in S!Flags(sig, s) <=> sem = "sysv"
<1>1. /\ s \in S!Signals /\ sem \in S!Semantics /\ sig.pending = {s}
      /\ mpc = "waitpid" => s = "SIGUSR2"
      /\ mpc = "query" => s = "SIGUSR1" /\ S!Installed("SIGUSR1", {})
      /\ mpc \in S!Reading =>
           S!Installed(S!Awaited, S!Passed) /\ s = S!Awaited /\ test \in 1 .. Len(S!Reads)
  BY SemArrives DEF S!Reading
<1>2. CASE mpc = "query"
  <2>1. /\ S!IsCaught(sig, s) /\ S!Handler(sig, s) = "sig_usr1"
        /\ "nodefer" \in S!Flags(sig, s) <=> sem = "sysv"
        /\ "reset" \in S!Flags(sig, s) <=> sem = "sysv"
    BY <1>1, <1>2, SemInstalledIs, SemHandlerIs
  <2> QED
    BY <1>2, <2>1 DEF S!Reading
<1>3. CASE mpc = "waitpid"
  <2>1. S!Usr2Caught => /\ S!IsCaught(sig, s) /\ S!Handler(sig, s) = "sig_usr2"
                        /\ "nodefer" \in S!Flags(sig, s) <=> sem = "sysv"
                        /\ "reset" \in S!Flags(sig, s) <=> sem = "sysv"
    BY <1>1, <1>3, SemInstalledIs, SemHandlerIs DEF S!Usr2Caught
  <2>2. /\ S!Usr2Caught \/ S!Handler(sig, "SIGUSR2") = "SIG_DFL"
        /\ prompt \/ sem # "sysv" => S!Usr2Caught
    BY <1>1, <1>3 DEF S!IInv, S!Second
  <2>3. ~S!Usr2Caught => ~S!IsCaught(sig, s)
    BY <1>1, <1>3, <2>2 DEF S!IsCaught
  <2> QED
    BY <1>3, <2>1, <2>2, <2>3 DEF S!Reading
<1>4. CASE mpc \in S!Reading
  <2>1. S!Awaited \in S!Signals /\ S!Awaited \in {"SIGALRM", "SIGUSR1"} /\ S!Passed \in SUBSET {"restart"}
    BY <1>1, <1>4, SemReadsAre DEF S!Awaited, S!Passed, S!Signals
  <2>2. /\ S!IsCaught(sig, s) /\ S!Handler(sig, s) = S!HandlerOf(S!Awaited)
        /\ S!Flags(sig, s) = S!FlagsOf(S!Passed)
        /\ "nodefer" \in S!Flags(sig, s) <=> sem = "sysv"
    BY <1>1, <1>4, <2>1, SemInstalledIs
  <2>3. /\ S!HandlerOf(S!Awaited) \in {"sig_usr1", "sig_alrm"}
        /\ S!SignalOf(S!HandlerOf(S!Awaited)) = s
    BY <1>1, <1>4, <2>1, SemHandlerIs
  <2> QED
    BY <1>4, <2>2, <2>3 DEF S!Reading
<1> QED
  BY <1>2, <1>3, <1>4

\* A signal that kills the parent.
LEMMA SemKills ==
  ASSUME S!IInv, S!Alive, NEW s \in S!Deliverable(sig), ~S!IsCaught(sig, s),
         sig' = S!Enter(sig, s), mpc' = "killed", stack' = stack,
         UNCHANGED <<S!clock, S!flags, test, S!answers, S!child>>
  PROVE  S!IInv'
<1>1. mpc = "waitpid" /\ sem = "sysv" /\ ~prompt /\ ~S!Usr2Caught
  BY SemArrives, SemCatches DEF S!Reading
<1>0. S!InWindow'
  <2>1. S!InWindow
    BY <1>1 DEF S!IInv, S!Second
  <2> QED
    BY <2>1 DEF S!InWindow, S!Top
<1>2. sig' \in SemSigs
  BY SemArrives, SemEntered
<1>3. S!TypeOK'
  BY <1>2 DEF S!IInv, S!TypeOK, SemSigs, S!clock, S!flags, S!answers, S!child, S!Reads
<1>4. S!Children' /\ S!Masked' /\ S!Quiet' /\ S!First' /\ S!Second' /\ S!SleepsToEnd'
  BY DEF S!IInv, S!Children, S!Masked, S!Quiet, S!First, S!Second, S!SleepsToEnd,
     S!Before, S!Alive, S!child
<1>5. S!SleepInterrupted' /\ S!Compared' /\ S!Third' /\ S!KilledInWindow'
  BY <1>0, <1>1 DEF S!SleepInterrupted, S!Compared, S!Third, S!KilledInWindow,
     S!Reading, S!clock
<1>6. S!FirstAnswers'
  BY DEF S!IInv, S!FirstAnswers, S!clock, S!answers, S!child
<1>7. S!NotRestartedIsRight'
  <2>1. S!Reads' = S!Reads /\ \A x : S!FlagsOf(x)' = S!FlagsOf(x)
    BY DEF S!Reads, S!FlagsOf, S!clock
  <2> QED
    BY <2>1 DEF S!IInv, S!NotRestartedIsRight, S!answers
<1> QED
  BY <1>3, <1>4, <1>5, <1>6, <1>7 DEF S!IInv

\* The frame of a handler that starts.
LEMMA SemStarting ==
  ASSUME NEW f \in {"sig_usr1", "sig_usr2", "sig_alrm"}
  PROVE  LET x == S!Frame(f, "start", 0, 0) IN x \in S!Frames /\ x.fn = f /\ x.pc = "start"
<1>1. "start" \in S!HandlerPlaces /\ 0 \in Nat /\ 0 \in 0 .. 5
  BY DEF S!HandlerPlaces
<1> QED
  BY <1>1, SemFrameIn

\* A handler of an empty function starts.
LEMMA SemEmptyStarts ==
  ASSUME S!IInv, S!Alive, NEW s \in S!Deliverable(sig), mpc \in SemEmptying,
         sig' = S!Enter(sig, s), mpc' = S!AfterSignal(s),
         stack' = <<S!Frame(S!Handler(sig, s), "start", 0, 0)>>,
         UNCHANGED <<S!clock, S!flags, test, S!answers, S!child>>
  PROVE  S!IInv'
<1>1. /\ s \in S!Signals /\ sig \in SemSigs /\ sem \in S!Semantics /\ sig.pending = {s}
      /\ sig.mask = {} /\ stack = <<>> /\ mpc # "waitpid"
      /\ mpc = "query" => s = "SIGUSR1" /\ S!Installed("SIGUSR1", {})
      /\ mpc \in S!Reading => /\ s = S!Awaited /\ cpc \notin {"sleep", "sleeping", "kill"}
                              /\ test \in 1 .. Len(S!Reads)
  BY SemArrives DEF SemEmptying, S!Reading
<1>2. /\ S!IsCaught(sig, s) /\ ("nodefer" \in S!Flags(sig, s) <=> sem = "sysv")
      /\ S!Handler(sig, s) \in {"sig_usr1", "sig_alrm"} /\ S!SignalOf(S!Handler(sig, s)) = s
      /\ mpc = "query" => /\ S!Handler(sig, s) = "sig_usr1"
                          /\ "reset" \in S!Flags(sig, s) <=> sem = "sysv"
      /\ mpc \in S!Reading => /\ S!Handler(sig, s) = S!HandlerOf(S!Awaited)
                              /\ S!Flags(sig, s) = S!FlagsOf(S!Passed)
  BY <1>1, SemCatches, SemHandlerIs DEF SemEmptying
<1>3. /\ sig' \in SemSigs /\ sig'.pending = {} /\ sig'.mask = IF sem = "sysv" THEN {} ELSE {s}
      /\ sig'.act[s] = IF "reset" \in S!Flags(sig, s) THEN S!Default ELSE sig.act[s]
  BY <1>1, <1>2, SemEntered
<1>4. /\ mpc = "query" => mpc' = "query"
      /\ mpc \in S!Reading => mpc' \in S!Reading
      /\ mpc' = "eintr" => mpc = "eintr" \/ "restart" \notin S!Flags(sig, s)
      /\ mpc' \in {"data", "eof"} => mpc = mpc' \/ data > 0 \/ cpc \in {"exited", "killed"}
      /\ mpc' \in {"read", "reading"} => mpc = mpc'
  BY DEF S!AfterSignal, S!Reading, S!Outcome, S!Readable
<1>5. mpc' \in {"query"} \cup S!Reading
  BY <1>4 DEF SemEmptying
<1>6. /\ stack' \in Seq(S!Frames) /\ Len(stack') = 1 /\ stack' # <<>>
      /\ S!Top'.fn = S!Handler(sig, s)
  <2> DEFINE x == S!Frame(S!Handler(sig, s), "start", 0, 0)
  <2>1. x \in S!Frames /\ x.fn = S!Handler(sig, s)
    BY <1>2, SemStarting
  <2> HIDE DEF x
  <2>2. stack' = <<x>>
    BY DEF x
  <2> QED
    BY <2>1, <2>2 DEF S!Top
<1>7. S!TypeOK'
  BY <1>3, <1>5, <1>6 DEF S!IInv, S!TypeOK, SemSigs, S!Reading, S!clock, S!flags,
     S!answers, S!child, S!Reads
<1>8. S!Masked'
  BY <1>2, <1>3, <1>6 DEF S!Masked, S!clock
<1>9. S!Children'
  <2>1. mpc \in {"data", "eof", "eintr"} => cpc \in {"write", "exited", "killed"}
    BY DEF S!IInv, S!Children
  <2>2. mpc \in {"read", "reading"} =>
          /\ cpc \in {"sleep", "sleeping", "kill", "write", "exited", "killed"}
          /\ data > 0 => cpc = "exited"
    BY DEF S!IInv, S!Children
  <2>3. mpc = "query" => cpc = "none" /\ needSleep = 1 /\ left = 5 /\ now = 0
    BY DEF S!IInv, S!Children, S!Before
  <2>4. cpc = "killed" => orphan
    BY DEF S!IInv, S!Children
  <2>5. mpc \in S!Reading => cpc \in {"write", "exited", "killed"}
    BY <1>1, <2>1, <2>2 DEF S!Reading
  <2>6. UNCHANGED <<now, needSleep, left, cpc, data, orphan>>
    BY DEF S!clock, S!flags, S!child
  <2>7. mpc' \in S!Reading => mpc \in S!Reading
    BY <1>4 DEF SemEmptying, S!Reading
  <2>8. mpc' = "query" => mpc = "query"
    BY <1>4 DEF SemEmptying, S!Reading
  <2> QED
    BY <1>4, <1>5, <2>2, <2>3, <2>4, <2>5, <2>6, <2>7, <2>8 DEF S!Children, S!Before,
       S!Reading
<1>10. S!Quiet' /\ S!Second' /\ S!SleepsToEnd' /\ S!SleepInterrupted' /\ S!Compared' /\ S!KilledInWindow'
  BY <1>5 DEF S!Quiet, S!Second, S!SleepsToEnd, S!SleepInterrupted, S!Compared,
     S!KilledInWindow, S!Reading
<1>11. S!First'
  <2>1. mpc' = "query" => mpc = "query"
    BY <1>4 DEF SemEmptying, S!Reading
  <2>2. mpc' = "query" => S!Emptied("sig_usr1")'
    BY <1>2, <2>1 DEF S!Emptied
  <2>3. mpc' = "query" => IF sem = "sysv" THEN sig'.act["SIGUSR1"] = S!Default
                                          ELSE S!Installed("SIGUSR1", {})'
    BY <1>1, <1>2, <1>3, <2>1 DEF S!Installed, S!clock, S!HandlerOf, S!FlagsOf
  <2> QED
    BY <1>3, <1>5, <2>2, <2>3 DEF S!First, S!Reading, S!clock
<1>12. S!Third'
  <2>1. mpc' \in S!Reading => mpc \in S!Reading
    BY <1>4 DEF SemEmptying, S!Reading
  <2>2. S!Reads' = S!Reads /\ S!Awaited' = S!Awaited /\ S!Passed' = S!Passed
        /\ \A x : S!FlagsOf(x)' = S!FlagsOf(x)
    BY DEF S!Reads, S!Awaited, S!Passed, S!FlagsOf, S!clock
  <2>3. mpc' \in S!Reading => S!Emptied(S!HandlerOf(S!Awaited))'
    BY <1>2, <2>1, <2>2 DEF S!Emptied, S!HandlerOf
  <2>4. mpc = "eintr" => "restart" \notin S!FlagsOf(S!Passed)
    BY DEF S!IInv, S!Third
  <2>5. mpc' = "eintr" => "restart" \notin S!FlagsOf(S!Passed)'
    BY <1>2, <1>4, <2>1, <2>2, <2>4 DEF S!Reading
  <2>6. mpc' \in S!Reading => cpc' \notin {"sleep", "sleeping", "kill"} /\ test' =< Len(S!Reads)'
    BY <1>1, <2>1, <2>2 DEF S!child
  <2> QED
    BY <1>3, <1>5, <2>3, <2>5, <2>6 DEF S!Third, S!Reading
<1>13. S!FirstAnswers' /\ S!NotRestartedIsRight'
  <2>1. S!Reads' = S!Reads /\ \A x : S!FlagsOf(x)' = S!FlagsOf(x)
    BY DEF S!Reads, S!FlagsOf, S!clock
  <2> QED
    BY <2>1 DEF S!IInv, S!FirstAnswers, S!NotRestartedIsRight, S!clock, S!answers,
       S!child
<1> QED
  BY <1>7, <1>8, <1>9, <1>10, <1>11, <1>12, <1>13 DEF S!IInv

\* A handler that another signal finds running is one of System V.
LEMMA SemUnblocked ==
  ASSUME S!IInv, S!Alive, NEW s \in S!Deliverable(sig)
  PROVE  sig.mask = {} /\ (sem # "sysv" => stack = <<>>)
<1>1. /\ mpc = "waitpid" => s = "SIGUSR2"
      /\ mpc # "waitpid" => stack = <<>>
      /\ stack = <<>> \/ sem = "sysv" => sig.mask = {}
  BY SemArrives DEF S!Reading
<1>2. ASSUME sem # "sysv", stack # <<>> PROVE FALSE
  <2>1. mpc = "waitpid" /\ s = "SIGUSR2"
    BY <1>1, <1>2
  <2>2. S!Top.fn = "sig_usr2"
    BY <1>2, <2>1, SemHandling
  <2>3. sig.mask = {s}
    BY <1>2, <2>1, <2>2, SemHandlerIs DEF S!IInv, S!Masked
  <2> QED
    BY <2>3 DEF S!Deliverable
<1> QED
  BY <1>1, <1>2

\* sig_usr2 starts on top of the handlers t, which were there: the innermost has
\* been asleep, perhaps, and is awake.
SemUsr2On(t) == /\ t \in Seq(S!Frames) /\ Len(t) = Len(stack)
                /\ \A k \in 1 .. Len(t) : t[k].fn = "sig_usr2"
                /\ stack' = <<S!Usr2("start", 0, 0)>> \o t

LEMMA SemUsr2Pushed ==
  ASSUME NEW t, SemUsr2On(t)
  PROVE  /\ stack' \in Seq(S!Frames) /\ Len(stack') = Len(stack) + 1 /\ stack' # <<>>
         /\ S!Top'.fn = "sig_usr2" /\ S!Top'.pc = "start"
         /\ \A k \in 1 .. Len(stack') : stack'[k].fn = "sig_usr2"
         /\ t = <<>> => stack' = <<S!Usr2("start", 0, 0)>>
<1> DEFINE f == S!Usr2("start", 0, 0)
<1>1. f \in S!Frames /\ f.fn = "sig_usr2" /\ f.pc = "start"
  BY SemStarting DEF S!Usr2
<1> HIDE DEF f
<1>2. /\ t \in Seq(S!Frames) /\ Len(t) = Len(stack)
      /\ \A k \in 1 .. Len(t) : t[k].fn = "sig_usr2"
      /\ stack' = <<f>> \o t
  BY DEF SemUsr2On, f
<1>3. /\ stack' \in Seq(S!Frames) /\ Len(stack') = Len(t) + 1 /\ stack'[1] = f
      /\ stack' # <<>> /\ \A k \in 1 .. Len(t) : stack'[k + 1] = t[k]
  BY <1>1, <1>2, SemPush
<1>4. Len(t) \in Nat
  BY <1>2
<1>5. \A k \in 1 .. Len(stack') : stack'[k].fn = "sig_usr2"
  <2> TAKE k \in 1 .. Len(stack')
  <2>1. CASE k = 1
    BY <1>1, <1>3, <2>1
  <2>2. CASE k # 1
    <3>1. k - 1 \in 1 .. Len(t) /\ (k - 1) + 1 = k
      BY <1>3, <1>4, <2>2
    <3>2. stack'[k] = t[k - 1]
      BY <1>3, <3>1
    <3> QED
      BY <1>2, <3>1, <3>2
  <2> QED
    BY <2>1, <2>2
<1>6. t = <<>> => stack' = <<f>>
  BY <1>2, One
<1> QED
  BY <1>1, <1>2, <1>3, <1>5, <1>6 DEF S!Top, f

LEMMA SemUsr2Starts ==
  ASSUME S!IInv, S!Alive, NEW s \in S!Deliverable(sig), mpc = "waitpid", S!IsCaught(sig, s),
         sig' = S!Enter(sig, s), UNCHANGED <<S!clock, S!flags, mpc, test, S!answers, S!child>>,
         NEW t, SemUsr2On(t),
         S!Asleep => \E n \in S!Remaining(S!Top) : t = S!Awake(n)
  PROVE  S!IInv'
<1>1. /\ s = "SIGUSR2" /\ s \in S!Signals /\ sig \in SemSigs /\ sem \in S!Semantics
      /\ sig.pending = {s} /\ cpc # "kill1"
      /\ stack = <<>> \/ sem = "sysv" => sig.mask = {}
  BY SemArrives DEF S!Reading
<1>2. /\ S!Usr2Caught /\ ("nodefer" \in S!Flags(sig, s) <=> sem = "sysv")
      /\ "reset" \in S!Flags(sig, s) <=> sem = "sysv"
  BY SemCatches
<1>3. /\ sig' \in SemSigs /\ sig'.pending = {}
      /\ sig'.mask = IF sem = "sysv" THEN sig.mask ELSE sig.mask \cup {s}
      /\ sig'.act[s] = IF sem = "sysv" THEN S!Default ELSE sig.act[s]
  BY <1>1, <1>2, SemEntered
<1>4. sem # "sysv" => stack = <<>>
  BY SemUnblocked
<1>5. /\ stack' \in Seq(S!Frames) /\ Len(stack') = Len(stack) + 1 /\ stack' # <<>>
      /\ S!Top'.fn = "sig_usr2" /\ S!Top'.pc = "start"
      /\ \A k \in 1 .. Len(stack') : stack'[k].fn = "sig_usr2"
      /\ t = <<>> => stack' = <<S!Usr2("start", 0, 0)>>
  BY SemUsr2Pushed
<1>6. S!TypeOK'
  BY <1>3, <1>5 DEF S!IInv, S!TypeOK, SemSigs, S!clock, S!flags, S!answers, S!child,
     S!Reads
<1>7. S!Masked'
  <2>1. sig'.mask = IF sem = "sysv" THEN {} ELSE {"SIGUSR2"}
    BY <1>1, <1>3, <1>4
  <2>2. S!SignalOf(S!Top.fn)' = "SIGUSR2"
    BY <1>5 DEF S!SignalOf
  <2>3. sem' = sem
    BY DEF S!clock
  <2> QED
    BY <1>5, <2>1, <2>2, <2>3 DEF S!Masked
<1>8. sem # "sysv" => S!Usr2Caught'
  BY <1>1, <1>2, <1>3 DEF S!Usr2Caught, S!Installed, S!clock, S!HandlerOf, S!FlagsOf
<1>9. S!Usr2Caught' \/ (S!Handler(sig, "SIGUSR2")' = "SIG_DFL" /\ S!InWindow')
  BY <1>1, <1>3, <1>5, <1>8 DEF S!Handler, S!Default, S!InWindow
<1>10. S!SleepsToEnd'
  <2> SUFFICES ASSUME sem # "sysv" PROVE S!SleepsToEnd'
    BY DEF S!SleepsToEnd, S!clock
  <2>1. left \in {0, 5} /\ ~(needSleep = 0 /\ left = 5)
    BY <1>4 DEF S!IInv, S!SleepsToEnd, S!TopIn
  <2> QED
    BY <1>5, <2>1 DEF S!SleepsToEnd, S!TopIn, S!flags
<1>11. S!SleepInterrupted'
  <2>1. ASSUME S!ToSleep PROVE S!ToSleep'
    <3>1. left = 5 /\ needSleep = 1 /\ stack = <<>>
      BY <1>1, <2>1 DEF S!ToSleep
    <3>2. t = <<>>
      BY <3>1 DEF SemUsr2On
    <3> QED
      BY <1>3, <1>5, <3>1, <3>2 DEF S!ToSleep, S!flags
  <2>2. ~S!Interrupted
    BY <1>1 DEF S!Interrupted
  <2>3. ASSUME S!Asleep, now = 2, prompt PROVE S!Interrupted'
    <3>1. PICK n \in S!Remaining(S!Top) : t = S!Awake(n)
      BY <2>3
    <3>2. stack = <<S!Usr2("sleeping", 5, 0)>> /\ needSleep = 0
      BY <2>3 DEF S!Asleep
    <3>3. stack # <<>> /\ S!Top.fn = "sig_usr2" /\ S!Top.wake = 5 /\ Len(stack) = 1
      BY <3>2, SemOneFrame DEF S!Usr2
    <3>4. n \in 0 .. 5 /\ n + 2 \in {5, 4}
      BY <2>3, <3>3 DEF S!Remaining
    <3>5. n \in {2, 3}
      BY <3>4
    <3>6. SemReplaced(t, "assign", 5, n)
      BY <3>1, <3>3, <3>4, SemGoesAwake DEF S!IInv
    <3>7. t = <<S!Usr2("assign", 5, n)>>
      <4>1. t \in Seq(S!Frames) /\ Len(t) = 1 /\ t[1].fn = "sig_usr2" /\ t[1].pc = "assign"
            /\ t[1].wake = 5 /\ t[1].rest = n
        BY <3>3, <3>6 DEF SemReplaced
      <4>2. t = <<S!Frame(t[1].fn, t[1].pc, t[1].wake, t[1].rest)>>
        BY <4>1, SemIsSingle
      <4> QED
        BY <4>1, <4>2, Zenon DEF S!Usr2
    <3>8. stack' = <<S!Usr2("start", 0, 0), S!Usr2("assign", 5, n)>>
      BY <3>7, Two DEF SemUsr2On
    <3> QED
      BY <1>3, <3>2, <3>5, <3>8 DEF S!Interrupted, S!flags
  <2> QED
    BY <1>1, <2>1, <2>2, <2>3, SemInterrupting
<1> QED
  BY <1>1, <1>3, <1>4, <1>5, <1>6, <1>7, <1>8, <1>9, <1>10, <1>11, SemUsr2Step

\* A delivery of s, and of it the start of a handler with the frame x.
SemStartsWith(s, x) ==
  \/ stack = <<>> /\ mpc' = S!AfterSignal(s) /\ stack' = <<x>>
  \/ /\ stack # <<>> /\ mpc' = mpc
     /\ IF S!Top.pc = "sleeping"
        THEN \E n \in S!Remaining(S!Top) : stack' = <<x>> \o S!Awake(n)
        ELSE stack' = <<x>> \o stack
SemDeliveryOf(s) ==
  /\ S!Alive /\ sig' = S!Enter(sig, s)
  /\ \/ ~S!IsCaught(sig, s) /\ mpc' = "killed" /\ stack' = stack
     \/ /\ S!IsCaught(sig, s)
        /\ SemStartsWith(s, [fn |-> S!Handler(sig, s), pc |-> "start", saved |-> sig.mask,
                             wake |-> 0, rest |-> 0])
  /\ UNCHANGED <<S!clock, S!flags, test, S!answers, S!child>>

LEMMA SemDeliverIInv == ASSUME S!IInv, S!Deliver PROVE S!IInv'
<1>1. PICK s \in S!Deliverable(sig) : SemDeliveryOf(s)
  BY DEF S!Deliver, SemDeliveryOf, SemStartsWith
<1>2. S!Alive /\ sig' = S!Enter(sig, s) /\ UNCHANGED <<S!clock, S!flags, test, S!answers, S!child>>
  BY <1>1 DEF SemDeliveryOf
<1>3. CASE ~S!IsCaught(sig, s)
  <2>1. mpc' = "killed" /\ stack' = stack
    BY <1>1, <1>3 DEF SemDeliveryOf
  <2> QED
    BY <1>2, <1>3, <2>1, SemKills
<1>4. ASSUME S!IsCaught(sig, s)
      PROVE  SemStartsWith(s, S!Frame(S!Handler(sig, s), "start", 0, 0))
  <2>1. sig.mask = {}
    BY <1>2, SemUnblocked
  <2>2. [fn |-> S!Handler(sig, s), pc |-> "start", saved |-> sig.mask, wake |-> 0, rest |-> 0]
          = S!Frame(S!Handler(sig, s), "start", 0, 0)
    BY <2>1 DEF S!Frame
  <2> QED
    BY <1>1, <1>4, <2>2 DEF SemDeliveryOf
<1>5. mpc = "waitpid" \/ (mpc \in SemEmptying /\ stack = <<>> /\ S!IsCaught(sig, s))
  BY <1>2, SemArrives, SemCatches DEF SemEmptying
<1>6. CASE S!IsCaught(sig, s) /\ mpc \in SemEmptying /\ stack = <<>>
  <2>1. /\ mpc' = S!AfterSignal(s)
        /\ stack' = <<S!Frame(S!Handler(sig, s), "start", 0, 0)>>
    BY <1>4, <1>6 DEF SemStartsWith
  <2> QED
    BY <1>2, <1>6, <2>1, SemEmptyStarts
<1>7. CASE S!IsCaught(sig, s) /\ mpc = "waitpid"
  <2>1. S!Handler(sig, s) = "sig_usr2"
    BY <1>2, <1>7, SemCatches
  <2>2. SemStartsWith(s, S!Usr2("start", 0, 0))
    BY <1>4, <1>7, <2>1 DEF S!Usr2
  <2>3. mpc' = mpc
    BY <1>7, <2>2 DEF SemStartsWith, S!AfterSignal
  <2>4. stack \in Seq(S!Frames) /\ \A k \in 1 .. Len(stack) : stack[k].fn = "sig_usr2"
    BY <1>7 DEF S!IInv, S!TypeOK, S!Second
  <2>5. \E t : SemUsr2On(t) /\ (S!Asleep => \E n \in S!Remaining(S!Top) : t = S!Awake(n))
    <3>1. CASE stack # <<>> /\ S!Top.pc = "sleeping"
      <4>1. PICK n \in S!Remaining(S!Top) : stack' = <<S!Usr2("start", 0, 0)>> \o S!Awake(n)
        BY <2>2, <3>1 DEF SemStartsWith
      <4>2. n \in 0 .. 5
        BY DEF S!Remaining
      <4> DEFINE t == S!Awake(n)
      <4>3. SemReplaced(t, "assign", S!Top.wake, n)
        BY <3>1, <4>2, SemGoesAwake DEF S!IInv
      <4>4. t = S!Awake(n) /\ stack' = <<S!Usr2("start", 0, 0)>> \o t
        BY <4>1
      <4> HIDE DEF t
      <4>5. SemUsr2On(t)
        BY <2>4, <3>1, <4>3, <4>4 DEF SemUsr2On, SemReplaced, S!Top
      <4> QED
        BY <4>4, <4>5
    <3>2. CASE stack # <<>> /\ S!Top.pc # "sleeping"
      <4>1. stack' = <<S!Usr2("start", 0, 0)>> \o stack
        BY <2>2, <3>2 DEF SemStartsWith
      <4>2. SemUsr2On(stack)
        BY <2>4, <4>1 DEF SemUsr2On
      <4>3. ~S!Asleep
        BY <3>2, SemStages
      <4> QED
        BY <4>2, <4>3
    <3>3. CASE stack = <<>>
      <4>1. stack' = <<S!Usr2("start", 0, 0)>>
        BY <2>2, <3>3 DEF SemStartsWith
      <4>2. stack' = <<S!Usr2("start", 0, 0)>> \o stack
        BY <3>3, <4>1, One
      <4>3. SemUsr2On(stack)
        BY <2>4, <4>2 DEF SemUsr2On
      <4>4. ~S!Asleep
        BY <3>3, One DEF S!Asleep
      <4> QED
        BY <4>3, <4>4
    <3> QED
      BY <3>1, <3>2, <3>3
  <2>6. PICK t : SemUsr2On(t) /\ (S!Asleep => \E n \in S!Remaining(S!Top) : t = S!Awake(n))
    BY <2>5
  <2> QED
    BY <1>2, <1>7, <2>3, <2>6, SemUsr2Starts
<1> QED
  BY <1>3, <1>5, <1>6, <1>7

LEMMA SemStutterIInv == ASSUME S!IInv, UNCHANGED S!vars PROVE S!IInv'
<1>1. UNCHANGED <<S!clock, S!flags, mpc, test, stack, S!answers, S!child>> /\ sig' = sig
  BY DEF S!vars, S!clock, S!flags, S!answers, S!child
<1>2. SemKept /\ UNCHANGED <<now, cpc, cwake, data, orphan>>
  BY <1>1 DEF SemKept, S!clock, S!child
<1>3. S!TypeOK'
  BY <1>1, <1>2, SemKeptFacts DEF S!IInv, S!TypeOK, S!clock, S!flags, S!answers
<1>4. S!Children' /\ S!FirstAnswers' /\ S!Compared'
  BY <1>1, <1>2 DEF S!IInv, S!Children, S!FirstAnswers, S!Compared, S!clock,
     S!answers, S!flags
<1>5. S!SleepInterrupted'
  BY <1>1, <1>2, SemKeptFacts DEF S!IInv, S!SleepInterrupted, S!clock
<1> QED
  BY <1>1, <1>2, <1>3, <1>4, <1>5, SemNothingSent

LEMMA SemInitIInv == S!Init => S!IInv
<1> SUFFICES ASSUME S!Init PROVE S!IInv
  OBVIOUS
<1>1. /\ prompt \in BOOLEAN /\ now = 0 /\ sem \in S!Semantics /\ needSleep = 1 /\ left = 5
      /\ mpc = "reset" /\ test = 1 /\ stack = <<>> /\ reset = "none" /\ prevent = "none"
      /\ cpc = "none" /\ cwake = 0 /\ data = 0 /\ orphan = FALSE
  BY DEF S!Init
<1>2. sig \in SemSigs /\ sig.pending = {} /\ sig.mask = {}
  <2> DEFINE a == [s \in S!Signals |-> S!Default]
  <2>1. a \in [S!Signals -> [handler : {"sig_usr1", "sig_usr2", "sig_alrm", "SIG_DFL", "SIG_IGN"},
                             flags : SUBSET {"restart", "reset", "nodefer"}]]
    BY DEF S!Default
  <2>2. sig = [pending |-> {}, mask |-> {}, act |-> a]
    BY DEF S!Init, S!NoActions
  <2> HIDE DEF a
  <2> QED
    BY <2>1, <2>2 DEF SemSigs, S!SignalState
<1>3. 1 \in 1 .. Len(S!Reads) + 1
  BY <1>1, SemReadsAre
<1>4. /\ restart \in [1 .. 4 -> {"none", "yes", "no"}]
      /\ \A k \in 1 .. 4 : restart[k] = "none"
  BY DEF S!Init
<1>5. S!TypeOK
  <2>1. test \in 1 .. Len(S!Reads) + 1 /\ stack \in Seq(S!Frames)
    BY <1>1, <1>3
  <2>2. now \in Nat /\ cwake \in Nat /\ left \in 0 .. 5
    BY <1>1
  <2> QED
    BY <1>1, <1>2, <1>4, <2>1, <2>2 DEF S!TypeOK, SemSigs
<1>6. S!Children /\ S!Masked /\ S!Quiet /\ S!First /\ S!Second
  BY <1>1, <1>2 DEF S!Children, S!Masked, S!Quiet, S!First, S!Second, S!Before
<1>7. S!SleepsToEnd /\ S!SleepInterrupted /\ S!Compared /\ S!Third /\ S!KilledInWindow
  BY <1>1 DEF S!SleepsToEnd, S!SleepInterrupted, S!Compared, S!Third, S!Reading,
     S!KilledInWindow
<1>8. S!NotRestartedIsRight
  <2>1. \A k \in 1 .. Len(S!Reads) : k \in 1 .. 4
    BY <1>1, SemReadsAre
  <2> QED
    BY <1>4, <2>1 DEF S!NotRestartedIsRight
<1>9. S!FirstAnswers
  BY <1>1 DEF S!FirstAnswers
<1> QED
  BY <1>5, <1>6, <1>7, <1>8, <1>9 DEF S!IInv

\* The inductive invariant of sigaction_semantics.c and signal_semantics.c: which
\* signals are pending and which handlers run at each question, and for System V
\* semantics on an idle machine the stages of the sleep that is interrupted.
THEOREM SemInductive == S!Spec => []S!IInv
<1>1. S!Init => S!IInv
  BY SemInitIInv
<1>2. S!IInv /\ [S!Next]_(S!vars) => S!IInv'
  <2>1. S!IInv /\ S!MainStep => S!IInv'
    BY SemResetInstallIInv, SemResetSelfIInv, SemResetQueryIInv, SemDeferInstallIInv,
       SemDeferForkIInv, SemWaitpidIInv, SemDeferCompareIInv, SemReadInstallIInv,
       SemReadForkIInv, SemReadIInv, SemReadAnswerIInv, SemExit0IInv DEF S!MainStep
  <2>2. S!IInv /\ S!Handlers => S!IInv'
    BY SemEmptyHandlerIInv, SemUsr2StartIInv, SemUsr2CheckIInv, SemUsr2ClearIInv,
       SemUsr2SleepIInv, SemUsr2WakeIInv, SemUsr2AssignIInv, SemReturnIInv DEF S!Handlers
  <2>3. S!IInv /\ S!ChildStep => S!IInv'
    BY SemChildKill2IInv, SemChildSleepIInv, SemChildWakeIInv, SemChildKillWriteIInv
       DEF S!ChildStep
  <2> QED
    BY <2>1, <2>2, <2>3, SemDeliverIInv, SemKillChildIInv, SemTickIInv, SemStutterIInv
       DEF S!Next, S!ParentStep, S!Terminated
<1> QED
  BY <1>1, <1>2, PTL DEF S!Spec

\* What Quiet says of the questions with a child.
LEMMA SemApart == S!IInv => S!QuestionsApart
BY DEF S!IInv, S!Quiet, S!QuestionsApart

---------------------------------------------------------------------------
(* SigJump: the masks that are shown, and when the jump is made.           *)

JumpSigs    == J!SignalState(J!Signals, {"sig_usr1", "sig_alrm"})
JumpEntries == [line : J!Lines, mask : SUBSET J!Signals]

\* What the kernel's operations do to the signals of the process.
LEMMA JumpGenerated ==
  ASSUME sig \in JumpSigs, J!Installed, NEW s \in J!Signals
  PROVE  LET new == J!Generate(sig, s)
         IN  /\ new \in JumpSigs /\ new.mask = sig.mask /\ new.act = sig.act
             /\ new.pending = sig.pending \cup {s}
<1>1. ~J!IsIgnored(sig, s)
  BY DEF J!Installed, J!Signals, J!IsIgnored, J!Handler, J!Default, J!Catch
<1> QED
  BY <1>1 DEF JumpSigs, J!SignalState, J!Generate

LEMMA JumpCaught ==
  ASSUME sig \in JumpSigs, NEW s \in J!Signals, NEW f \in {"sig_usr1", "sig_alrm"}
  PROVE  LET new == J!Install(sig, s, J!Catch(f, {}))
         IN  /\ new \in JumpSigs /\ new.mask = sig.mask /\ new.pending = sig.pending
             /\ new.act = [sig.act EXCEPT ![s] = J!Catch(f, {})]
BY DEF JumpSigs, J!SignalState, J!Install, J!Catch, J!IsIgnored, J!Handler

LEMMA JumpEntered ==
  ASSUME sig \in JumpSigs, NEW s \in J!Signals, J!Flags(sig, s) = {}
  PROVE  LET new == J!Enter(sig, s)
         IN  /\ new \in JumpSigs /\ new.act = sig.act
             /\ new.mask = sig.mask \cup {s} /\ new.pending = sig.pending \ {s}
<1>1. "nodefer" \notin J!Flags(sig, s) /\ "reset" \notin J!Flags(sig, s)
  OBVIOUS
<1>2. [sig.act EXCEPT ![s] = sig.act[s]] = sig.act
  BY DEF JumpSigs, J!SignalState
<1> QED
  BY <1>1, <1>2 DEF JumpSigs, J!SignalState, J!Enter

LEMMA JumpMaskSet ==
  ASSUME sig \in JumpSigs, NEW set \in SUBSET J!Signals
  PROVE  LET new == J!SetMask(sig, set)
         IN  /\ new \in JumpSigs /\ new.act = sig.act
             /\ new.mask = set /\ new.pending = sig.pending
BY DEF JumpSigs, J!SignalState, J!SetMask

LEMMA JumpUsrStack ==
  ASSUME NEW p \in J!UsrPlaces
  PROVE  LET s == <<J!Usr(p)>>
         IN  /\ s # <<>> /\ J!IsUsr(s) /\ ~J!IsAlrm(s)
             /\ s[1].fn = "sig_usr1" /\ s[1].pc = p /\ s[1].saved = {}
             /\ \A q \in J!UsrPlaces : s = <<J!Usr(q)>> <=> p = q
             /\ \A q \in J!UsrPlaces : [s EXCEPT ![1].pc = q] = <<J!Usr(q)>>
<1> DEFINE s == <<J!Usr(p)>>
<1>1. s # <<>> /\ s[1] = J!Usr(p)
  BY One
<1>2. \A q, r : <<J!Alrm(q), J!Usr(r)>> # s
  BY Two
<1>3. \A q : s = <<J!Usr(q)>> => p = q
  <2> SUFFICES ASSUME NEW q, s = <<J!Usr(q)>> PROVE p = q
    OBVIOUS
  <2>1. J!Usr(p) = J!Usr(q)
    BY <1>1, One
  <2> QED
    BY <2>1 DEF J!Usr
<1>4. \A q : [s EXCEPT ![1].pc = q] = <<J!Usr(q)>>
  <2> TAKE q
  <2>1. [J!Usr(p) EXCEPT !.pc = q] = J!Usr(q)
    BY DEF J!Usr
  <2> QED
    BY <1>1, <2>1, One
<1> QED
  BY <1>1, <1>2, <1>3, <1>4 DEF J!IsUsr, J!IsAlrm, J!Usr

LEMMA JumpAlrmStack ==
  ASSUME NEW q \in {"start", "return"}, NEW p \in {"time", "spin"}
  PROVE  LET s == <<J!Alrm(q), J!Usr(p)>>
         IN  /\ s # <<>> /\ J!IsAlrm(s) /\ ~J!IsUsr(s)
             /\ s[1].fn = "sig_alrm" /\ s[1].pc = q /\ s[1].saved = {"SIGUSR1"}
             /\ Tail(s) = <<J!Usr(p)>>
             /\ \A r : s # <<J!Usr(r)>>
             /\ \A r : [s EXCEPT ![1].pc = r] = <<J!Alrm(r), J!Usr(p)>>
<1> DEFINE s == <<J!Alrm(q), J!Usr(p)>>
<1>1. s # <<>> /\ s[1] = J!Alrm(q) /\ Tail(s) = <<J!Usr(p)>> /\ \A r : <<J!Usr(r)>> # s
  BY Two
<1>2. \A r : [s EXCEPT ![1].pc = r] = <<J!Alrm(r), J!Usr(p)>>
  <2> TAKE r
  <2>1. [J!Alrm(q) EXCEPT !.pc = r] = J!Alrm(r)
    BY DEF J!Alrm
  <2> QED
    BY <1>1, <2>1, Two
<1> QED
  BY <1>1, <1>2 DEF J!IsUsr, J!IsAlrm, J!Alrm

LEMMA JumpBounds == ASSUME J!IInv PROVE alarm \in 0 .. 3 /\ elapsed \in 0 .. 6
<1>1. alarm \in 0 .. J!AlarmTime /\ elapsed \in 0 .. J!SpinTime + 1
  BY DEF J!IInv, J!TypeOK
<1> QED
  BY <1>1 DEF J!AlarmTime, J!SpinTime

LEMMA JumpNoStack == ~J!IsUsr(<<>>) /\ ~J!IsAlrm(<<>>) /\ \A p : <<>> # <<J!Usr(p)>>
BY One, Two DEF J!IsUsr, J!IsAlrm

\* What the invariant says when sig_usr1, or sig_alrm inside it, is at a place.
LEMMA JumpInUsr ==
  ASSUME J!IInv, NEW p \in J!UsrPlaces, J!InHandler("sig_usr1", p)
  PROVE  /\ stack = <<J!Usr(p)>> /\ mpc \notin J!Ends /\ sig.mask = {"SIGUSR1"}
         /\ "SIGALRM" \notin sig.pending
         /\ ~(option = 0 /\ J!Jumped)
<1>1. stack # <<>> /\ stack[1].fn = "sig_usr1" /\ stack[1].pc = p
      /\ J!Deliverable(sig) = {} /\ mpc \notin J!Ends
  BY DEF J!InHandler
<1>2. ~J!IsAlrm(stack)
  BY <1>1, JumpAlrmStack DEF J!IsAlrm
<1>3. J!IsUsr(stack)
  BY <1>1, <1>2 DEF J!IInv, J!TypeOK
<1>4. PICK q \in J!UsrPlaces : stack = <<J!Usr(q)>>
  BY <1>3 DEF J!IsUsr
<1>5. q = p
  BY <1>1, <1>4, JumpUsrStack
<1>6. sig.mask = {"SIGUSR1"}
  BY <1>3 DEF J!IInv, J!Masked
<1> QED
  BY <1>1, <1>4, <1>5, <1>6 DEF J!IInv, J!Masked, J!Deliverable

LEMMA JumpInAlrm ==
  ASSUME J!IInv, NEW p \in {"start", "return"}, stack # <<>>, stack[1].pc = p,
         p = "start" => stack[1].fn = "sig_alrm"
  PROVE  /\ J!IsAlrm(stack) /\ sig.mask = {"SIGUSR1", "SIGALRM"}
         /\ \E r \in {"time", "spin"} : stack = <<J!Alrm(p), J!Usr(r)>>
<1>1. ASSUME J!IsUsr(stack) PROVE FALSE
  <2>1. PICK q \in J!UsrPlaces : stack = <<J!Usr(q)>>
    BY <1>1 DEF J!IsUsr
  <2>2. stack[1].pc = q /\ stack[1].fn = "sig_usr1"
    BY <2>1, JumpUsrStack
  <2> QED
    BY <2>2 DEF J!UsrPlaces
<1>2. J!IsAlrm(stack)
  BY <1>1 DEF J!IInv, J!TypeOK
<1>3. PICK q \in {"start", "return"}, r \in {"time", "spin"} : stack = <<J!Alrm(q), J!Usr(r)>>
  BY <1>2 DEF J!IsAlrm
<1>4. q = p
  BY <1>3, JumpAlrmStack
<1> QED
  BY <1>2, <1>3, <1>4 DEF J!IInv, J!Masked

---------------------------------------------------------------------------
\* The log: nothing is shown, or one line that fits those before it.
LEMMA JumpSameLog ==
  ASSUME J!IInv, UNCHANGED <<option, log>>
  PROVE  /\ J!MasksShown' /\ log' \in Seq(JumpEntries)
         /\ \A line : J!Last(line)' <=> J!Last(line)
         /\ (\A k \in DOMAIN log' : ~J!IsEnding(k)') <=> (\A k \in DOMAIN log : ~J!IsEnding(k))
BY DEF J!IInv, J!TypeOK, J!MasksShown, J!MaskShown, J!Last, J!IsEnding, JumpEntries

\* MaskShown and MasksShown of a given log.
JumpMaskIs(e, o) == e.mask = CASE e.line = "alrm"   -> {"SIGUSR1", "SIGALRM"}
                           [] e.line = "ending" -> IF o = 1 THEN {} ELSE {"SIGUSR1"}
                           [] OTHER             -> {"SIGUSR1"}
JumpFits(l, k, o) == /\ JumpMaskIs(l[k], o)
                     /\ l[k].line = "finishing" => k > 1 /\ l[k - 1].line = "alrm"
                     /\ l[k].line = "alrm"      => k > 1 /\ l[k - 1].line = "starting"

LEMMA JumpShownIs == /\ J!MasksShown  <=> \A k \in DOMAIN log  : JumpFits(log, k, option)
                     /\ J!MasksShown' <=> \A k \in DOMAIN log' : JumpFits(log', k, option')
BY DEF J!MasksShown, J!MaskShown, JumpFits, JumpMaskIs

LEMMA JumpShown ==
  ASSUME J!IInv, NEW line \in J!Lines, J!PrMask(line), option' = option,
         JumpMaskIs([line |-> line, mask |-> sig.mask], option),
         line = "finishing" => J!Last("alrm"), line = "alrm" => J!Last("starting")
  PROVE  /\ J!MasksShown' /\ log' \in Seq(JumpEntries) /\ J!Last(line)'
         /\ DOMAIN log' = DOMAIN log \cup {Len(log) + 1} /\ Len(log) + 1 \notin DOMAIN log
         /\ \A k \in DOMAIN log : log'[k] = log[k]
         /\ log'[Len(log) + 1].line = line
<1> DEFINE new == [line |-> line, mask |-> sig.mask]
           n   == Len(log)
<1>1. log \in Seq(JumpEntries) /\ new \in JumpEntries /\ log' = Append(log, new)
  BY DEF J!IInv, J!TypeOK, JumpEntries, J!PrMask, J!SignalState
<1>2. new.line = line /\ JumpMaskIs(new, option)
  OBVIOUS
<1> HIDE DEF new
<1>3. /\ log' \in Seq(JumpEntries) /\ Len(log') = n + 1 /\ n \in Nat /\ DOMAIN log = 1 .. n
      /\ DOMAIN log' = 1 .. n + 1 /\ log'[n + 1] = new
      /\ \A k \in DOMAIN log : log'[k] = log[k]
  BY <1>1
<1>4. ASSUME NEW k \in DOMAIN log PROVE JumpFits(log', k, option)
  <2>1. JumpFits(log, k, option)
    BY JumpShownIs DEF J!IInv
  <2>2. k > 1 => k - 1 \in DOMAIN log
    BY <1>3
  <2> QED
    BY <1>3, <2>1, <2>2 DEF JumpFits
<1>5. \A l : J!Last(l) => n >= 1 /\ n \in DOMAIN log /\ log[n].line = l
  <2>1. log # <<>> => n >= 1 /\ n \in DOMAIN log
    BY <1>1, <1>3
  <2> QED
    BY <2>1 DEF J!Last
<1>6. ASSUME NEW l, J!Last(l) PROVE n + 1 > 1 /\ log'[n + 1 - 1].line = l
  <2>1. n >= 1 /\ log'[n].line = l /\ n + 1 - 1 = n
    BY <1>3, <1>5, <1>6
  <2> QED
    BY <1>3, <2>1
<1>7. JumpFits(log', n + 1, option)
  BY <1>2, <1>3, <1>6 DEF JumpFits
<1>8. J!MasksShown'
  <2>1. \A k \in DOMAIN log' : JumpFits(log', k, option)
    BY <1>3, <1>4, <1>7
  <2> QED
    BY <2>1, JumpShownIs
<1>9. J!Last(line)'
  BY <1>1, <1>2, <1>3 DEF J!Last
<1> QED
  BY <1>2, <1>3, <1>8, <1>9

---------------------------------------------------------------------------
\* Init establishes the invariant.
LEMMA JumpInitIInv == ASSUME MaxSent \in Nat, J!Init PROVE J!IInv
<1>1. /\ sig \in JumpSigs /\ sig.pending = {} /\ sig.mask = {}
      /\ sig.act["SIGUSR1"] = J!Default /\ sig.act["SIGALRM"] = J!Default
  BY DEF J!Init, J!NoActions, JumpSigs, J!SignalState, J!Signals, J!Default
<1>2. J!TypeOK
  <2>1. alarm = 0 /\ elapsed = 0 /\ sent = 0
    BY DEF J!Init
  <2>2. alarm \in 0 .. J!AlarmTime /\ elapsed \in 0 .. J!SpinTime + 1 /\ sent \in 0 .. MaxSent
    BY <2>1 DEF J!AlarmTime, J!SpinTime
  <2>3. log = <<>>
    BY DEF J!Init
  <2>4. log \in Seq([line : J!Lines, mask : SUBSET J!Signals])
    BY <2>3
  <2> QED
    BY <1>1, <2>2, <2>4 DEF J!Init, J!TypeOK, JumpSigs
<1>3. J!Installed /\ J!Masked /\ J!Canjump
  BY <1>1, JumpNoStack DEF J!Init, J!Installed, J!Masked, J!Jumped, J!Canjump
<1>4. J!AlarmOnTime /\ J!LastShown
  <2>1. alarm = 0 /\ stack = <<>>
    BY DEF J!Init
  <2>2. ~J!Due
    BY <1>1, <2>1 DEF J!Due
  <2>3. ~J!Waiting
    BY <2>1, JumpNoStack DEF J!Waiting
  <2> QED
    BY <1>1, <2>1, <2>2, <2>3, JumpNoStack DEF J!AlarmOnTime, J!LastShown, J!Due
<1>5. J!NoEnding /\ J!MasksShown /\ J!JumpsOnce
  <2>1. log = <<>> /\ mpc # "undefined"
    BY DEF J!Init
  <2>2. DOMAIN log = {}
    BY <2>1
  <2> QED
    BY <2>1, <2>2 DEF J!NoEnding, J!MasksShown, J!JumpsOnce
<1> QED
  BY <1>2, <1>3, <1>4, <1>5 DEF J!IInv

\* Without a handler there is no alarm to wait for.
LEMMA JumpAtRest ==
  ASSUME stack' = <<>>, alarm' = 0, "SIGALRM" \notin sig'.pending
  PROVE  J!AlarmOnTime' /\ J!LastShown'
BY JumpNoStack DEF J!AlarmOnTime, J!LastShown, J!Due, J!Waiting

\* Steps of main that show nothing.
LEMMA JumpQuietStep ==
  ASSUME J!IInv, UNCHANGED <<option, could, log>>, mpc' # "undefined",
         option = 0 /\ mpc \in {"exit", "ended"} => mpc' \in {"exit", "ended"}
  PROVE  J!NoEnding' /\ J!MasksShown' /\ J!JumpsOnce' /\ log' \in Seq(JumpEntries)
<1>1. J!MasksShown' /\ log' \in Seq(JumpEntries)
  BY JumpSameLog
<1>2. J!NoEnding'
  BY DEF J!IInv, J!NoEnding, J!IsEnding
<1>3. J!JumpsOnce'
  BY DEF J!IInv, J!JumpsOnce, J!IsEnding
<1> QED
  BY <1>1, <1>2, <1>3

LEMMA JumpMainIInv == ASSUME J!IInv, J!MainStep PROVE J!IInv'
<1>1. /\ stack = <<>> /\ stack' = <<>> /\ alarm = 0 /\ "SIGALRM" \notin sig.pending
      /\ UNCHANGED <<option, could, alarm, elapsed, sent>>
  <2>1. stack = <<>> /\ stack' = <<>> /\ UNCHANGED <<option, could, alarm, elapsed, sent>>
    BY DEF J!MainStep, J!SignalUsr1, J!SignalAlrm, J!Sigsetjmp, J!SetCanjump, J!Pause,
       J!Ending, J!Exit, J!InMain, J!jump, J!time
  <2>2. ~J!Due
    BY <2>1, JumpNoStack DEF J!IInv, J!AlarmOnTime, J!Waiting
  <2>3. alarm \in 0 .. 3
    BY JumpBounds
  <2> QED
    BY <2>1, <2>2, <2>3 DEF J!Due
<1>2. sig \in JumpSigs
  BY DEF J!IInv, J!TypeOK, JumpSigs
<1>3. sig.mask = IF option = 0 /\ J!Jumped THEN {"SIGUSR1"} ELSE {}
  BY <1>1 DEF J!IInv, J!Masked
<1>4. ASSUME J!SignalUsr1 \/ J!SignalAlrm PROVE J!IInv'
  <2>1. PICK s \in J!Signals, f \in {"sig_usr1", "sig_alrm"} :
          /\ sig' = J!Install(sig, s, J!Catch(f, {}))
          /\ s = "SIGUSR1" => f = "sig_usr1"
          /\ s = "SIGALRM" => f = "sig_alrm"
    BY <1>4 DEF J!SignalUsr1, J!SignalAlrm, J!Signal, J!Signals
  <2>2. /\ sig' \in JumpSigs /\ sig'.mask = sig.mask /\ sig'.pending = sig.pending
        /\ sig'.act = [sig.act EXCEPT ![s] = J!Catch(f, {})]
    BY <1>2, <2>1, JumpCaught
  <2>3. /\ UNCHANGED <<jmpmask, canjump, log>>
        /\ \/ mpc = "signal usr1" /\ mpc' = "signal alrm"
           \/ mpc = "signal alrm" /\ mpc' = "sigsetjmp"
    BY <1>4 DEF J!SignalUsr1, J!SignalAlrm, J!InMain, J!jump
  <2>4. J!Installed'
    BY <1>2, <2>1, <2>2 DEF J!IInv, J!Installed, JumpSigs, J!SignalState, J!Signals
  <2>5. J!TypeOK'
    BY <1>1, <2>2, <2>3 DEF J!IInv, J!TypeOK, JumpSigs
  <2>6. J!Masked' /\ J!Canjump'
    BY <1>1, <1>3, <2>2, <2>3, JumpNoStack DEF J!IInv, J!Masked, J!Jumped, J!Canjump
  <2>7. J!AlarmOnTime' /\ J!LastShown'
    BY <1>1, <2>2, JumpAtRest
  <2>8. J!NoEnding' /\ J!MasksShown' /\ J!JumpsOnce'
    BY <1>1, <2>3, JumpQuietStep
  <2> QED
    BY <2>4, <2>5, <2>6, <2>7, <2>8 DEF J!IInv
<1>5. ASSUME J!Sigsetjmp \/ J!SetCanjump \/ J!Pause \/ J!Exit PROVE J!IInv'
  <2>1. /\ UNCHANGED <<sig, log>>
        /\ \/ /\ mpc = "sigsetjmp" /\ mpc' = "canjump" /\ UNCHANGED canjump
              /\ jmpmask' = IF option = 1 THEN sig.mask ELSE jmpmask
           \/ mpc = "canjump" /\ mpc' = "pause" /\ canjump' = 1 /\ UNCHANGED jmpmask
           \/ mpc = "pause" /\ mpc' = "pausing" /\ UNCHANGED <<canjump, jmpmask>>
           \/ mpc = "exit" /\ mpc' = "ended" /\ UNCHANGED <<canjump, jmpmask>>
    BY <1>5 DEF J!Sigsetjmp, J!SetCanjump, J!Pause, J!Exit, J!InMain, J!jump
  <2>2. jmpmask' = {}
    BY <1>3, <2>1 DEF J!Jumped, J!IInv, J!TypeOK
  <2>3. J!TypeOK' /\ J!Installed'
    BY <1>1, <2>1, <2>2 DEF J!IInv, J!TypeOK, J!Installed, J!Ends
  <2>4. J!Masked' /\ J!Canjump'
    BY <1>1, <1>3, <2>1, JumpNoStack DEF J!IInv, J!Masked, J!Jumped, J!Canjump
  <2>5. J!AlarmOnTime' /\ J!LastShown'
    BY <1>1, <2>1, JumpAtRest
  <2>6. J!NoEnding' /\ J!MasksShown' /\ J!JumpsOnce'
    BY <1>1, <2>1, JumpQuietStep
  <2> QED
    BY <2>3, <2>4, <2>5, <2>6 DEF J!IInv
<1>6. ASSUME J!Ending PROVE J!IInv'
  <2>1. /\ mpc = "ending" /\ mpc' = "exit" /\ J!PrMask("ending")
        /\ UNCHANGED <<sig, canjump, jmpmask>>
    BY <1>6 DEF J!Ending, J!InMain, J!jump
  <2>2. JumpMaskIs([line |-> "ending", mask |-> sig.mask], option)
    BY <1>3, <2>1 DEF J!Jumped, JumpMaskIs, J!IInv, J!TypeOK
  <2>3. /\ J!MasksShown' /\ log' \in Seq(JumpEntries)
        /\ DOMAIN log' = DOMAIN log \cup {Len(log) + 1}
        /\ \A k \in DOMAIN log : log'[k] = log[k]
    BY <1>1, <2>1, <2>2, JumpShown DEF J!Lines
  <2>4. J!TypeOK' /\ J!Installed'
    BY <1>1, <2>1, <2>3 DEF J!IInv, J!TypeOK, J!Installed, JumpEntries
  <2>5. J!Masked' /\ J!Canjump'
    BY <1>1, <1>3, <2>1, JumpNoStack DEF J!IInv, J!Masked, J!Jumped, J!Canjump
  <2>6. J!AlarmOnTime' /\ J!LastShown'
    BY <1>1, <2>1, JumpAtRest
  <2>7. J!NoEnding'
    BY <2>1 DEF J!NoEnding
  <2>8. J!JumpsOnce'
    <3>1. option = 0 => \A k \in DOMAIN log : log[k].line # "ending"
      BY <2>1 DEF J!IInv, J!NoEnding, J!IsEnding
    <3>2. option = 0 => \A k \in DOMAIN log' : log'[k].line = "ending" => k = Len(log) + 1
      BY <2>3, <3>1
    <3>3. option = 0 => \A j, k \in DOMAIN log' :
                          log'[j].line = "ending" /\ log'[k].line = "ending" => j = k
      BY <3>2
    <3> QED
      BY <1>1, <2>1, <3>3 DEF J!JumpsOnce, J!IsEnding
  <2> QED
    BY <2>3, <2>4, <2>5, <2>6, <2>7, <2>8 DEF J!IInv
<1> QED
  BY <1>4, <1>5, <1>6 DEF J!MainStep

---------------------------------------------------------------------------
\* A handler has gone on, or another one has started or returned.
LEMMA JumpHandling ==
  ASSUME J!IInv, ~(option = 0 /\ J!Jumped), mpc \notin J!Ends,
         UNCHANGED <<mpc, option, jmpmask, canjump, could, sent>>
  PROVE  /\ J!Canjump' \/ (stack = <<>> /\ stack' # <<>>)
         /\ \/ UNCHANGED log
            \/ \E line \in J!Lines \ {"ending"} :
                   /\ DOMAIN log' = DOMAIN log \cup {Len(log) + 1}
                   /\ \A k \in DOMAIN log : log'[k] = log[k]
                   /\ log'[Len(log) + 1].line = line
            => J!NoEnding' /\ J!JumpsOnce'
<1>1. J!Canjump' \/ (stack = <<>> /\ stack' # <<>>)
  BY DEF J!IInv, J!Canjump
<1>2. option = 0 => \A k \in DOMAIN log : log[k].line # "ending"
  BY DEF J!IInv, J!NoEnding, J!Jumped, J!IsEnding
<1>3. mpc' # "undefined"
  BY DEF J!Ends
<1>4. ASSUME option = 0 => \A k \in DOMAIN log' : log'[k].line # "ending"
      PROVE  J!NoEnding' /\ J!JumpsOnce'
  BY <1>3, <1>4 DEF J!NoEnding, J!JumpsOnce, J!IsEnding
<1>5. CASE UNCHANGED log
  BY <1>1, <1>2, <1>4, <1>5
<1>6. ASSUME NEW line \in J!Lines \ {"ending"},
             DOMAIN log' = DOMAIN log \cup {Len(log) + 1},
             \A k \in DOMAIN log : log'[k] = log[k],
             log'[Len(log) + 1].line = line
      PROVE  J!NoEnding' /\ J!JumpsOnce'
  <2>1. option = 0 => \A k \in DOMAIN log' : log'[k].line # "ending"
    BY <1>2, <1>6
  <2> QED
    BY <1>4, <2>1
<1> QED
  BY <1>1, <1>5, <1>6

\* sig_usr1 goes on: the mask and what is installed stay.
LEMMA JumpUsrGoesOn ==
  ASSUME J!IInv, NEW p \in J!UsrPlaces, NEW q \in J!UsrPlaces, J!InHandler("sig_usr1", p),
         J!HandlerGoto(q), UNCHANGED <<sig, mpc, option, jmpmask, canjump, could, sent>>
  PROVE  /\ stack' = <<J!Usr(q)>> /\ J!Masked' /\ J!Installed' /\ J!Canjump'
         /\ stack' = <<>> \/ J!IsUsr(stack') \/ J!IsAlrm(stack')
         /\ J!Waiting <=> p \in {"time", "spin"}
         /\ J!Waiting' <=> q \in {"time", "spin"}
         /\ \A r \in J!UsrPlaces : stack' = <<J!Usr(r)>> <=> q = r
         /\ \A r \in J!UsrPlaces : stack  = <<J!Usr(r)>> <=> p = r
         /\ ~J!IsAlrm(stack) /\ ~J!IsAlrm(stack')
<1>1. stack = <<J!Usr(p)>> /\ mpc \notin J!Ends /\ sig.mask = {"SIGUSR1"} /\ ~(option = 0 /\ J!Jumped)
  BY JumpInUsr
<1>2. stack' = <<J!Usr(q)>>
  BY <1>1, JumpUsrStack DEF J!HandlerGoto
<1>3. /\ stack # <<>> /\ J!IsUsr(stack) /\ ~J!IsAlrm(stack)
      /\ \A r \in J!UsrPlaces : stack  = <<J!Usr(r)>> <=> p = r
  BY <1>1, JumpUsrStack
<1>4. /\ stack' # <<>> /\ J!IsUsr(stack') /\ ~J!IsAlrm(stack')
      /\ \A r \in J!UsrPlaces : stack'  = <<J!Usr(r)>> <=> q = r
  BY <1>2, JumpUsrStack
<1>5. J!Masked'
  BY <1>1, <1>4 DEF J!Masked, J!Jumped
<1>6. J!Installed' /\ J!Canjump'
  BY <1>1, <1>3, JumpHandling DEF J!IInv, J!Installed
<1>7. J!Waiting <=> p \in {"time", "spin"}
  BY <1>3 DEF J!Waiting, J!UsrPlaces
<1>8. J!Waiting' <=> q \in {"time", "spin"}
  BY <1>4 DEF J!Waiting, J!UsrPlaces
<1> QED
  BY <1>2, <1>3, <1>4, <1>5, <1>6, <1>7, <1>8

LEMMA JumpUsrStartIInv == ASSUME J!IInv, J!UsrStart PROVE J!IInv'
<1>1. /\ J!InHandler("sig_usr1", "start") /\ J!HandlerGoto("alarm") /\ J!PrMask("starting")
      /\ UNCHANGED <<sig, mpc, option, jmpmask, canjump, could, sent, alarm, elapsed>>
  BY DEF J!UsrStart, J!jump, J!time
<1>2. /\ stack = <<J!Usr("start")>> /\ ~(option = 0 /\ J!Jumped) /\ mpc \notin J!Ends
      /\ sig.mask = {"SIGUSR1"}
  BY <1>1, JumpInUsr DEF J!UsrPlaces
<1>3. /\ stack' = <<J!Usr("alarm")>> /\ J!Masked' /\ J!Installed' /\ J!Canjump'
      /\ J!IsUsr(stack') /\ ~J!IsAlrm(stack') /\ ~J!Waiting /\ ~J!Waiting'
      /\ stack' # <<J!Usr("finish")>> /\ stack' # <<J!Usr("spin")>>
  BY <1>1, JumpUsrGoesOn, JumpUsrStack DEF J!UsrPlaces
<1>4. JumpMaskIs([line |-> "starting", mask |-> sig.mask], option)
  BY <1>2 DEF JumpMaskIs
<1>5. /\ J!MasksShown' /\ log' \in Seq(JumpEntries) /\ J!Last("starting")'
      /\ DOMAIN log' = DOMAIN log \cup {Len(log) + 1}
      /\ \A k \in DOMAIN log : log'[k] = log[k]
      /\ log'[Len(log) + 1].line = "starting"
  BY <1>1, <1>4, JumpShown DEF J!Lines
<1>6. J!NoEnding' /\ J!JumpsOnce'
  BY <1>1, <1>2, <1>5, JumpHandling DEF J!Lines
<1>7. ~J!Due /\ ~J!Due' /\ "SIGALRM" \notin sig'.pending
  BY <1>1, <1>3 DEF J!IInv, J!AlarmOnTime, J!Due
<1>8. J!AlarmOnTime' /\ J!LastShown'
  BY <1>3, <1>5, <1>7 DEF J!AlarmOnTime, J!LastShown
<1>9. J!TypeOK'
  BY <1>1, <1>3, <1>5 DEF J!IInv, J!TypeOK, JumpEntries
<1> QED
  BY <1>3, <1>5, <1>6, <1>8, <1>9 DEF J!IInv

LEMMA JumpUsrAlarmIInv == ASSUME J!IInv, J!UsrAlarm PROVE J!IInv'
<1>1. /\ J!InHandler("sig_usr1", "alarm") /\ J!HandlerGoto("time") /\ alarm' = J!AlarmTime
      /\ UNCHANGED <<sig, mpc, option, jmpmask, canjump, could, sent, elapsed, log>>
  BY DEF J!UsrAlarm, J!jump
<1>2. /\ stack = <<J!Usr("alarm")>> /\ ~(option = 0 /\ J!Jumped) /\ mpc \notin J!Ends
      /\ "SIGALRM" \notin sig.pending
  BY <1>1, JumpInUsr DEF J!UsrPlaces
<1>3. /\ stack' = <<J!Usr("time")>> /\ J!Masked' /\ J!Installed' /\ J!Canjump'
      /\ J!IsUsr(stack') /\ ~J!IsAlrm(stack') /\ J!Waiting' /\ stack' # <<J!Usr("alarm")>>
      /\ stack' # <<J!Usr("finish")>> /\ stack' # <<J!Usr("spin")>>
  BY <1>1, JumpUsrGoesOn, JumpUsrStack DEF J!UsrPlaces
<1>4. J!MasksShown' /\ log' \in Seq(JumpEntries) /\ J!NoEnding' /\ J!JumpsOnce'
  BY <1>1, <1>2, JumpSameLog, JumpHandling
<1>5. alarm' > 0 /\ alarm' \in 0 .. J!AlarmTime
  BY <1>1 DEF J!AlarmTime
<1>6. J!Last("starting")'
  BY <1>1, <1>2, JumpSameLog DEF J!IInv, J!LastShown
<1>7. J!Due' /\ "SIGALRM" \notin sig'.pending
  BY <1>1, <1>2, <1>5 DEF J!Due
<1>8. J!AlarmOnTime' /\ J!LastShown'
  BY <1>3, <1>6, <1>7 DEF J!AlarmOnTime, J!LastShown
<1>9. J!TypeOK'
  BY <1>1, <1>3, <1>4, <1>5 DEF J!IInv, J!TypeOK, JumpEntries
<1> QED
  BY <1>3, <1>4, <1>8, <1>9 DEF J!IInv

LEMMA JumpUsrTimeIInv == ASSUME J!IInv, J!UsrTime PROVE J!IInv'
<1>1. /\ J!InHandler("sig_usr1", "time") /\ J!HandlerGoto("spin") /\ elapsed' = 0
      /\ UNCHANGED <<sig, mpc, option, jmpmask, canjump, could, sent, alarm, log>>
  BY DEF J!UsrTime, J!jump
<1>2. ~(option = 0 /\ J!Jumped) /\ mpc \notin J!Ends
  BY <1>1, JumpInUsr DEF J!UsrPlaces
<1>3. /\ stack' = <<J!Usr("spin")>> /\ J!Masked' /\ J!Installed' /\ J!Canjump'
      /\ J!IsUsr(stack') /\ ~J!IsAlrm(stack') /\ J!Waiting /\ J!Waiting' /\ stack' # <<J!Usr("alarm")>>
      /\ stack' # <<J!Usr("finish")>>
  BY <1>1, JumpUsrGoesOn, JumpUsrStack DEF J!UsrPlaces
<1>4. /\ J!MasksShown' /\ log' \in Seq(JumpEntries) /\ J!NoEnding' /\ J!JumpsOnce'
      /\ \A line : J!Last(line)' <=> J!Last(line)
  BY <1>1, <1>2, JumpSameLog, JumpHandling
<1>5. J!Due' <=> J!Due
  BY <1>1 DEF J!Due
<1>6. alarm' + elapsed' =< J!AlarmTime /\ elapsed' \in 0 .. J!SpinTime + 1
  <2>1. alarm \in 0 .. J!AlarmTime
    BY DEF J!IInv, J!TypeOK
  <2> QED
    BY <1>1, <2>1 DEF J!AlarmTime, J!SpinTime
<1>7. J!AlarmOnTime'
  BY <1>1, <1>3, <1>6 DEF J!IInv, J!AlarmOnTime
<1>8. J!LastShown'
  BY <1>3, <1>4, <1>5 DEF J!IInv, J!LastShown
<1>9. J!TypeOK'
  BY <1>1, <1>3, <1>4, <1>6 DEF J!IInv, J!TypeOK, JumpEntries
<1> QED
  BY <1>3, <1>4, <1>7, <1>8, <1>9 DEF J!IInv

\* When sig_usr1 has waited long enough, the alarm has gone off.
LEMMA JumpUsrSpinIInv == ASSUME J!IInv, J!UsrSpin PROVE J!IInv'
<1>1. /\ J!InHandler("sig_usr1", "spin") /\ J!HandlerGoto("finish") /\ elapsed > J!SpinTime
      /\ UNCHANGED <<sig, mpc, option, jmpmask, canjump, could, sent, alarm, elapsed, log>>
  BY DEF J!UsrSpin, J!jump, J!time
<1>2. /\ stack = <<J!Usr("spin")>> /\ ~(option = 0 /\ J!Jumped) /\ mpc \notin J!Ends
      /\ "SIGALRM" \notin sig.pending
  BY <1>1, JumpInUsr DEF J!UsrPlaces
<1>3. /\ stack' = <<J!Usr("finish")>> /\ J!Masked' /\ J!Installed' /\ J!Canjump'
      /\ J!IsUsr(stack') /\ ~J!IsAlrm(stack') /\ J!Waiting /\ ~J!Waiting' /\ stack' # <<J!Usr("alarm")>>
      /\ stack' # <<J!Usr("spin")>>
  BY <1>1, JumpUsrGoesOn, JumpUsrStack DEF J!UsrPlaces
<1>4. /\ J!MasksShown' /\ log' \in Seq(JumpEntries) /\ J!NoEnding' /\ J!JumpsOnce'
      /\ \A line : J!Last(line)' <=> J!Last(line)
  BY <1>1, <1>2, JumpSameLog, JumpHandling
<1>5. ~(alarm > 0)
  <2>1. alarm > 0 => alarm + elapsed =< J!AlarmTime
    BY <1>2 DEF J!IInv, J!AlarmOnTime
  <2>2. alarm \in 0 .. 3 /\ elapsed \in 0 .. 6
    BY JumpBounds
  <2> QED
    BY <1>1, <2>1, <2>2 DEF J!AlarmTime, J!SpinTime
<1>6. ~J!Due /\ ~J!Due' /\ "SIGALRM" \notin sig'.pending
  BY <1>1, <1>2, <1>5 DEF J!Due
<1>7. J!AlarmOnTime' /\ J!LastShown'
  BY <1>3, <1>4, <1>6 DEF J!IInv, J!AlarmOnTime, J!LastShown
<1>8. J!TypeOK'
  BY <1>1, <1>3, <1>4 DEF J!IInv, J!TypeOK, JumpEntries
<1> QED
  BY <1>3, <1>4, <1>7, <1>8 DEF J!IInv

LEMMA JumpUsrFinishIInv == ASSUME J!IInv, J!UsrFinish PROVE J!IInv'
<1>1. /\ J!InHandler("sig_usr1", "finish") /\ J!HandlerGoto("siglongjmp") /\ J!PrMask("finishing")
      /\ UNCHANGED <<sig, mpc, option, jmpmask, canjump, could, sent, alarm, elapsed>>
  BY DEF J!UsrFinish, J!jump, J!time
<1>2. /\ stack = <<J!Usr("finish")>> /\ ~(option = 0 /\ J!Jumped) /\ mpc \notin J!Ends
      /\ sig.mask = {"SIGUSR1"}
  BY <1>1, JumpInUsr DEF J!UsrPlaces
<1>3. /\ stack' = <<J!Usr("siglongjmp")>> /\ J!Masked' /\ J!Installed' /\ J!Canjump'
      /\ J!IsUsr(stack') /\ ~J!IsAlrm(stack') /\ ~J!Waiting /\ ~J!Waiting'
      /\ stack' # <<J!Usr("finish")>> /\ stack' # <<J!Usr("alarm")>> /\ stack' # <<J!Usr("spin")>>
  BY <1>1, JumpUsrGoesOn, JumpUsrStack DEF J!UsrPlaces
<1>4. JumpMaskIs([line |-> "finishing", mask |-> sig.mask], option)
  BY <1>2 DEF JumpMaskIs
<1>5. /\ J!MasksShown' /\ log' \in Seq(JumpEntries)
      /\ DOMAIN log' = DOMAIN log \cup {Len(log) + 1}
      /\ \A k \in DOMAIN log : log'[k] = log[k]
      /\ log'[Len(log) + 1].line = "finishing"
  <2>1. J!Last("alrm")
    BY <1>2 DEF J!IInv, J!LastShown
  <2> QED
    BY <1>1, <1>4, <2>1, JumpShown DEF J!Lines
<1>6. J!NoEnding' /\ J!JumpsOnce'
  BY <1>1, <1>2, <1>5, JumpHandling DEF J!Lines
<1>7. ~J!Due /\ ~J!Due' /\ "SIGALRM" \notin sig'.pending
  BY <1>1, <1>3 DEF J!IInv, J!AlarmOnTime, J!Due
<1>8. J!AlarmOnTime' /\ J!LastShown'
  BY <1>3, <1>5, <1>7 DEF J!AlarmOnTime, J!LastShown
<1>9. J!TypeOK'
  BY <1>1, <1>3, <1>5 DEF J!IInv, J!TypeOK, JumpEntries
<1> QED
  BY <1>3, <1>5, <1>6, <1>8, <1>9 DEF J!IInv

\* siglongjmp restores the mask that sigsetjmp saved, if it did.
LEMMA JumpUsrJumpIInv == ASSUME J!IInv, J!UsrJump PROVE J!IInv'
<1>1. /\ J!InHandler("sig_usr1", "siglongjmp") /\ stack' = <<>> /\ canjump' = 0
      /\ mpc' = IF J!JumpDefined THEN "ending" ELSE "undefined"
      /\ sig' = IF option = 1 THEN J!SetMask(sig, jmpmask) ELSE sig
      /\ UNCHANGED <<option, jmpmask, could, sent, alarm, elapsed, log>>
  BY DEF J!UsrJump, J!Siglongjmp, J!time
<1>2. /\ stack = <<J!Usr("siglongjmp")>> /\ ~(option = 0 /\ J!Jumped) /\ mpc \notin J!Ends
      /\ sig.mask = {"SIGUSR1"} /\ "SIGALRM" \notin sig.pending
  BY <1>1, JumpInUsr DEF J!UsrPlaces
<1>3. stack # <<>> /\ ~J!Waiting
  BY <1>2, JumpUsrStack DEF J!Waiting, J!UsrPlaces
<1>4. alarm = 0
  <2>1. ~J!Due /\ alarm \in 0 .. 3
    BY <1>3, JumpBounds DEF J!IInv, J!AlarmOnTime
  <2> QED
    BY <2>1 DEF J!Due
<1>5. /\ sig' \in JumpSigs /\ sig'.pending = sig.pending /\ sig'.act = sig.act
      /\ sig'.mask = IF option = 0 THEN {"SIGUSR1"} ELSE {}
  <2>1. sig \in JumpSigs /\ option \in {0, 1} /\ jmpmask = {}
    BY DEF J!IInv, J!TypeOK, JumpSigs
  <2>2. CASE option = 1
    <3>1. sig' = J!SetMask(sig, {})
      BY <1>1, <2>1, <2>2
    <3> QED
      BY <2>1, <2>2, <3>1, JumpMaskSet
  <2>3. CASE option = 0
    BY <1>1, <1>2, <2>1, <2>3
  <2> QED
    BY <2>1, <2>2, <2>3
<1>6. mpc' \in {"ending", "undefined"}
  BY <1>1
<1>7. J!Masked' /\ J!Installed'
  BY <1>1, <1>5, <1>6, JumpNoStack DEF J!Masked, J!Jumped, J!IInv, J!Installed
<1>8. J!AlarmOnTime' /\ J!LastShown'
  BY <1>1, <1>2, <1>4, <1>5, JumpAtRest
<1>9. J!MasksShown' /\ log' \in Seq(JumpEntries)
  BY <1>1, JumpSameLog
<1>10. mpc' = "undefined" => could = 0
  BY <1>1, <1>2, <1>3 DEF J!JumpDefined, J!IInv, J!Canjump, J!Ends
<1>11. J!Canjump'
  BY <1>1, <1>10 DEF J!Canjump
<1>12. option = 0 => \A k \in DOMAIN log : ~(log[k].line = "ending")
  BY <1>2 DEF J!IInv, J!NoEnding, J!Jumped, J!IsEnding
<1>13. J!NoEnding' /\ J!JumpsOnce'
  BY <1>1, <1>10, <1>12 DEF J!NoEnding, J!JumpsOnce, J!IsEnding
<1>14. J!TypeOK'
  BY <1>1, <1>5, <1>6, <1>9 DEF J!IInv, J!TypeOK, JumpSigs, JumpEntries, J!Ends
<1> QED
  BY <1>7, <1>8, <1>9, <1>11, <1>13, <1>14 DEF J!IInv

LEMMA JumpAlrmStartIInv == ASSUME J!IInv, J!AlrmStart PROVE J!IInv'
<1>1. /\ stack # <<>> /\ stack[1].fn = "sig_alrm" /\ stack[1].pc = "start"
      /\ mpc \notin J!Ends /\ J!HandlerGoto("return") /\ J!PrMask("alrm")
      /\ UNCHANGED <<sig, mpc, option, jmpmask, canjump, could, sent, alarm, elapsed>>
  BY DEF J!AlrmStart, J!InHandler, J!jump, J!time
<1>2. PICK r \in {"time", "spin"} : stack = <<J!Alrm("start"), J!Usr(r)>>
  BY <1>1, JumpInAlrm
<1>3. sig.mask = {"SIGUSR1", "SIGALRM"} /\ ~(option = 0 /\ J!Jumped) /\ J!IsAlrm(stack)
  BY <1>1, JumpInAlrm DEF J!IInv, J!Masked
<1>4. stack' = <<J!Alrm("return"), J!Usr(r)>>
  BY <1>1, <1>2, JumpAlrmStack DEF J!HandlerGoto
<1>5. /\ stack' # <<>> /\ J!IsAlrm(stack') /\ ~J!IsUsr(stack') /\ stack'[1].pc = "return"
      /\ \A q : stack' # <<J!Usr(q)>>
  BY <1>4, JumpAlrmStack
<1>6. \A q : stack # <<J!Usr(q)>>
  BY <1>2, JumpAlrmStack
<1>7. ~J!Waiting /\ ~J!Waiting'
  BY <1>5, <1>6 DEF J!Waiting
<1>8. ~J!Due /\ ~J!Due' /\ "SIGALRM" \notin sig'.pending
  BY <1>1, <1>7 DEF J!IInv, J!AlarmOnTime, J!Due
<1>9. JumpMaskIs([line |-> "alrm", mask |-> sig.mask], option)
  BY <1>3 DEF JumpMaskIs
<1>10. /\ J!MasksShown' /\ log' \in Seq(JumpEntries) /\ J!Last("alrm")'
       /\ DOMAIN log' = DOMAIN log \cup {Len(log) + 1}
       /\ \A k \in DOMAIN log : log'[k] = log[k]
       /\ log'[Len(log) + 1].line = "alrm"
  <2>1. J!Last("starting")
    BY <1>1, <1>3 DEF J!IInv, J!LastShown
  <2> QED
    BY <1>1, <1>9, <2>1, JumpShown DEF J!Lines
<1>11. J!NoEnding' /\ J!JumpsOnce'
  BY <1>1, <1>3, <1>10, JumpHandling DEF J!Lines
<1>12. J!Masked' /\ J!Installed' /\ J!Canjump'
  BY <1>1, <1>3, <1>5, JumpHandling DEF J!Masked, J!Jumped, J!IInv, J!Installed
<1>13. J!AlarmOnTime' /\ J!LastShown'
  BY <1>5, <1>7, <1>8, <1>10 DEF J!AlarmOnTime, J!LastShown
<1>14. J!TypeOK'
  BY <1>1, <1>5, <1>10 DEF J!IInv, J!TypeOK, JumpEntries
<1> QED
  BY <1>10, <1>11, <1>12, <1>13, <1>14 DEF J!IInv

LEMMA JumpReturnIInv == ASSUME J!IInv, J!Return PROVE J!IInv'
<1>1. /\ stack # <<>> /\ stack[1].pc = "return" /\ mpc \notin J!Ends
      /\ sig' = J!SetMask(sig, stack[1].saved) /\ stack' = Tail(stack)
      /\ UNCHANGED <<mpc, option, jmpmask, canjump, could, sent, alarm, elapsed, log>>
  BY DEF J!Return, J!jump, J!time
<1>2. PICK r \in {"time", "spin"} : stack = <<J!Alrm("return"), J!Usr(r)>>
  BY <1>1, JumpInAlrm
<1>3. ~(option = 0 /\ J!Jumped) /\ J!IsAlrm(stack)
  BY <1>1, JumpInAlrm DEF J!IInv, J!Masked
<1>4. stack[1].saved = {"SIGUSR1"} /\ stack' = <<J!Usr(r)>> /\ r \in J!UsrPlaces
  BY <1>1, <1>2, JumpAlrmStack DEF J!UsrPlaces
<1>5. /\ stack' # <<>> /\ J!IsUsr(stack') /\ ~J!IsAlrm(stack')
      /\ \A q \in J!UsrPlaces : stack' = <<J!Usr(q)>> <=> r = q
  BY <1>4, JumpUsrStack
<1>6. /\ stack' # <<J!Usr("alarm")>> /\ stack' # <<J!Usr("finish")>> /\ J!Waiting'
  BY <1>5 DEF J!Waiting, J!UsrPlaces
<1>7. ~J!Waiting
  BY <1>2, JumpAlrmStack DEF J!Waiting
<1>8. /\ sig' \in JumpSigs /\ sig'.mask = {"SIGUSR1"} /\ sig'.act = sig.act
      /\ sig'.pending = sig.pending
  BY <1>1, <1>4, JumpMaskSet DEF J!IInv, J!TypeOK, JumpSigs, J!Signals
<1>9. ~J!Due /\ ~J!Due' /\ "SIGALRM" \notin sig'.pending /\ ~(alarm' > 0)
  BY <1>1, <1>7, <1>8 DEF J!IInv, J!AlarmOnTime, J!Due
<1>10. /\ J!MasksShown' /\ log' \in Seq(JumpEntries) /\ J!NoEnding' /\ J!JumpsOnce' /\ J!Canjump'
       /\ \A line : J!Last(line)' <=> J!Last(line)
  BY <1>1, <1>3, JumpSameLog, JumpHandling
<1>11. J!Masked' /\ J!Installed'
  BY <1>1, <1>3, <1>5, <1>8 DEF J!Masked, J!Jumped, J!IInv, J!Installed
<1>12. J!AlarmOnTime' /\ J!LastShown'
  <2>1. J!Last("alrm")
    BY <1>1, <1>3 DEF J!IInv, J!LastShown
  <2> QED
    BY <1>5, <1>6, <1>9, <1>10, <2>1 DEF J!AlarmOnTime, J!LastShown
<1>13. J!TypeOK'
  BY <1>1, <1>5, <1>8, <1>10 DEF J!IInv, J!TypeOK, JumpSigs, JumpEntries
<1> QED
  BY <1>10, <1>11, <1>12, <1>13 DEF J!IInv

---------------------------------------------------------------------------
\* Signals that come, and time that passes.
LEMMA JumpSendIInv == ASSUME MaxSent \in Nat, J!IInv, J!Send PROVE J!IInv'
<1>1. /\ sent < MaxSent /\ sent' = sent + 1 /\ sig' = J!Generate(sig, "SIGUSR1")
      /\ UNCHANGED <<mpc, stack, option, jmpmask, canjump, could, alarm, elapsed, log>>
  BY DEF J!Send, J!jump, J!time
<1>2. /\ sig' \in JumpSigs /\ sig'.mask = sig.mask /\ sig'.act = sig.act
      /\ "SIGALRM" \in sig'.pending <=> "SIGALRM" \in sig.pending
  BY <1>1, JumpGenerated DEF J!IInv, J!TypeOK, JumpSigs, J!Signals
<1>3. sent' \in 0 .. MaxSent
  <2>1. sent \in 0 .. MaxSent
    BY DEF J!IInv, J!TypeOK
  <2> QED
    BY <1>1, <2>1
<1>4. J!MasksShown' /\ log' \in Seq(JumpEntries) /\ \A line : J!Last(line)' <=> J!Last(line)
  BY <1>1, JumpSameLog
<1>5. J!TypeOK'
  BY <1>1, <1>2, <1>3, <1>4 DEF J!IInv, J!TypeOK, JumpSigs, JumpEntries
<1>6. J!Installed' /\ J!Masked' /\ J!Canjump' /\ J!NoEnding' /\ J!JumpsOnce'
  BY <1>1, <1>2 DEF J!IInv, J!Installed, J!Masked, J!Jumped, J!Canjump, J!NoEnding,
     J!JumpsOnce, J!IsEnding
<1>7. J!Due' <=> J!Due
  BY <1>1, <1>2 DEF J!Due
<1>8. J!Waiting' <=> J!Waiting
  BY <1>1 DEF J!Waiting
<1>9. J!AlarmOnTime' /\ J!LastShown'
  BY <1>1, <1>2, <1>4, <1>7, <1>8 DEF J!IInv, J!AlarmOnTime, J!LastShown
<1> QED
  BY <1>4, <1>5, <1>6, <1>9 DEF J!IInv

LEMMA JumpTickIInv == ASSUME J!IInv, J!Tick PROVE J!IInv'
<1>1. /\ mpc \notin J!Ends
      /\ alarm' = IF alarm > 0 THEN alarm - 1 ELSE 0
      /\ elapsed' = IF elapsed > J!SpinTime THEN elapsed ELSE elapsed + 1
      /\ sig' = IF alarm = 1 THEN J!Generate(sig, "SIGALRM") ELSE sig
      /\ UNCHANGED <<mpc, stack, option, jmpmask, canjump, could, log, sent>>
  BY DEF J!Tick, J!jump
<1>2. /\ sig' \in JumpSigs /\ sig'.mask = sig.mask /\ sig'.act = sig.act
      /\ "SIGALRM" \in sig'.pending <=> alarm = 1 \/ "SIGALRM" \in sig.pending
  <2>1. sig \in JumpSigs /\ J!Installed
    BY DEF J!IInv, J!TypeOK, JumpSigs
  <2>2. CASE alarm = 1
    BY <1>1, <2>1, <2>2, JumpGenerated DEF J!Signals
  <2>3. CASE alarm # 1
    BY <1>1, <2>1, <2>3
  <2> QED
    BY <2>2, <2>3
<1>3. /\ alarm' \in 0 .. J!AlarmTime /\ elapsed' \in 0 .. J!SpinTime + 1
      /\ alarm > 0 <=> alarm' > 0 \/ alarm = 1
      /\ alarm = 0 => alarm' = 0
      /\ alarm = 1 => alarm' = 0
      /\ alarm + elapsed =< J!AlarmTime /\ alarm > 0 => alarm' + elapsed' =< J!AlarmTime
  BY <1>1, JumpBounds DEF J!AlarmTime, J!SpinTime
<1>4. J!MasksShown' /\ log' \in Seq(JumpEntries) /\ \A line : J!Last(line)' <=> J!Last(line)
  BY <1>1, JumpSameLog
<1>5. J!TypeOK'
  BY <1>1, <1>2, <1>3, <1>4 DEF J!IInv, J!TypeOK, JumpSigs, JumpEntries
<1>6. J!Installed' /\ J!Masked' /\ J!Canjump' /\ J!NoEnding' /\ J!JumpsOnce'
  BY <1>1, <1>2 DEF J!IInv, J!Installed, J!Masked, J!Jumped, J!Canjump, J!NoEnding,
     J!JumpsOnce, J!IsEnding
<1>7. J!Due' <=> J!Due
  BY <1>2, <1>3 DEF J!Due
<1>8. J!Waiting' <=> J!Waiting
  BY <1>1 DEF J!Waiting
<1>9. J!AlarmOnTime'
  <2>1. "SIGALRM" \in sig'.pending => alarm' = 0
    BY <1>2, <1>3 DEF J!IInv, J!AlarmOnTime
  <2>2. alarm' > 0 /\ stack' = <<J!Usr("spin")>> => alarm' + elapsed' =< J!AlarmTime
    <3>1. alarm' > 0 => alarm > 0
      BY <1>3
    <3>2. alarm > 0 /\ stack = <<J!Usr("spin")>> => alarm + elapsed =< J!AlarmTime
      BY DEF J!IInv, J!AlarmOnTime
    <3> QED
      BY <1>1, <1>3, <3>1, <3>2
  <2> QED
    BY <1>7, <1>8, <2>1, <2>2 DEF J!IInv, J!AlarmOnTime
<1>10. J!LastShown'
  BY <1>1, <1>4, <1>7, <1>8 DEF J!IInv, J!LastShown
<1> QED
  BY <1>4, <1>5, <1>6, <1>9, <1>10 DEF J!IInv

\* A signal kills: nothing but the place of main changes.
LEMMA JumpKilledIInv ==
  ASSUME J!IInv, mpc \notin J!Ends, NEW s \in J!Deliverable(sig), mpc' = "killed",
         UNCHANGED <<sig, stack, could, option, jmpmask, canjump, J!time, log, sent>>
  PROVE  J!IInv'
<1>1. UNCHANGED <<alarm, elapsed>>
  BY DEF J!time
<1>2. ~(option = 0 /\ J!Jumped)
  <2>1. ASSUME option = 0, J!Jumped PROVE FALSE
    <3>1. stack = <<>>
      BY <2>1 DEF J!IInv, J!Masked
    <3>2. sig.mask = {"SIGUSR1"} /\ "SIGALRM" \notin sig.pending
      BY <2>1, <3>1, JumpNoStack DEF J!IInv, J!Masked, J!AlarmOnTime, J!Due, J!Waiting
    <3>3. sig.pending \subseteq {"SIGUSR1", "SIGALRM"}
      BY DEF J!IInv, J!TypeOK, J!SignalState, J!Signals
    <3> QED
      BY <3>2, <3>3 DEF J!Deliverable
  <2> QED
    BY <2>1
<1>3. J!MasksShown' /\ log' \in Seq(JumpEntries) /\ \A line : J!Last(line)' <=> J!Last(line)
  BY JumpSameLog
<1>4. J!TypeOK' /\ J!Installed' /\ J!Masked' /\ J!Canjump'
  BY <1>1, <1>2, <1>3 DEF J!IInv, J!TypeOK, JumpEntries, J!Ends, J!Installed,
     J!Masked, J!Jumped, J!Canjump
<1>5. J!NoEnding' /\ J!JumpsOnce'
  BY <1>2 DEF J!IInv, J!NoEnding, J!JumpsOnce, J!IsEnding, J!Jumped
<1>6. (J!Due' <=> J!Due) /\ (J!Waiting' <=> J!Waiting)
  BY <1>1 DEF J!Due, J!Waiting
<1>7. J!AlarmOnTime' /\ J!LastShown'
  BY <1>1, <1>3, <1>6 DEF J!IInv, J!AlarmOnTime, J!LastShown
<1> QED
  BY <1>3, <1>4, <1>5, <1>7 DEF J!IInv

\* The stack with the handler of s.
JumpWith(s) == <<[fn |-> J!Handler(sig, s), pc |-> "start", saved |-> sig.mask]>> \o stack

\* sig_usr1 starts: no other handler runs.
LEMMA JumpUsrEntersIInv ==
  ASSUME J!IInv, mpc \notin J!Ends, "SIGUSR1" \in J!Deliverable(sig), J!IsCaught(sig, "SIGUSR1"),
         sig' = J!Enter(sig, "SIGUSR1"),
         stack' = JumpWith("SIGUSR1"),
         mpc' = IF mpc = "pausing" THEN "pause" ELSE mpc, could' = canjump,
         UNCHANGED <<option, jmpmask, canjump, J!time, log, sent>>
  PROVE  J!IInv'
<1>1. UNCHANGED <<alarm, elapsed>>
  BY DEF J!time
<1>2. "SIGUSR1" \notin sig.mask
  BY DEF J!Deliverable
<1>3. stack = <<>> /\ sig.mask = {} /\ ~(option = 0 /\ J!Jumped)
  BY <1>2 DEF J!IInv, J!TypeOK, J!Masked
<1>4. J!Handler(sig, "SIGUSR1") = "sig_usr1" /\ J!Flags(sig, "SIGUSR1") = {}
  BY DEF J!IInv, J!Installed, J!IsCaught, J!Handler, J!Flags, J!Default, J!Catch
<1>5. /\ sig' \in JumpSigs /\ sig'.act = sig.act /\ sig'.mask = {"SIGUSR1"}
      /\ sig'.pending = sig.pending \ {"SIGUSR1"}
  <2>1. sig \in JumpSigs /\ "SIGUSR1" \in J!Signals
    BY DEF J!IInv, J!TypeOK, JumpSigs, J!Signals
  <2>2. /\ J!Enter(sig, "SIGUSR1") \in JumpSigs /\ J!Enter(sig, "SIGUSR1").act = sig.act
        /\ J!Enter(sig, "SIGUSR1").mask = sig.mask \cup {"SIGUSR1"}
        /\ J!Enter(sig, "SIGUSR1").pending = sig.pending \ {"SIGUSR1"}
    BY <1>4, <2>1, JumpEntered
  <2> QED
    BY <1>3, <2>2
<1>6. stack' = <<J!Usr("start")>>
  BY <1>3, <1>4, One DEF JumpWith, J!Usr
<1>7. /\ stack' # <<>> /\ J!IsUsr(stack') /\ ~J!IsAlrm(stack')
      /\ \A r \in J!UsrPlaces : stack' = <<J!Usr(r)>> <=> r = "start"
  BY <1>6, JumpUsrStack DEF J!UsrPlaces
<1>8. ~J!Waiting /\ ~J!Waiting' /\ stack' # <<J!Usr("alarm")>> /\ stack' # <<J!Usr("finish")>>
      /\ stack' # <<J!Usr("spin")>>
  BY <1>3, <1>7, JumpNoStack DEF J!Waiting, J!UsrPlaces
<1>9. ~J!Due /\ ~J!Due' /\ "SIGALRM" \notin sig'.pending
  BY <1>1, <1>5, <1>8 DEF J!IInv, J!AlarmOnTime, J!Due
<1>10. mpc' \notin J!Ends /\ (mpc' = mpc \/ mpc' = "pause")
  BY DEF J!Ends
<1>11. J!Masked' /\ J!Installed' /\ J!Canjump'
  <2>1. mpc' \notin {"pause", "pausing", "killed"} => canjump = 0
    BY <1>10 DEF J!IInv, J!Canjump, J!Ends
  <2>2. ~(option' = 0 /\ J!Jumped')
    BY <1>3 DEF J!Jumped
  <2> QED
    BY <1>5, <1>7, <1>10, <2>1, <2>2 DEF J!Masked, J!IInv, J!Installed, J!Canjump,
       J!Ends
<1>12. J!MasksShown' /\ log' \in Seq(JumpEntries)
  BY JumpSameLog
<1>13. J!AlarmOnTime' /\ J!LastShown'
  BY <1>7, <1>8, <1>9 DEF J!AlarmOnTime, J!LastShown
<1>14. J!NoEnding' /\ J!JumpsOnce'
  <2>1. option = 0 => \A k \in DOMAIN log : log[k].line # "ending"
    BY <1>3 DEF J!IInv, J!NoEnding, J!IsEnding, J!Jumped
  <2> QED
    BY <1>10, <2>1 DEF J!NoEnding, J!JumpsOnce, J!IsEnding, J!Ends
<1>15. J!TypeOK'
  BY <1>1, <1>5, <1>7, <1>10, <1>12 DEF J!IInv, J!TypeOK, JumpSigs, JumpEntries
<1> QED
  BY <1>11, <1>12, <1>13, <1>14, <1>15 DEF J!IInv

\* sig_alrm starts: sig_usr1 waits for it.
LEMMA JumpAlrmEntersIInv ==
  ASSUME J!IInv, mpc \notin J!Ends, "SIGALRM" \in J!Deliverable(sig), J!IsCaught(sig, "SIGALRM"),
         sig' = J!Enter(sig, "SIGALRM"),
         stack' = JumpWith("SIGALRM"),
         mpc' = IF mpc = "pausing" THEN "pause" ELSE mpc, could' = could,
         UNCHANGED <<option, jmpmask, canjump, J!time, log, sent>>
  PROVE  J!IInv'
<1>1. UNCHANGED <<alarm, elapsed>>
  BY DEF J!time
<1>2. "SIGALRM" \in sig.pending /\ J!Due /\ J!Waiting /\ alarm = 0
  BY DEF J!Deliverable, J!Due, J!IInv, J!AlarmOnTime
<1>3. PICK r \in {"time", "spin"} : stack = <<J!Usr(r)>>
  BY <1>2 DEF J!Waiting
<1>4. r \in J!UsrPlaces /\ J!IsUsr(stack) /\ stack # <<>>
  BY <1>3, JumpUsrStack DEF J!UsrPlaces
<1>5. sig.mask = {"SIGUSR1"} /\ ~(option = 0 /\ J!Jumped)
  BY <1>4 DEF J!IInv, J!Masked
<1>6. J!Handler(sig, "SIGALRM") = "sig_alrm" /\ J!Flags(sig, "SIGALRM") = {}
  BY DEF J!IInv, J!Installed, J!IsCaught, J!Handler, J!Flags, J!Default, J!Catch
<1>7. /\ sig' \in JumpSigs /\ sig'.act = sig.act /\ sig'.mask = {"SIGUSR1", "SIGALRM"}
      /\ sig'.pending = sig.pending \ {"SIGALRM"}
  <2>1. sig \in JumpSigs /\ "SIGALRM" \in J!Signals
    BY DEF J!IInv, J!TypeOK, JumpSigs, J!Signals
  <2>2. /\ J!Enter(sig, "SIGALRM") \in JumpSigs /\ J!Enter(sig, "SIGALRM").act = sig.act
        /\ J!Enter(sig, "SIGALRM").mask = sig.mask \cup {"SIGALRM"}
        /\ J!Enter(sig, "SIGALRM").pending = sig.pending \ {"SIGALRM"}
    BY <1>6, <2>1, JumpEntered
  <2> QED
    BY <1>5, <2>2
<1>8. stack' = <<J!Alrm("start"), J!Usr(r)>>
  BY <1>3, <1>5, <1>6, Two DEF JumpWith, J!Alrm
<1>9. /\ stack' # <<>> /\ J!IsAlrm(stack') /\ ~J!IsUsr(stack') /\ stack'[1].pc = "start"
      /\ \A q : stack' # <<J!Usr(q)>>
  BY <1>8, JumpAlrmStack
<1>10. ~J!Waiting' /\ ~J!Due' /\ "SIGALRM" \notin sig'.pending
  BY <1>1, <1>2, <1>7, <1>9 DEF J!Waiting, J!Due
<1>11. mpc' \notin J!Ends /\ (mpc' = mpc \/ mpc' = "pause")
  BY DEF J!Ends
<1>12. J!Masked' /\ J!Installed' /\ J!Canjump'
  <2>1. ~(option' = 0 /\ J!Jumped')
    BY <1>5 DEF J!Jumped
  <2>2. mpc' \notin {"pause", "pausing", "killed"} => canjump = 0 /\ could = 0
    BY <1>4, <1>11 DEF J!IInv, J!Canjump, J!Ends
  <2> QED
    BY <1>7, <1>9, <1>11, <2>1, <2>2 DEF J!Masked, J!IInv, J!Installed, J!Canjump,
       J!Ends
<1>13. J!MasksShown' /\ log' \in Seq(JumpEntries) /\ \A line : J!Last(line)' <=> J!Last(line)
  BY JumpSameLog
<1>14. J!AlarmOnTime' /\ J!LastShown'
  <2>1. J!Last("starting")
    BY <1>2 DEF J!IInv, J!LastShown
  <2> QED
    BY <1>9, <1>10, <1>13, <2>1 DEF J!AlarmOnTime, J!LastShown
<1>15. J!NoEnding' /\ J!JumpsOnce'
  <2>1. option = 0 => \A k \in DOMAIN log : log[k].line # "ending"
    BY <1>5 DEF J!IInv, J!NoEnding, J!IsEnding, J!Jumped
  <2> QED
    BY <1>11, <2>1 DEF J!NoEnding, J!JumpsOnce, J!IsEnding, J!Ends
<1>16. J!TypeOK'
  BY <1>1, <1>7, <1>9, <1>11, <1>13 DEF J!IInv, J!TypeOK, JumpSigs, JumpEntries
<1> QED
  BY <1>12, <1>13, <1>14, <1>15, <1>16 DEF J!IInv

LEMMA JumpDeliverIInv == ASSUME J!IInv, J!Deliver PROVE J!IInv'
<1>1. PICK s \in J!Deliverable(sig) :
        /\ mpc \notin J!Ends
        /\ \/ /\ ~J!IsCaught(sig, s)
              /\ mpc' = "killed"
              /\ UNCHANGED <<sig, stack, could>>
           \/ /\ J!IsCaught(sig, s)
              /\ sig' = J!Enter(sig, s)
              /\ stack' = JumpWith(s)
              /\ mpc' = IF mpc = "pausing" THEN "pause" ELSE mpc
              /\ could' = IF s = "SIGUSR1" THEN canjump ELSE could
        /\ UNCHANGED <<option, jmpmask, canjump, J!time, log, sent>>
  BY DEF J!Deliver, JumpWith
<1>2. s \in J!Signals
  BY DEF J!IInv, J!TypeOK, J!SignalState, J!Deliverable
<1>3. CASE ~J!IsCaught(sig, s)
  BY <1>1, <1>3, JumpKilledIInv
<1>4. CASE J!IsCaught(sig, s) /\ s = "SIGUSR1"
  BY <1>1, <1>4, JumpUsrEntersIInv
<1>5. CASE J!IsCaught(sig, s) /\ s = "SIGALRM"
  BY <1>1, <1>5, JumpAlrmEntersIInv
<1> QED
  BY <1>2, <1>3, <1>4, <1>5 DEF J!Signals

---------------------------------------------------------------------------
\* A step in which nothing changes.
LEMMA JumpStutterIInv == ASSUME J!IInv, UNCHANGED J!vars PROVE J!IInv'
<1>1. UNCHANGED <<sig, mpc, stack, option, jmpmask, canjump, could, alarm, elapsed, log, sent>>
  BY DEF J!vars, J!jump, J!time
<1>2. J!MasksShown' /\ log' \in Seq(JumpEntries) /\ \A line : J!Last(line)' <=> J!Last(line)
  BY <1>1, JumpSameLog
<1>3. J!TypeOK'
  BY <1>1 DEF J!IInv, J!TypeOK
<1>4. J!Installed' /\ J!Masked' /\ J!Canjump' /\ J!NoEnding' /\ J!JumpsOnce'
  BY <1>1 DEF J!Installed, J!Masked, J!Jumped, J!Canjump, J!IInv, J!NoEnding,
     J!JumpsOnce, J!IsEnding
<1>5. (J!Due' <=> J!Due) /\ (J!Waiting' <=> J!Waiting)
  BY <1>1 DEF J!Due, J!Waiting
<1>6. J!AlarmOnTime' /\ J!LastShown'
  BY <1>1, <1>2, <1>5 DEF J!IInv, J!AlarmOnTime, J!LastShown
<1> QED
  BY <1>2, <1>3, <1>4, <1>6 DEF J!IInv

\* The inductive invariant of sigsetjmp.c: which handlers run with which mask, when
\* the alarm goes off and what has been shown, for any number of signals.
THEOREM JumpInductive == ASSUME MaxSent \in Nat PROVE J!Spec => []J!IInv
<1>1. J!Init => J!IInv
  BY JumpInitIInv
<1>2. J!IInv /\ [J!Next]_(J!vars) => J!IInv'
  <2>1. J!IInv /\ J!HandlerStep => J!IInv'
    BY JumpDeliverIInv, JumpUsrStartIInv, JumpUsrAlarmIInv, JumpUsrTimeIInv,
       JumpUsrSpinIInv, JumpUsrFinishIInv, JumpUsrJumpIInv, JumpAlrmStartIInv,
       JumpReturnIInv DEF J!HandlerStep
  <2> QED
    BY <2>1, JumpMainIInv, JumpSendIInv, JumpTickIInv, JumpStutterIInv DEF J!Next,
       J!Terminated
<1> QED
  BY <1>1, <1>2, PTL DEF J!Spec

---------------------------------------------------------------------------
(* SigPending: what is shown of a blocked signal.                          *)

PendSigs  == P!SignalState(P!Signals, {"sig_quit"})
PendLines == {"none", "SIGQUIT", "pending", "unblocked", "catch"}

\* What the kernel's operations do to the one signal that matters.
LEMMA PendGenerated ==
  ASSUME sig \in PendSigs, P!Action \in {P!Default, P!Catch("sig_quit", {"restart"})}
  PROVE  LET new == P!Generate(sig, "SIGQUIT")
         IN  /\ new \in PendSigs /\ new.mask = sig.mask /\ new.act = sig.act
             /\ new.pending = {"SIGQUIT"}
<1>1. ~P!IsIgnored(sig, "SIGQUIT")
  BY DEF P!Action, P!IsIgnored, P!Handler, P!Default, P!Catch
<1> QED
  BY <1>1 DEF PendSigs, P!SignalState, P!Signals, P!Generate

LEMMA PendInstalled ==
  ASSUME sig \in PendSigs, NEW a \in {P!Default, P!Catch("sig_quit", {"restart"})}
  PROVE  LET new == P!Signal(a)
         IN  /\ new \in PendSigs /\ new.mask = sig.mask /\ new.pending = sig.pending
             /\ new.act["SIGQUIT"] = a
<1> DEFINE new == [sig EXCEPT !.act["SIGQUIT"] = a]
<1>1. a \in [handler : {"sig_quit", "SIG_DFL", "SIG_IGN"},
             flags : SUBSET {"restart", "reset", "nodefer"}]
      /\ a.handler # "SIG_IGN"
  BY DEF P!Default, P!Catch
<1>2. /\ new \in PendSigs /\ new.mask = sig.mask /\ new.pending = sig.pending
      /\ new.act["SIGQUIT"] = a
  BY <1>1 DEF PendSigs, P!SignalState, P!Signals
<1>3. ~P!IsIgnored(new, "SIGQUIT")
  BY <1>1, <1>2 DEF P!IsIgnored, P!Handler
<1> QED
  BY <1>2, <1>3 DEF P!Signal, P!Install

LEMMA PendEntered ==
  ASSUME sig \in PendSigs, P!Action = P!Catch("sig_quit", {"restart"}), sig.mask = {}
  PROVE  LET new == P!Enter(sig, "SIGQUIT")
         IN  /\ new \in PendSigs /\ new.act = sig.act
             /\ new.mask = {"SIGQUIT"} /\ new.pending = {}
<1>1. "nodefer" \notin P!Flags(sig, "SIGQUIT") /\ "reset" \notin P!Flags(sig, "SIGQUIT")
  BY DEF P!Action, P!Flags, P!Catch
<1>2. [sig.act EXCEPT !["SIGQUIT"] = sig.act["SIGQUIT"]] = sig.act
  BY DEF PendSigs, P!SignalState
<1> QED
  BY <1>1, <1>2 DEF PendSigs, P!SignalState, P!Signals, P!Enter

LEMMA PendMaskSet ==
  ASSUME sig \in PendSigs, NEW set \in SUBSET P!Signals
  PROVE  LET new == P!SetMask(sig, set)
         IN  /\ new \in PendSigs /\ new.act = sig.act
             /\ new.mask = set /\ new.pending = sig.pending
BY DEF PendSigs, P!SignalState, P!SetMask

LEMMA PendMaskAdded ==
  ASSUME sig \in PendSigs
  PROVE  LET new == P!Block(sig, {"SIGQUIT"})
         IN  /\ new \in PendSigs /\ new.act = sig.act
             /\ new.mask = {"SIGQUIT"} /\ new.pending = sig.pending
BY DEF PendSigs, P!SignalState, P!Signals, P!Block

LEMMA PendFrameStack ==
  ASSUME NEW p \in {"catch", "reset", "return"}
  PROVE  LET s == <<P!Frame(p)>>
         IN  /\ s # <<>> /\ P!IsFrame(s) /\ s[1].pc = p /\ s[1].saved = {} /\ Tail(s) = <<>>
             /\ \A q : s = <<P!Frame(q)>> <=> p = q
             /\ \A q : [s EXCEPT ![1].pc = q] = <<P!Frame(q)>>
<1> DEFINE s == <<P!Frame(p)>>
<1>1. s # <<>> /\ s[1] = P!Frame(p) /\ Tail(s) = <<>>
  BY One
<1>2. \A q : s = <<P!Frame(q)>> => p = q
  <2> SUFFICES ASSUME NEW q, s = <<P!Frame(q)>> PROVE p = q
    OBVIOUS
  <2>1. P!Frame(p) = P!Frame(q)
    BY <1>1, One
  <2> QED
    BY <2>1 DEF P!Frame
<1>3. \A q : [s EXCEPT ![1].pc = q] = <<P!Frame(q)>>
  <2> TAKE q
  <2>1. [P!Frame(p) EXCEPT !.pc = q] = P!Frame(q)
    BY DEF P!Frame
  <2> QED
    BY <1>1, <2>1, One
<1> QED
  BY <1>1, <1>2, <1>3 DEF P!IsFrame, P!Frame

LEMMA PendCatchStack ==
  ASSUME stack' = <<P!Frame("catch")>>
  PROVE  /\ stack' # <<>> /\ P!IsFrame(stack')
         /\ \A q : stack' = <<P!Frame(q)>> <=> q = "catch"
BY PendFrameStack

LEMMA PendNoStack == \A q : <<>> # <<P!Frame(q)>>
BY One

---------------------------------------------------------------------------
\* The log: nothing is shown, or one line more.
PendOneCatch == \A j, k \in DOMAIN log : log[j] = "catch" /\ log[k] = "catch" => j = k
PendTold     == P!Before("catch", "unblocked")

LEMMA PendSameLog ==
  ASSUME log' = log
  PROVE  /\ \A a : P!Printed(a)' <=> P!Printed(a)
         /\ PendOneCatch' <=> PendOneCatch
         /\ PendTold' <=> PendTold
BY DEF P!Printed, PendOneCatch, PendTold, P!Before

LEMMA PendShown ==
  ASSUME log \in Seq(PendLines), NEW line \in PendLines, log' = Append(log, line)
  PROVE  /\ log' \in Seq(PendLines) /\ log' # <<>>
         /\ \A a : P!Printed(a)' <=> P!Printed(a) \/ a = line
         /\ PendOneCatch /\ (line = "catch" => ~P!Printed("catch")) => PendOneCatch'
         /\ PendTold /\ (line = "unblocked" => P!Printed("catch")) => PendTold'
<1> DEFINE n == Len(log)
<1>1. /\ n \in Nat /\ log' \in Seq(PendLines) /\ log' # <<>> /\ DOMAIN log = 1 .. n
      /\ DOMAIN log' = 1 .. n + 1 /\ log'[n + 1] = line
      /\ \A k \in 1 .. n : log'[k] = log[k]
  OBVIOUS
<1> HIDE DEF n
<1>2. \A a : P!Printed(a)' <=> P!Printed(a) \/ a = line
  BY <1>1 DEF P!Printed
<1>3. ASSUME PendOneCatch, line = "catch" => ~P!Printed("catch") PROVE PendOneCatch'
  BY <1>1, <1>3 DEF PendOneCatch, P!Printed
<1>4. ASSUME PendTold, line = "unblocked" => P!Printed("catch") PROVE PendTold'
  <2> SUFFICES ASSUME NEW k \in 1 .. n + 1, log'[k] = "unblocked"
               PROVE  \E j \in 1 .. k - 1 : log'[j] = "catch"
    BY <1>1 DEF PendTold, P!Before
  <2>1. CASE k \in 1 .. n
    <3>1. PICK j \in 1 .. k - 1 : log[j] = "catch"
      BY <1>1, <1>4, <2>1 DEF PendTold, P!Before
    <3> QED
      BY <1>1, <2>1, <3>1
  <2>2. CASE k = n + 1
    <3>1. PICK j \in 1 .. n : log[j] = "catch"
      BY <1>1, <1>4, <2>2 DEF P!Printed
    <3>2. j \in 1 .. k - 1
      BY <1>1, <2>2
    <3> QED
      BY <1>1, <3>1, <3>2
  <2> QED
    BY <1>1, <2>1, <2>2
<1> QED
  BY <1>1, <1>2, <1>3, <1>4

LEMMA PendShownIs ==
  /\ P!PendingShown <=> /\ P!Printed("pending") /\ oldmask = {} => PendTold
                        /\ PendOneCatch
                        /\ mpc = "killed" => P!Printed("catch") \/ log = <<>>
                        /\ P!Printed("SIGQUIT") => oldmask # {}
  /\ P!PendingShown' <=> /\ P!Printed("pending")' /\ oldmask' = {} => PendTold'
                         /\ PendOneCatch'
                         /\ mpc' = "killed" => P!Printed("catch")' \/ log' = <<>>
                         /\ P!Printed("SIGQUIT")' => oldmask' # {}
BY DEF P!PendingShown, PendOneCatch, PendTold

\* Init establishes the invariant.
LEMMA PendInitIInv == ASSUME MaxSent \in Nat, P!Init PROVE P!IInv
<1>1. /\ program \in {"sigpending", "sig_mask"} /\ oldmask \subseteq P!Signals
      /\ mpc = IF program = "sigpending" THEN "signal" ELSE "pr_mask"
      /\ stack = <<>> /\ log = <<>> /\ sent = 0
      /\ sig = P!SetMask(P!NoActions(P!Signals), oldmask)
  BY DEF P!Init
<1>2. sig \in PendSigs /\ sig.mask = oldmask /\ P!Action = P!Default
  BY <1>1 DEF P!NoActions, P!SetMask, PendSigs, P!SignalState, P!Signals, P!Default,
     P!Action
<1>3. log \in Seq(PendLines) /\ sent \in 0 .. MaxSent /\ mpc \in {"signal", "pr_mask"}
  <2>1. log \in Seq(PendLines)
    BY <1>1
  <2>2. sent \in 0 .. MaxSent
    BY <1>1
  <2> QED
    BY <1>1, <2>1, <2>2
<1>4. \A a : ~P!Printed(a)
  <2>1. DOMAIN log = {}
    BY <1>1
  <2> QED
    BY <2>1 DEF P!Printed
<1>5. P!TypeOK
  BY <1>1, <1>2, <1>3 DEF P!TypeOK, PendSigs, PendLines
<1>6. P!Masked
  BY <1>1, <1>2, <1>3 DEF P!Masked, P!Blocked
<1>7. P!Catches
  BY <1>1, <1>2, <1>3, <1>4, PendNoStack DEF P!Catches
<1>8. P!ShownIsKept
  BY <1>4 DEF P!ShownIsKept
<1>9. P!PendingShown
  <2>1. PendOneCatch
    <3>1. DOMAIN log = {}
      BY <1>1
    <3> QED
      BY <3>1 DEF PendOneCatch
  <2> QED
    BY <1>1, <1>4, <2>1, PendShownIs
<1> QED
  BY <1>5, <1>6, <1>7, <1>8, <1>9 DEF P!IInv

---------------------------------------------------------------------------
\* Steps of main.
LEMMA PendInMainIs ==
  ASSUME P!IInv, NEW from, NEW to, P!InMain(from, to), from \notin P!Ends
  PROVE  /\ stack = <<>> /\ stack' = <<>> /\ mpc = from /\ mpc' = to
         /\ "SIGQUIT" \in sig.pending => "SIGQUIT" \in sig.mask
         /\ sig.mask = IF P!Blocked THEN {"SIGQUIT"} ELSE oldmask
         /\ sig \in PendSigs /\ log \in Seq(PendLines)
         /\ UNCHANGED <<program, oldmask, sent>>
<1>1. /\ stack = <<>> /\ stack' = <<>> /\ mpc = from /\ mpc' = to
      /\ P!Deliverable(sig) = {} /\ UNCHANGED <<program, oldmask, sent>>
  BY DEF P!InMain
<1>2. sig.mask = IF P!Blocked THEN {"SIGQUIT"} ELSE oldmask
  BY <1>1 DEF P!IInv, P!Masked
<1>3. sig \in PendSigs /\ log \in Seq(PendLines)
  BY DEF P!IInv, P!TypeOK, PendSigs, PendLines
<1> QED
  BY <1>1, <1>2, <1>3 DEF P!Deliverable

LEMMA PendPrMaskIInv == ASSUME P!IInv, P!PrMask PROVE P!IInv'
<1> DEFINE line == IF sig.mask = {} THEN "none" ELSE "SIGQUIT"
<1>1. P!InMain("pr_mask", "ended") /\ log' = Append(log, line) /\ sig' = sig
  BY DEF P!PrMask
<1>2. /\ stack = <<>> /\ stack' = <<>> /\ mpc = "pr_mask" /\ mpc' = "ended"
      /\ sig.mask = oldmask /\ sig \in PendSigs /\ log \in Seq(PendLines)
      /\ UNCHANGED <<program, oldmask, sent>>
  BY <1>1, PendInMainIs DEF P!Ends, P!Blocked
<1>3. line \in {"none", "SIGQUIT"} /\ (line = "SIGQUIT" => oldmask # {})
  BY <1>2
<1> HIDE DEF line
<1>4. /\ log' \in Seq(PendLines) /\ log' # <<>>
      /\ \A a : P!Printed(a)' <=> P!Printed(a) \/ a = line
      /\ PendOneCatch => PendOneCatch'
  BY <1>1, <1>2, <1>3, PendShown DEF PendLines
<1>5. ~P!Printed("pending") /\ ~P!Printed("catch") /\ P!Action = P!Default
  <2>1. P!Action = P!Default /\ ~P!Printed("pending")
    BY <1>2 DEF P!IInv, P!Catches, P!ShownIsKept
  <2>2. log = <<>>
    BY <1>2 DEF P!IInv, P!Catches
  <2>3. DOMAIN log = {}
    BY <2>2
  <2> QED
    BY <2>1, <2>3 DEF P!Printed
<1>6. P!TypeOK'
  BY <1>1, <1>2, <1>4 DEF P!IInv, P!TypeOK, PendLines, P!Ends
<1>7. P!Masked' /\ P!ShownIsKept'
  BY <1>2 DEF P!Masked, P!ShownIsKept, P!Ends
<1>8. P!Catches'
  BY <1>1, <1>2, <1>3, <1>4, <1>5, PendNoStack DEF P!Catches, P!Action, P!Ends
<1>9. P!PendingShown'
  BY <1>2, <1>3, <1>4, <1>5, PendShownIs DEF P!IInv
<1> QED
  BY <1>6, <1>7, <1>8, <1>9 DEF P!IInv

\* The step shows nothing.
LEMMA PendQuiet ==
  ASSUME P!IInv, UNCHANGED <<oldmask, log>>, mpc' # "killed" \/ mpc = "killed"
  PROVE  /\ P!PendingShown' /\ log' \in Seq(PendLines)
         /\ \A a : P!Printed(a)' <=> P!Printed(a)
<1>1. log' \in Seq(PendLines)
  BY DEF P!IInv, P!TypeOK, PendLines
<1>2. /\ \A a : P!Printed(a)' <=> P!Printed(a)
      /\ PendOneCatch' <=> PendOneCatch
      /\ PendTold' <=> PendTold
  BY PendSameLog
<1> QED
  BY <1>1, <1>2, PendShownIs DEF P!IInv

LEMMA PendSetHandlerIInv == ASSUME P!IInv, P!SetHandler PROVE P!IInv'
<1>1. /\ P!InMain("signal", "block") /\ log' = log
      /\ sig' = P!Signal(P!Catch("sig_quit", {"restart"}))
  BY DEF P!SetHandler
<1>2. /\ stack = <<>> /\ stack' = <<>> /\ mpc = "signal" /\ mpc' = "block"
      /\ sig.mask = oldmask /\ sig \in PendSigs /\ UNCHANGED <<program, oldmask, sent>>
  BY <1>1, PendInMainIs DEF P!Ends, P!Blocked
<1>3. /\ sig' \in PendSigs /\ sig'.mask = oldmask /\ P!Action' = P!Catch("sig_quit", {"restart"})
  BY <1>1, <1>2, PendInstalled DEF P!Action
<1>4. ~P!Printed("catch")
  <2>1. log = <<>>
    BY <1>2 DEF P!IInv, P!Catches
  <2>2. DOMAIN log = {}
    BY <2>1
  <2> QED
    BY <2>2 DEF P!Printed
<1>5. P!PendingShown' /\ log' \in Seq(PendLines) /\ \A a : P!Printed(a)' <=> P!Printed(a)
  BY <1>1, <1>2, PendQuiet
<1>6. P!Action' # P!Default
  BY <1>3 DEF P!Default, P!Catch
<1>7. P!TypeOK'
  BY <1>2, <1>3, <1>5 DEF P!IInv, P!TypeOK, PendSigs, PendLines
<1>8. P!Masked' /\ P!ShownIsKept'
  BY <1>2, <1>3, <1>5 DEF P!Masked, P!Blocked, P!ShownIsKept, P!IInv
<1>9. P!Catches'
  BY <1>2, <1>3, <1>4, <1>5, <1>6, PendNoStack DEF P!Catches
<1> QED
  BY <1>5, <1>7, <1>8, <1>9 DEF P!IInv

\* Steps of main that change at most the mask, or show "pending" or "unblocked".
LEMMA PendMainGoesOn ==
  ASSUME P!IInv, stack = <<>>, stack' = <<>>, mpc \notin {"pr_mask", "signal"} \cup P!Ends,
         mpc' \in {"sleep", "sigpending", "restore", "print", "sleep again", "exit", "ended"},
         sig' \in PendSigs, UNCHANGED <<program, oldmask, sent>>, sig'.act = sig.act,
         mpc' # "ended" => sig'.mask = IF P!Blocked' THEN {"SIGQUIT"} ELSE oldmask,
         log' \in Seq(PendLines), P!Printed("catch")' <=> P!Printed("catch")
  PROVE  P!TypeOK' /\ P!Masked' /\ P!Catches'
<1>1. P!Action' = P!Action
  BY DEF P!Action
<1>2. P!TypeOK'
  BY DEF P!IInv, P!TypeOK, PendSigs, PendLines, P!Ends
<1>3. P!Masked'
  BY DEF P!Masked, P!Ends
<1>4. P!Catches'
  BY <1>1, PendNoStack DEF P!IInv, P!Catches
<1> QED
  BY <1>2, <1>3, <1>4

LEMMA PendBlockQuitIInv == ASSUME P!IInv, P!BlockQuit PROVE P!IInv'
<1>1. P!InMain("block", "sleep") /\ log' = log /\ sig' = P!Block(sig, {"SIGQUIT"})
  BY DEF P!BlockQuit
<1>2. /\ stack = <<>> /\ stack' = <<>> /\ mpc = "block" /\ mpc' = "sleep"
      /\ sig \in PendSigs /\ UNCHANGED <<program, oldmask, sent>>
  BY <1>1, PendInMainIs DEF P!Ends
<1>3. sig' \in PendSigs /\ sig'.mask = {"SIGQUIT"} /\ sig'.act = sig.act
  BY <1>1, <1>2, PendMaskAdded
<1>4. P!PendingShown' /\ log' \in Seq(PendLines) /\ \A a : P!Printed(a)' <=> P!Printed(a)
  BY <1>1, <1>2, PendQuiet
<1>5. P!TypeOK' /\ P!Masked' /\ P!Catches'
  BY <1>2, <1>3, <1>4, PendMainGoesOn DEF P!Ends, P!Blocked
<1>6. P!ShownIsKept'
  BY <1>2, <1>4 DEF P!ShownIsKept, P!IInv
<1> QED
  BY <1>4, <1>5, <1>6 DEF P!IInv

LEMMA PendSleepIInv == ASSUME P!IInv, P!Sleep \/ P!Exit PROVE P!IInv'
<1>1. PICK from \in {"sleep", "sleep again", "exit"}, to \in {"sigpending", "exit", "ended"} :
        /\ P!InMain(from, to) /\ log' = log /\ sig' = sig
        /\ \/ from = "sleep" /\ to = "sigpending"
           \/ from = "sleep again" /\ to = "exit"
           \/ from = "exit" /\ to = "ended"
  BY DEF P!Sleep, P!Exit
<1>2. /\ stack = <<>> /\ stack' = <<>> /\ mpc = from /\ mpc' = to
      /\ sig.mask = IF P!Blocked THEN {"SIGQUIT"} ELSE oldmask
      /\ sig \in PendSigs /\ UNCHANGED <<program, oldmask, sent>>
  BY <1>1, PendInMainIs DEF P!Ends
<1>3. P!PendingShown' /\ log' \in Seq(PendLines) /\ \A a : P!Printed(a)' <=> P!Printed(a)
  BY <1>1, <1>2, PendQuiet
<1>4. mpc' # "ended" => (P!Blocked' <=> P!Blocked)
  BY <1>1, <1>2 DEF P!Blocked
<1>5. P!TypeOK' /\ P!Masked' /\ P!Catches'
  BY <1>1, <1>2, <1>3, <1>4, PendMainGoesOn DEF P!Ends
<1>6. P!ShownIsKept'
  BY <1>1, <1>2, <1>3 DEF P!ShownIsKept, P!IInv
<1> QED
  BY <1>3, <1>5, <1>6 DEF P!IInv

LEMMA PendSigpendingIInv == ASSUME P!IInv, P!Sigpending PROVE P!IInv'
<1>1. /\ P!InMain("sigpending", "restore") /\ sig' = sig
      /\ log' = IF "SIGQUIT" \in sig.pending THEN Append(log, "pending") ELSE log
  BY DEF P!Sigpending
<1>2. /\ stack = <<>> /\ stack' = <<>> /\ mpc = "sigpending" /\ mpc' = "restore"
      /\ sig.mask = {"SIGQUIT"} /\ log \in Seq(PendLines)
      /\ sig \in PendSigs /\ UNCHANGED <<program, oldmask, sent>>
  BY <1>1, PendInMainIs DEF P!Ends, P!Blocked
<1>3. ~P!Printed("pending") /\ ~P!Printed("unblocked")
  BY <1>2 DEF P!IInv, P!ShownIsKept
<1>4. /\ log' \in Seq(PendLines)
      /\ \A a : P!Printed(a)' <=> P!Printed(a) \/ (a = "pending" /\ "SIGQUIT" \in sig.pending)
      /\ PendOneCatch'
  <2>1. PendOneCatch
    BY PendShownIs DEF P!IInv
  <2>2. CASE "SIGQUIT" \in sig.pending
    BY <1>1, <1>2, <2>1, <2>2, PendShown DEF PendLines
  <2>3. CASE "SIGQUIT" \notin sig.pending
    BY <1>1, <1>2, <2>1, <2>3, PendSameLog
  <2> QED
    BY <2>2, <2>3
<1>5. P!TypeOK' /\ P!Masked' /\ P!Catches'
  BY <1>1, <1>2, <1>4, PendMainGoesOn DEF P!Ends, P!Blocked
<1>6. P!ShownIsKept'
  BY <1>1, <1>2, <1>3, <1>4 DEF P!ShownIsKept
<1>7. P!PendingShown'
  <2>1. PendTold'
    BY <1>3, <1>4 DEF PendTold, P!Before, P!Printed
  <2> QED
    BY <1>2, <1>4, <2>1, PendShownIs DEF P!IInv
<1> QED
  BY <1>5, <1>6, <1>7 DEF P!IInv

LEMMA PendRestoreIInv == ASSUME P!IInv, P!Restore PROVE P!IInv'
<1>1. P!InMain("restore", "print") /\ log' = log /\ sig' = P!SetMask(sig, oldmask)
  BY DEF P!Restore
<1>2. /\ stack = <<>> /\ stack' = <<>> /\ mpc = "restore" /\ mpc' = "print"
      /\ sig \in PendSigs /\ UNCHANGED <<program, oldmask, sent>>
  BY <1>1, PendInMainIs DEF P!Ends
<1>3. /\ sig' \in PendSigs /\ sig'.mask = oldmask /\ sig'.act = sig.act
      /\ sig'.pending = sig.pending
  <2>1. oldmask \in SUBSET P!Signals
    BY DEF P!IInv, P!TypeOK
  <2> QED
    BY <1>1, <1>2, <2>1, PendMaskSet
<1>4. P!PendingShown' /\ log' \in Seq(PendLines) /\ \A a : P!Printed(a)' <=> P!Printed(a)
  BY <1>1, <1>2, PendQuiet
<1>5. P!TypeOK' /\ P!Masked' /\ P!Catches'
  BY <1>2, <1>3, <1>4, PendMainGoesOn DEF P!Ends, P!Blocked
<1>6. P!ShownIsKept'
  BY <1>2, <1>3, <1>4, PendNoStack DEF P!ShownIsKept, P!IInv
<1> QED
  BY <1>4, <1>5, <1>6 DEF P!IInv

\* What was shown as pending has been caught: nothing is pending any more.
LEMMA PendPrintUnblockedIInv == ASSUME P!IInv, P!PrintUnblocked PROVE P!IInv'
<1>1. P!InMain("print", "sleep again") /\ log' = Append(log, "unblocked") /\ sig' = sig
  BY DEF P!PrintUnblocked
<1>2. /\ stack = <<>> /\ stack' = <<>> /\ mpc = "print" /\ mpc' = "sleep again"
      /\ sig.mask = oldmask /\ log \in Seq(PendLines)
      /\ "SIGQUIT" \in sig.pending => "SIGQUIT" \in sig.mask
      /\ sig \in PendSigs /\ UNCHANGED <<program, oldmask, sent>>
  <2>1. "print" \notin P!Ends
    BY DEF P!Ends
  <2>2. /\ stack = <<>> /\ stack' = <<>> /\ mpc = "print" /\ mpc' = "sleep again"
        /\ "SIGQUIT" \in sig.pending => "SIGQUIT" \in sig.mask
        /\ sig.mask = IF P!Blocked THEN {"SIGQUIT"} ELSE oldmask
        /\ sig \in PendSigs /\ log \in Seq(PendLines)
        /\ UNCHANGED <<program, oldmask, sent>>
    BY <1>1, <2>1, PendInMainIs
  <2>3. ~P!Blocked
    BY <2>2 DEF P!Blocked
  <2> QED
    BY <2>2, <2>3
<1>3. P!Printed("pending") /\ oldmask = {} => P!Printed("catch")
  BY <1>2, PendNoStack DEF P!IInv, P!ShownIsKept
<1>4. /\ log' \in Seq(PendLines)
      /\ \A a : P!Printed(a)' <=> P!Printed(a) \/ a = "unblocked"
      /\ PendOneCatch => PendOneCatch'
      /\ PendTold /\ P!Printed("catch") => PendTold'
  BY <1>1, <1>2, PendShown DEF PendLines
<1>5. P!TypeOK' /\ P!Masked' /\ P!Catches'
  BY <1>1, <1>2, <1>4, PendMainGoesOn DEF P!Ends, P!Blocked
<1>6. P!ShownIsKept'
  BY <1>2 DEF P!ShownIsKept
<1>7. P!PendingShown'
  <2>1. ~P!Printed("unblocked")
    BY <1>2 DEF P!IInv, P!ShownIsKept
  <2>2. PendTold
    BY <2>1 DEF PendTold, P!Before, P!Printed
  <2> QED
    BY <1>2, <1>3, <1>4, <2>2, PendShownIs DEF P!IInv
<1> QED
  BY <1>5, <1>6, <1>7 DEF P!IInv

---------------------------------------------------------------------------
\* Steps of the handler.
LEMMA PendInHandlerIs ==
  ASSUME P!IInv, NEW p \in {"catch", "reset", "return"}, P!InHandler(p)
  PROVE  /\ stack = <<P!Frame(p)>> /\ stack # <<>> /\ mpc \notin P!Ends
         /\ sig.mask = {"SIGQUIT"} /\ ~P!Blocked /\ oldmask = {}
         /\ sig \in PendSigs /\ log \in Seq(PendLines) /\ mpc \notin {"pr_mask", "signal"}
         /\ UNCHANGED <<program, oldmask, mpc, sent>>
<1>1. /\ stack # <<>> /\ stack[1].pc = p /\ mpc \notin P!Ends
      /\ UNCHANGED <<program, oldmask, mpc, sent>>
  BY DEF P!InHandler
<1>2. PICK q \in {"catch", "reset", "return"} : stack = <<P!Frame(q)>>
  BY <1>1 DEF P!IInv, P!TypeOK, P!IsFrame
<1>3. q = p
  BY <1>1, <1>2, PendFrameStack
<1>4. sig.mask = {"SIGQUIT"} /\ ~P!Blocked /\ oldmask = {}
  BY <1>1 DEF P!IInv, P!Masked
<1>5. sig \in PendSigs /\ log \in Seq(PendLines) /\ mpc \notin {"pr_mask", "signal"}
  BY <1>1 DEF P!IInv, P!TypeOK, PendSigs, PendLines, P!Catches
<1> QED
  BY <1>1, <1>2, <1>3, <1>4, <1>5

LEMMA PendPrintCatchIInv == ASSUME P!IInv, P!PrintCatch PROVE P!IInv'
<1>1. /\ P!InHandler("catch") /\ log' = Append(log, "catch") /\ sig' = sig
      /\ stack' = [stack EXCEPT ![1].pc = "reset"]
  BY DEF P!PrintCatch
<1>2. /\ stack = <<P!Frame("catch")>> /\ mpc \notin P!Ends
      /\ sig.mask = {"SIGQUIT"} /\ ~P!Blocked /\ oldmask = {}
      /\ sig \in PendSigs /\ log \in Seq(PendLines) /\ mpc \notin {"pr_mask", "signal"}
      /\ UNCHANGED <<program, oldmask, mpc, sent>>
  BY <1>1, PendInHandlerIs
<1>3. stack' = <<P!Frame("reset")>>
  BY <1>1, <1>2, PendFrameStack
<1>4. stack' # <<>> /\ P!IsFrame(stack') /\ \A q : stack' = <<P!Frame(q)>> <=> q = "reset"
  BY <1>3, PendFrameStack
<1>5. /\ ~P!Printed("catch") /\ P!Action # P!Default
      /\ P!Action \in {P!Default, P!Catch("sig_quit", {"restart"})}
  BY <1>2 DEF P!IInv, P!Catches
<1>6. /\ log' \in Seq(PendLines)
      /\ \A a : P!Printed(a)' <=> P!Printed(a) \/ a = "catch"
      /\ PendOneCatch => PendOneCatch'
      /\ PendTold => PendTold'
  BY <1>1, <1>2, <1>5, PendShown DEF PendLines
<1>7. P!TypeOK'
  BY <1>1, <1>2, <1>4, <1>6 DEF P!IInv, P!TypeOK, PendLines
<1>8. P!Masked' /\ P!ShownIsKept'
  BY <1>1, <1>2, <1>4, <1>6 DEF P!Masked, P!Blocked, P!ShownIsKept, P!IInv
<1>9. P!Catches'
  BY <1>1, <1>2, <1>4, <1>5, <1>6 DEF P!Catches, P!Action
<1>10. P!PendingShown'
  BY <1>2, <1>6, PendShownIs DEF P!IInv, P!Ends
<1> QED
  BY <1>7, <1>8, <1>9, <1>10 DEF P!IInv

LEMMA PendResetIInv == ASSUME P!IInv, P!Reset PROVE P!IInv'
<1>1. /\ P!InHandler("reset") /\ log' = log /\ sig' = P!Signal(P!Default)
      /\ stack' = [stack EXCEPT ![1].pc = "return"]
  BY DEF P!Reset
<1>2. /\ stack = <<P!Frame("reset")>> /\ mpc \notin P!Ends
      /\ sig.mask = {"SIGQUIT"} /\ ~P!Blocked /\ oldmask = {}
      /\ sig \in PendSigs /\ mpc \notin {"pr_mask", "signal"}
      /\ UNCHANGED <<program, oldmask, mpc, sent>>
  BY <1>1, PendInHandlerIs
<1>3. stack' = <<P!Frame("return")>>
  BY <1>1, <1>2, PendFrameStack
<1>4. stack' # <<>> /\ P!IsFrame(stack') /\ \A q : stack' = <<P!Frame(q)>> <=> q = "return"
  BY <1>3, PendFrameStack
<1>5. P!Printed("catch")
  BY <1>2 DEF P!IInv, P!Catches
<1>6. sig' \in PendSigs /\ sig'.mask = {"SIGQUIT"} /\ P!Action' = P!Default
  BY <1>1, <1>2, PendInstalled DEF P!Action
<1>7. P!PendingShown' /\ log' \in Seq(PendLines) /\ \A a : P!Printed(a)' <=> P!Printed(a)
  BY <1>1, <1>2, PendQuiet DEF P!Ends
<1>8. P!TypeOK'
  BY <1>2, <1>4, <1>6, <1>7 DEF P!IInv, P!TypeOK, PendSigs, PendLines
<1>9. P!Masked' /\ P!ShownIsKept' /\ P!Catches'
  BY <1>2, <1>4, <1>5, <1>6, <1>7 DEF P!Masked, P!Blocked, P!ShownIsKept, P!IInv,
     P!Catches
<1> QED
  BY <1>7, <1>8, <1>9 DEF P!IInv

LEMMA PendReturnIInv == ASSUME P!IInv, P!Return PROVE P!IInv'
<1>1. /\ P!InHandler("return") /\ log' = log /\ sig' = P!SetMask(sig, stack[1].saved)
      /\ stack' = Tail(stack)
  BY DEF P!Return
<1>2. /\ stack = <<P!Frame("return")>> /\ mpc \notin P!Ends /\ ~P!Blocked /\ oldmask = {}
      /\ sig \in PendSigs /\ mpc \notin {"pr_mask", "signal"}
      /\ UNCHANGED <<program, oldmask, mpc, sent>>
  BY <1>1, PendInHandlerIs
<1>3. stack' = <<>> /\ stack[1].saved = {}
  BY <1>1, <1>2, PendFrameStack
<1>4. P!Printed("catch") /\ P!Action = P!Default
  BY <1>2 DEF P!IInv, P!Catches
<1>5. sig' \in PendSigs /\ sig'.mask = {} /\ P!Action' = P!Action /\ sig'.pending = sig.pending
  BY <1>1, <1>2, <1>3, PendMaskSet DEF P!Action
<1>6. P!PendingShown' /\ log' \in Seq(PendLines) /\ \A a : P!Printed(a)' <=> P!Printed(a)
  BY <1>1, <1>2, PendQuiet DEF P!Ends
<1>7. P!TypeOK'
  BY <1>2, <1>3, <1>5, <1>6 DEF P!IInv, P!TypeOK, PendSigs, PendLines
<1>8. P!Masked' /\ P!ShownIsKept'
  BY <1>2, <1>3, <1>4, <1>5, <1>6 DEF P!Masked, P!Blocked, P!ShownIsKept, P!IInv
<1>9. P!Catches'
  BY <1>2, <1>3, <1>4, <1>5, <1>6, PendNoStack DEF P!Catches, P!Default
<1> QED
  BY <1>6, <1>7, <1>8, <1>9 DEF P!IInv

---------------------------------------------------------------------------
\* A signal is delivered, or sent.
LEMMA PendKilledIInv ==
  ASSUME P!IInv, mpc \notin P!Ends, "SIGQUIT" \in P!Deliverable(sig), ~P!IsCaught(sig, "SIGQUIT"),
         mpc' = "killed", UNCHANGED <<sig, stack, program, oldmask, log, sent>>
  PROVE  P!IInv'
<1>1. P!Action = P!Default
  BY DEF P!IInv, P!Catches, P!Action, P!IsCaught, P!Handler, P!Catch
<1>2. P!Printed("catch") \/ log = <<>>
  BY <1>1 DEF P!IInv, P!TypeOK, P!Catches
<1>3. /\ \A a : P!Printed(a)' <=> P!Printed(a)
      /\ PendOneCatch' <=> PendOneCatch
      /\ PendTold' <=> PendTold
  BY PendSameLog
<1>4. P!TypeOK'
  BY DEF P!IInv, P!TypeOK, P!Ends
<1>5. P!Masked' /\ P!ShownIsKept' /\ P!Catches'
  BY <1>3 DEF P!Masked, P!ShownIsKept, P!IInv, P!Catches, P!Action, P!Ends
<1>6. P!PendingShown'
  BY <1>2, <1>3, PendShownIs DEF P!IInv
<1> QED
  BY <1>4, <1>5, <1>6 DEF P!IInv

\* The handler starts.
PendEnters == /\ mpc \notin P!Ends /\ "SIGQUIT" \in P!Deliverable(sig) /\ P!IsCaught(sig, "SIGQUIT")
              /\ sig' = P!Enter(sig, "SIGQUIT")
              /\ stack' = <<[pc |-> "catch", saved |-> sig.mask]>> \o stack
              /\ mpc' = IF mpc = "sleep again" THEN "exit" ELSE mpc
              /\ UNCHANGED <<program, oldmask, log, sent>>

LEMMA PendEntersIInv == ASSUME P!IInv, PendEnters PROVE P!IInv'
<1>0. /\ mpc \notin P!Ends /\ "SIGQUIT" \in P!Deliverable(sig) /\ P!IsCaught(sig, "SIGQUIT")
      /\ sig' = P!Enter(sig, "SIGQUIT")
      /\ mpc' = IF mpc = "sleep again" THEN "exit" ELSE mpc
      /\ UNCHANGED <<program, oldmask, log, sent>>
  BY DEF PendEnters
<1>1. P!Action = P!Catch("sig_quit", {"restart"}) /\ P!Action # P!Default
  <2>1. P!Action \in {P!Default, P!Catch("sig_quit", {"restart"})}
    BY DEF P!IInv, P!Catches
  <2>2. P!Action.handler # "SIG_DFL"
    BY <1>0 DEF P!Action, P!IsCaught, P!Handler
  <2> QED
    BY <2>1, <2>2 DEF P!Default
<1>2. "SIGQUIT" \notin sig.mask /\ sig \in PendSigs
  BY <1>0 DEF P!Deliverable, P!IInv, P!TypeOK, PendSigs
<1>3. stack = <<>> /\ sig.mask = oldmask /\ ~P!Blocked
  BY <1>0, <1>2 DEF P!IInv, P!Masked
<1>4. oldmask = {}
  BY <1>2, <1>3 DEF P!IInv, P!TypeOK, P!Signals
<1>5. /\ sig' \in PendSigs /\ sig'.act = sig.act /\ sig'.mask = {"SIGQUIT"}
  BY <1>0, <1>1, <1>2, <1>3, <1>4, PendEntered
<1>6. stack' = <<P!Frame("catch")>>
  BY <1>3, <1>4, One DEF PendEnters, P!Frame
<1>7. stack' # <<>> /\ P!IsFrame(stack') /\ \A q : stack' = <<P!Frame(q)>> <=> q = "catch"
  BY <1>6, PendCatchStack
<1>8. mpc \notin {"pr_mask", "signal"} /\ ~P!Printed("catch")
  BY <1>1, <1>3 DEF P!IInv, P!Catches
<1>9. /\ mpc' \notin P!Ends \cup {"pr_mask", "signal"} /\ ~P!Blocked' /\ (mpc' = mpc \/ mpc' = "exit")
  BY <1>0, <1>3, <1>8 DEF P!Ends, P!Blocked
<1>10. P!PendingShown' /\ log' \in Seq(PendLines) /\ \A a : P!Printed(a)' <=> P!Printed(a)
  BY <1>0, <1>9, PendQuiet DEF P!Ends
<1>11. P!TypeOK'
  BY <1>0, <1>5, <1>7, <1>9, <1>10 DEF P!IInv, P!TypeOK, PendSigs, PendLines
<1>12. P!Masked'
  BY <1>0, <1>4, <1>5, <1>7, <1>9 DEF P!Masked
<1>13. P!ShownIsKept'
  BY <1>0, <1>6, <1>9, <1>10 DEF P!ShownIsKept, P!IInv
<1>14. P!Catches'
  <2>1. P!Action' = P!Action /\ ~P!Printed("catch")'
    BY <1>5, <1>8, <1>10 DEF P!Action
  <2> QED
    BY <1>1, <1>7, <1>9, <2>1 DEF P!Catches
<1> QED
  BY <1>10, <1>11, <1>12, <1>13, <1>14 DEF P!IInv

LEMMA PendDeliverIInv == ASSUME P!IInv, P!Deliver PROVE P!IInv'
<1>1. PICK s \in P!Deliverable(sig) :
        /\ mpc \notin P!Ends
        /\ \/ /\ ~P!IsCaught(sig, s)
              /\ mpc' = "killed"
              /\ UNCHANGED <<sig, stack>>
           \/ /\ P!IsCaught(sig, s)
              /\ sig' = P!Enter(sig, s)
              /\ stack' = <<[pc |-> "catch", saved |-> sig.mask]>> \o stack
              /\ mpc' = IF mpc = "sleep again" THEN "exit" ELSE mpc
        /\ UNCHANGED <<program, oldmask, log, sent>>
  BY DEF P!Deliver
<1>2. s = "SIGQUIT"
  BY DEF P!IInv, P!TypeOK, P!SignalState, P!Deliverable, P!Signals
<1>3. CASE ~P!IsCaught(sig, s)
  BY <1>1, <1>2, <1>3, PendKilledIInv
<1>4. CASE P!IsCaught(sig, s)
  BY <1>1, <1>2, <1>4, PendEntersIInv DEF PendEnters
<1> QED
  BY <1>3, <1>4

LEMMA PendSendIInv == ASSUME MaxSent \in Nat, P!IInv, P!Send PROVE P!IInv'
<1>1. /\ sent < MaxSent /\ sent' = sent + 1 /\ sig' = P!Generate(sig, "SIGQUIT")
      /\ UNCHANGED <<program, oldmask, mpc, stack, log>>
  BY DEF P!Send
<1>2. /\ sig' \in PendSigs /\ sig'.mask = sig.mask /\ sig'.act = sig.act
      /\ sig'.pending = {"SIGQUIT"}
  BY <1>1, PendGenerated DEF P!IInv, P!TypeOK, PendSigs, P!Catches
<1>3. sent' \in 0 .. MaxSent
  <2>1. sent \in 0 .. MaxSent
    BY DEF P!IInv, P!TypeOK
  <2> QED
    BY <1>1, <2>1
<1>4. P!PendingShown' /\ log' \in Seq(PendLines) /\ \A a : P!Printed(a)' <=> P!Printed(a)
  BY <1>1, PendQuiet
<1>5. P!TypeOK'
  BY <1>1, <1>2, <1>3, <1>4 DEF P!IInv, P!TypeOK, PendSigs, PendLines
<1>6. P!Masked'
  BY <1>1, <1>2 DEF P!IInv, P!Masked, P!Blocked
<1>7. P!Catches'
  BY <1>1, <1>2, <1>4 DEF P!IInv, P!Catches, P!Action
<1>8. P!ShownIsKept'
  BY <1>1, <1>2, <1>4 DEF P!IInv, P!ShownIsKept
<1> QED
  BY <1>4, <1>5, <1>6, <1>7, <1>8 DEF P!IInv

LEMMA PendStutterIInv == ASSUME P!IInv, UNCHANGED P!vars PROVE P!IInv'
<1>1. UNCHANGED <<program, oldmask, sig, mpc, stack, log, sent>>
  BY DEF P!vars
<1>2. P!PendingShown' /\ \A a : P!Printed(a)' <=> P!Printed(a)
  BY <1>1, PendQuiet
<1>3. P!TypeOK'
  BY <1>1 DEF P!IInv, P!TypeOK
<1>4. P!Masked'
  BY <1>1 DEF P!IInv, P!Masked, P!Blocked
<1>5. P!Catches'
  BY <1>1, <1>2 DEF P!IInv, P!Catches, P!Action
<1>6. P!ShownIsKept'
  BY <1>1, <1>2 DEF P!IInv, P!ShownIsKept
<1> QED
  BY <1>2, <1>3, <1>4, <1>5, <1>6 DEF P!IInv

\* The inductive invariant of sigpending.c and sig_mask.c: the mask, what is caught
\* and what has been shown, for any number of signals.
THEOREM PendInductive == ASSUME MaxSent \in Nat PROVE P!Spec => []P!IInv
<1>1. P!Init => P!IInv
  BY PendInitIInv
<1>2. P!IInv /\ [P!Next]_(P!vars) => P!IInv'
  <2>1. P!IInv /\ P!Step => P!IInv'
    BY PendPrMaskIInv, PendSetHandlerIInv, PendBlockQuitIInv, PendSleepIInv,
       PendSigpendingIInv, PendRestoreIInv, PendPrintUnblockedIInv, PendDeliverIInv,
       PendPrintCatchIInv, PendResetIInv, PendReturnIInv DEF P!Step
  <2> QED
    BY <2>1, PendSendIInv, PendStutterIInv DEF P!Next
<1> QED
  BY <1>1, <1>2, PTL DEF P!Spec

---------------------------------------------------------------------------
(* The composition: only one of the programs runs, and it does what its    *)
(* own module says.                                                        *)

LEMMA QueueStart == Init /\ IsQueued => Q!Init
BY DEF Init, IsQueued, IsSemantics, IsJump, P!Init

LEMMA SemStart == Init /\ IsSemantics => S!Init
BY DEF Init, IsQueued, IsSemantics, IsJump, P!Init

LEMMA JumpStart == Init /\ IsJump => J!Init
BY DEF Init, IsQueued, IsSemantics, IsJump, P!Init

LEMMA PendStart == Init /\ IsPending => P!Init
BY DEF Init, IsQueued, IsSemantics, IsJump, IsPending

\* The programs are different.
LEMMA OneProgram ==
  /\ IsQueued => ~IsSemantics /\ ~IsJump /\ ~IsPending
  /\ IsSemantics => ~IsQueued /\ ~IsJump /\ ~IsPending
  /\ IsJump => ~IsQueued /\ ~IsSemantics /\ ~IsPending
  /\ IsPending => ~IsQueued /\ ~IsSemantics /\ ~IsJump
BY DEF IsQueued, IsSemantics, IsJump, IsPending

\* Every step of the composition that is one of sig_queued.c.
LEMMA QueueStep == ASSUME IsQueued, [Next]_vars PROVE [Q!Next]_(Q!vars)
<1>1. Next => Q!Next \/ UNCHANGED vars
  BY OneProgram DEF Next, MainStep, ChildStep, KillChild, Send, Tick, Terminated,
     Queued, Semantics, Jump, Pending, Q!Next
<1>2. UNCHANGED vars => UNCHANGED Q!vars
  BY DEF vars, queuedvars, Q!vars, Q!clock, Q!parent, Q!flags, Q!main, Q!child
<1> QED
  BY <1>1, <1>2

\* Every step of the composition that is one of sigaction_semantics.c or
\* signal_semantics.c.
LEMMA SemStep == ASSUME IsSemantics, [Next]_vars PROVE [S!Next]_(S!vars)
<1>1. Next => S!Next \/ UNCHANGED vars
  BY OneProgram DEF Next, MainStep, ChildStep, KillChild, Send, Tick, Terminated,
     Queued, Semantics, Jump, Pending, S!Next
<1>2. UNCHANGED vars => UNCHANGED S!vars
  BY DEF vars, semvars, S!vars, S!clock
<1> QED
  BY <1>1, <1>2

\* Every step of the composition that is one of sigsetjmp.c.
LEMMA JumpStep == ASSUME IsJump, [Next]_vars PROVE [J!Next]_(J!vars)
<1>1. Next => J!Next \/ UNCHANGED vars
  BY OneProgram DEF Next, MainStep, ChildStep, KillChild, Send, Tick, Terminated,
     Queued, Semantics, Jump, Pending, J!Next
<1>2. UNCHANGED vars => UNCHANGED J!vars
  BY DEF vars, jumpvars, J!vars, J!time, J!jump
<1> QED
  BY <1>1, <1>2

\* Every step of the composition that is one of sigpending.c or sig_mask.c.
LEMMA PendStep == ASSUME IsPending, [Next]_vars PROVE [P!Next]_(P!vars)
<1>1. Next => P!Next \/ UNCHANGED vars
  BY OneProgram DEF Next, MainStep, ChildStep, KillChild, Send, Tick, Terminated,
     Queued, Semantics, Jump, Pending, P!Next
<1>2. UNCHANGED vars => UNCHANGED P!vars
  BY DEF vars, P!vars
<1> QED
  BY <1>1, <1>2

\* No step exchanges the program.
LEMMA SameProgram == ASSUME [Next]_vars PROVE program' = program
<1>1. P!Next => program' = program
  BY DEF P!Next, P!Step, P!Send, P!PrMask, P!SetHandler, P!BlockQuit, P!Sleep, P!Sigpending,
     P!Restore, P!PrintUnblocked, P!Exit, P!Deliver, P!PrintCatch, P!Reset, P!Return,
     P!InMain, P!InHandler, P!vars
<1>2. CASE IsPending
  <2>1. [P!Next]_(P!vars)
    BY <1>2, PendStep
  <2> QED
    BY <2>1, <1>1 DEF P!vars
<1>3. CASE ~IsPending
  <2>1. Next => UNCHANGED program
    BY <1>3 DEF Next, MainStep, ChildStep, KillChild, Send, Tick, Terminated,
       Queued, Semantics, Jump, Pending, vars
  <2> QED
    BY <2>1 DEF vars
<1> QED
  BY <1>2, <1>3

\* A behaviour of the composition in which one of the programs runs is one of its
\* module.
LEMMA QueueImplements == Spec => [](~IsQueued) \/ (Q!Spec /\ []IsQueued)
<1>1. ~IsQueued /\ [Next]_vars => ~IsQueued'
  BY SameProgram DEF IsQueued
<1>2. IsQueued /\ [Next]_vars => IsQueued' /\ [Q!Next]_(Q!vars)
  BY SameProgram, QueueStep DEF IsQueued
<1> QED
  BY <1>1, <1>2, QueueStart, PTL DEF Spec, Q!Spec

LEMMA SemImplements == Spec => [](~IsSemantics) \/ (S!Spec /\ []IsSemantics)
<1>1. ~IsSemantics /\ [Next]_vars => ~IsSemantics'
  BY SameProgram DEF IsSemantics
<1>2. IsSemantics /\ [Next]_vars => IsSemantics' /\ [S!Next]_(S!vars)
  BY SameProgram, SemStep DEF IsSemantics
<1> QED
  BY <1>1, <1>2, SemStart, PTL DEF Spec, S!Spec

LEMMA JumpImplements == Spec => [](~IsJump) \/ (J!Spec /\ []IsJump)
<1>1. ~IsJump /\ [Next]_vars => ~IsJump'
  BY SameProgram DEF IsJump
<1>2. IsJump /\ [Next]_vars => IsJump' /\ [J!Next]_(J!vars)
  BY SameProgram, JumpStep DEF IsJump
<1> QED
  BY <1>1, <1>2, JumpStart, PTL DEF Spec, J!Spec

LEMMA PendImplements == Spec => [](~IsPending) \/ (P!Spec /\ []IsPending)
<1>1. ~IsPending /\ [Next]_vars => ~IsPending'
  BY SameProgram DEF IsPending
<1>2. IsPending /\ [Next]_vars => IsPending' /\ [P!Next]_(P!vars)
  BY SameProgram, PendStep DEF IsPending
<1> QED
  BY <1>1, <1>2, PendStart, PTL DEF Spec, P!Spec

\* The bound of the composition is one of SigJump and SigPending.
LEMMA SentBound == MaxSent \in Nat
BY MaxSentAssumption

\* No SIGQUIT is counted twice, although the handlers nest (sig_queued.c:72).
THEOREM CountRight == Spec => []CountBound
<1>1. Q!Spec => []Q!IInv
  BY QueueInductive
<1>2. Q!IInv => CountBound
  BY QueueBounded DEF CountBound
<1>3. ~IsQueued => CountBound
  BY DEF CountBound
<1> QED
  BY <1>1, <1>2, <1>3, QueueImplements, PTL

\* One handler at a time is in WAIT_CHILD (sig_queued.c:73-76).
THEOREM WaiterRight == Spec => []OneWaiter
<1>1. Q!Spec => []Q!IInv
  BY QueueInductive
<1>2. Q!IInv => OneWaiter
  BY QueueOneWaits DEF OneWaiter
<1>3. ~IsQueued => OneWaiter
  BY DEF OneWaiter
<1> QED
  BY <1>1, <1>2, <1>3, QueueImplements, PTL

\* WAIT_CHILD ends only when the child has told (sig_queued.c:141-143).
THEOREM WaitEndRight == Spec => []WaitEndsOnTell
<1>1. Q!Spec => []Q!IInv
  BY QueueInductive
<1>2. Q!IInv => WaitEndsOnTell
  BY QueueTellEnds DEF WaitEndsOnTell
<1>3. ~IsQueued => WaitEndsOnTell
  BY DEF WaitEndsOnTell
<1> QED
  BY <1>1, <1>2, <1>3, QueueImplements, PTL

\* On an idle machine all four SIGQUITs are counted, and none goes to another
\* process (sig_queued.c:38-55).
THEOREM CountedRight == Spec => []AllCounted
<1>1. Q!Spec => []Q!IInv
  BY QueueInductive
<1>2. Q!IInv => AllCounted
  BY QueueNoneLost DEF AllCounted
<1>3. ~IsQueued => AllCounted
  BY DEF AllCounted
<1> QED
  BY <1>1, <1>2, <1>3, QueueImplements, PTL

\* The answers that are printed of the kernel's semantics are right
\* (sigaction_semantics.c:87-93, 121-125, 156, 199, 242, 285).
THEOREM AnswersAreRight == Spec => []AnswersRight
<1>1. S!Spec => []S!IInv
  BY SemInductive
<1>2. S!IInv => AnswersRight
  BY DEF AnswersRight, S!IInv
<1>3. ~IsSemantics => AnswersRight
  BY DEF AnswersRight
<1> QED
  BY <1>1, <1>2, <1>3, SemImplements, PTL

\* Each question starts without a signal of an earlier one, pending or in a handler
\* (sigaction_semantics.c:101, 140, 183, 226, 269).
THEOREM QuestionsAreApart == Spec => []QuestionsApart
<1>1. S!Spec => []S!IInv
  BY SemInductive
<1>2. S!IInv => QuestionsApart
  BY SemApart DEF QuestionsApart
<1>3. ~IsSemantics => QuestionsApart
  BY DEF QuestionsApart
<1> QED
  BY <1>1, <1>2, <1>3, SemImplements, PTL

\* A signal kills the parent only between the start of sig_usr2 and its call of signal,
\* and never on an idle machine (signal_semantics.c:19-23).
THEOREM KilledOnlyInWindow == Spec => []KilledInWindow
<1>1. S!Spec => []S!IInv
  BY SemInductive
<1>2. S!IInv => KilledInWindow
  BY DEF KilledInWindow, S!IInv
<1>3. ~IsSemantics => KilledInWindow
  BY DEF KilledInWindow
<1> QED
  BY <1>1, <1>2, <1>3, SemImplements, PTL

\* The masks that are shown, and their order (sigsetjmp.c:36-37, 51, 61, 69), for any number of
\* SIGUSR1s.
THEOREM MasksShownRight == Spec => []MasksShown
<1>1. J!Spec => []J!IInv
  BY SentBound, JumpInductive
<1>2. J!IInv => MasksShown
  BY DEF MasksShown, J!IInv
<1>3. ~IsJump => MasksShown
  BY DEF MasksShown
<1> QED
  BY <1>1, <1>2, <1>3, JumpImplements, PTL

\* Without the saved mask the jump is made once, and canjump would tell when it is
\* undefined (sigsetjmp.c:36-41, 71), for any number of SIGUSR1s.
THEOREM JumpsRight == Spec => []JumpsOnce
<1>1. J!Spec => []J!IInv
  BY SentBound, JumpInductive
<1>2. J!IInv => JumpsOnce
  BY DEF JumpsOnce, J!IInv
<1>3. ~IsJump => JumpsOnce
  BY DEF JumpsOnce
<1> QED
  BY <1>1, <1>2, <1>3, JumpImplements, PTL

\* What is shown of a blocked SIGQUIT (sigpending.c:32, 62-69; sig_mask.c), for any number
\* of SIGQUITs.
THEOREM PendingRight == Spec => []PendingShown
<1>1. P!Spec => []P!IInv
  BY SentBound, PendInductive
<1>2. P!IInv => PendingShown
  BY DEF PendingShown, P!IInv
<1>3. ~IsPending => PendingShown
  BY DEF PendingShown
<1> QED
  BY <1>1, <1>2, <1>3, PendImplements, PTL
=============================================================================
