-------------------------- MODULE Processes_proofs --------------------------
(***************************************************************************)
(* The programs about processes and threads: the inductive invariants of   *)
(* SigChld, Commands, Accounting, Streams and Threads, and what they and   *)
(* NiceInfluence_proofs say of the composition that the model checker      *)
(* runs.                                                                   *)
(***************************************************************************)
EXTENDS Processes, SequenceTheorems, FiniteSetTheorems, TLAPS

NP == INSTANCE NiceInfluence_proofs

---------------------------------------------------------------------------
(* SigChld: both verdicts, for any number of children in the first part.   *)

ChldSigs    == H!SignalState(H!Signals, {"sig_chld"})
ChldActions == [handler : {"sig_chld", "SIG_DFL", "SIG_IGN"},
                flags : SUBSET {"restart", "reset", "nodefer"}]

\* What the kernel's operations do to the one signal that matters.
LEMMA ChldGenerated ==
  ASSUME sig \in ChldSigs
  PROVE  LET new == H!Generate(sig, "SIGCHLD")
         IN  /\ new \in ChldSigs /\ new.mask = sig.mask /\ new.act = sig.act
             /\ new.pending = IF H!IsIgnored(sig, "SIGCHLD") /\ "SIGCHLD" \notin sig.mask
                              THEN sig.pending ELSE sig.pending \cup {"SIGCHLD"}
BY DEF ChldSigs, H!SignalState, H!Generate, H!Signals

LEMMA ChldInstalled ==
  ASSUME sig \in ChldSigs, NEW action \in ChldActions
  PROVE  LET new == H!Install(sig, "SIGCHLD", action)
         IN  /\ new \in ChldSigs /\ new.mask = sig.mask
             /\ H!Handler(new, "SIGCHLD") = action.handler
             /\ H!Flags(new, "SIGCHLD") = action.flags
             /\ sig.pending = {} => new.pending = {}
BY DEF ChldSigs, H!SignalState, H!Install, H!Signals, ChldActions, H!Handler, H!Flags, H!IsIgnored

LEMMA ChldEntered ==
  ASSUME sig \in ChldSigs, H!Flags(sig, "SIGCHLD") = {"restart"}
  PROVE  LET new == H!Enter(sig, "SIGCHLD")
         IN  /\ new \in ChldSigs /\ new.act = sig.act
             /\ new.mask = {"SIGCHLD"} /\ new.pending = {}
BY DEF ChldSigs, H!SignalState, H!Enter, H!Signals, H!Flags

LEMMA ChldMaskSet ==
  ASSUME sig \in ChldSigs, NEW set \in SUBSET H!Signals
  PROVE  LET new == H!SetMask(sig, set)
         IN  /\ new \in ChldSigs /\ new.act = sig.act
             /\ new.mask = set /\ new.pending = sig.pending
BY DEF ChldSigs, H!SignalState, H!SetMask, H!Signals

\* The children of both parts.
LEMMA ChldKidsAre ==
  ASSUME NKids \in Nat \ {0}
  PROVE  /\ H!Kids = (1 .. NKids) \cup {H!Last} /\ H!Last \notin 1 .. NKids
         /\ NKids \in 1 .. NKids
BY DEF H!Kids, H!Last

---------------------------------------------------------------------------
\* Init establishes the invariant.
LEMMA ChldInitIInv == ASSUME NKids \in Nat \ {0}, H!Init PROVE H!IInv
<1>1. /\ sig \in ChldSigs /\ sig.pending = {} /\ sig.mask = {}
      /\ H!Handler(sig, "SIGCHLD") = "SIG_DFL"
  BY DEF H!Init, H!NoActions, ChldSigs, H!SignalState, H!Signals, H!Default, H!Handler
<1>2. H!TypeOK
  BY <1>1 DEF H!Init, H!TypeOK, ChldSigs
<1>3. \A k \in H!Kids : kid[k] = "none"
  BY DEF H!Init
<1>4. H!Last \in H!Kids /\ \A k \in 1 .. NKids : k \in H!Kids
  BY ChldKidsAre
<1> QED
  BY <1>1, <1>2, <1>3, <1>4 DEF H!Init, H!IInv, H!NoHandlerYet, H!Calm, H!FirstPart,
     H!SecondPart, H!AtLastWait, H!IgnoreVerdictRight, H!HandlerVerdictRight

\* A child ends: SIGCHLD is generated, and thrown away while it is ignored.
LEMMA ChldChildEndIInv ==
  ASSUME NKids \in Nat \ {0}, H!IInv, NEW k \in H!Kids, H!ChildEnd(k)
  PROVE  H!IInv'
<1> DEFINE thrown == discards /\ H!Handler(sig, "SIGCHLD") = "SIG_IGN"
<1>1. /\ kid[k] = "running"
      /\ kid' = [kid EXCEPT ![k] = IF thrown THEN "gone" ELSE "zombie"]
      /\ sig' = H!Generate(sig, "SIGCHLD")
      /\ UNCHANGED <<program, discards, eager, mpc, hpc, saved, count, verdict1, verdict2>>
  BY DEF H!ChildEnd, H!kernel, H!handler, H!verdicts
<1>2. sig \in ChldSigs /\ sig' \in ChldSigs /\ sig'.mask = sig.mask /\ sig'.act = sig.act
  BY <1>1, ChldGenerated DEF H!IInv, H!TypeOK, ChldSigs
<1>3. H!Handler(sig', "SIGCHLD") = H!Handler(sig, "SIGCHLD")
  BY <1>2 DEF H!Handler
<1>4. mpc # "wait last"
  BY <1>1, ChldKidsAre DEF H!IInv, H!SecondPart, H!AtLastWait, H!Calm
<1>5. mpc # "ended" => sig'.pending = {}
  BY <1>1, <1>2, <1>4, ChldGenerated DEF H!IInv, H!NoHandlerYet, H!Calm, H!IsIgnored,
     ChldSigs, H!TypeOK
<1> HIDE DEF thrown
<1>6. H!TypeOK'
  <2>1. kid' \in [H!Kids -> {"none", "running", "zombie", "gone"}]
    BY <1>1 DEF H!IInv, H!TypeOK
  <2> QED
    BY <1>1, <1>2, <2>1 DEF H!IInv, H!TypeOK, ChldSigs
<1>7. H!NoHandlerYet'
  BY <1>1, <1>2, <1>3, <1>4, <1>5 DEF H!IInv, H!NoHandlerYet, H!Calm
<1>8. H!FirstPart'
  <2>1. mpc \in {"fork", "wait"} => (thrown <=> discards)
    BY DEF H!IInv, H!NoHandlerYet, thrown
  <2> QED
    BY <1>1, <2>1, ChldKidsAre DEF H!IInv, H!TypeOK, H!FirstPart
<1>9. H!SecondPart'
  <2>1. mpc = "waitid" => ~thrown
    BY DEF H!IInv, H!NoHandlerYet, thrown
  <2> QED
    BY <1>1, <1>4, <2>1, ChldKidsAre DEF H!IInv, H!TypeOK, H!SecondPart
<1> QED
  BY <1>1, <1>4, <1>6, <1>7, <1>8, <1>9 DEF H!IInv, H!AtLastWait, H!IgnoreVerdictRight,
     H!HandlerVerdictRight

---------------------------------------------------------------------------
\* Signal before there is a handler, with SIG_IGN or SIG_DFL: nothing is pending.
LEMMA ChldNotHandled ==
  ASSUME H!IInv, H!Calm, NEW action \in {H!Ignore, H!Default}, H!Signal(action)
  PROVE  /\ sig' \in ChldSigs /\ sig'.pending = {} /\ sig'.mask = {}
         /\ H!Handler(sig', "SIGCHLD") = action.handler
<1> DEFINE new == H!Install(sig, "SIGCHLD", action)
<1>1. action \in ChldActions /\ action.handler \in {"SIG_IGN", "SIG_DFL"}
  BY DEF ChldActions, H!Ignore, H!Default
<1>2. sig \in ChldSigs /\ sig.pending = {} /\ sig.mask = {}
  BY DEF H!IInv, H!TypeOK, H!Calm, ChldSigs
<1>3. /\ new \in ChldSigs /\ new.mask = {} /\ new.pending = {}
      /\ H!Handler(new, "SIGCHLD") = action.handler
  BY <1>1, <1>2, ChldInstalled
<1>4. sig' = new
  BY <1>1, <1>3 DEF H!Signal, H!IsCaught
<1> QED
  BY <1>3, <1>4

LEMMA ChldSetIgnoreIInv == ASSUME NKids \in Nat \ {0}, H!IInv, H!SetIgnore PROVE H!IInv'
<1>1. /\ mpc = "ignore" /\ mpc' = "fork" /\ H!Calm
      /\ UNCHANGED <<program, discards, eager, hpc, saved, kid, count,
                     verdict1, verdict2>>
  BY DEF H!SetIgnore, H!InMain, H!kernel, H!handler, H!verdicts, H!IInv, H!NoHandlerYet
<1>2. /\ sig' \in ChldSigs /\ sig'.pending = {} /\ sig'.mask = {}
      /\ H!Handler(sig', "SIGCHLD") = "SIG_IGN"
  BY <1>1, ChldNotHandled DEF H!SetIgnore, H!Ignore
<1>3. H!TypeOK'
  BY <1>1, <1>2 DEF H!IInv, H!TypeOK, ChldSigs
<1>4. H!NoHandlerYet' /\ H!FirstPart'
  BY <1>1, <1>2 DEF H!IInv, H!NoHandlerYet, H!Calm, H!FirstPart
<1> QED
  BY <1>1, <1>3, <1>4 DEF H!IInv, H!SecondPart, H!AtLastWait, H!IgnoreVerdictRight,
     H!HandlerVerdictRight

LEMMA ChldSetDefaultIInv == ASSUME NKids \in Nat \ {0}, H!IInv, H!SetDefault PROVE H!IInv'
<1>1. /\ mpc = "default" /\ mpc' = "fork last" /\ H!Calm
      /\ UNCHANGED <<program, discards, eager, hpc, saved, kid, count,
                     verdict1, verdict2>>
  BY DEF H!SetDefault, H!InMain, H!kernel, H!handler, H!verdicts, H!IInv, H!NoHandlerYet
<1>2. /\ sig' \in ChldSigs /\ sig'.pending = {} /\ sig'.mask = {}
      /\ H!Handler(sig', "SIGCHLD") = "SIG_DFL"
  BY <1>1, ChldNotHandled DEF H!SetDefault, H!Default
<1>3. H!TypeOK'
  BY <1>1, <1>2 DEF H!IInv, H!TypeOK, ChldSigs
<1>4. H!NoHandlerYet' /\ H!SecondPart'
  BY <1>1, <1>2 DEF H!IInv, H!NoHandlerYet, H!Calm, H!SecondPart
<1> QED
  BY <1>1, <1>3, <1>4 DEF H!IInv, H!FirstPart, H!AtLastWait, H!IgnoreVerdictRight,
     H!HandlerVerdictRight

\* The handler is set when the child has ended, and an eager kernel invokes it.
LEMMA ChldSetHandlerIInv == ASSUME NKids \in Nat \ {0}, H!IInv, H!SetHandler PROVE H!IInv'
<1> DEFINE action == H!Catch("sig_chld", {"restart"})
           new == H!Install(sig, "SIGCHLD", action)
<1>1. /\ mpc = "handle" /\ mpc' = "wait last" /\ H!Calm
      /\ program = "sigchld" /\ kid[H!Last] = "zombie" /\ H!Last \in H!Kids
      /\ UNCHANGED <<program, discards, eager, hpc, saved, kid, count,
                     verdict1, verdict2>>
  BY ChldKidsAre DEF H!SetHandler, H!InMain, H!kernel, H!handler, H!verdicts, H!IInv,
     H!NoHandlerYet, H!SecondPart
<1>2. /\ sig \in ChldSigs /\ action \in ChldActions
      /\ action.handler = "sig_chld" /\ action.flags = {"restart"}
  BY DEF H!IInv, H!TypeOK, ChldSigs, ChldActions, H!Catch
<1> HIDE DEF action
<1>3. /\ new \in ChldSigs /\ new.mask = {} /\ new.pending = {}
      /\ H!Handler(new, "SIGCHLD") = "sig_chld" /\ H!Flags(new, "SIGCHLD") = {"restart"}
  BY <1>1, <1>2, ChldInstalled DEF H!Calm
<1>4. sig' = IF eager THEN H!Generate(new, "SIGCHLD") ELSE new
  BY <1>1, <1>3 DEF H!SetHandler, H!Signal, H!IsCaught, H!Zombies, action
<1> HIDE DEF new
<1>5. LET after == H!Generate(new, "SIGCHLD")
      IN  /\ after \in ChldSigs /\ after.mask = new.mask /\ after.act = new.act
          /\ after.pending = {"SIGCHLD"}
  BY <1>3 DEF ChldSigs, H!SignalState, H!Generate, H!Signals, H!IsIgnored, H!Handler
<1>6. /\ sig' \in ChldSigs /\ sig'.mask = {}
      /\ H!Handler(sig', "SIGCHLD") = "sig_chld" /\ H!Flags(sig', "SIGCHLD") = {"restart"}
      /\ sig'.pending = IF eager THEN {"SIGCHLD"} ELSE {}
  BY <1>3, <1>4, <1>5 DEF H!Handler, H!Flags
<1>7. H!TypeOK'
  BY <1>1, <1>6 DEF H!IInv, H!TypeOK, ChldSigs
<1>8. H!NoHandlerYet' /\ H!SecondPart' /\ H!AtLastWait'
  BY <1>1, <1>6 DEF H!IInv, H!NoHandlerYet, H!Calm, H!SecondPart, H!AtLastWait
<1> QED
  BY <1>1, <1>7, <1>8 DEF H!IInv, H!FirstPart, H!IgnoreVerdictRight, H!HandlerVerdictRight

---------------------------------------------------------------------------
\* The steps of main that leave the signals alone.
LEMMA ChldForkKidIInv == ASSUME NKids \in Nat \ {0}, H!IInv, H!ForkKid PROVE H!IInv'
<1> PICK k \in 1 .. NKids :
      /\ kid[k] = "none" /\ \A j \in 1 .. k - 1 : kid[j] # "none"
      /\ \/ /\ kid' = [kid EXCEPT ![k] = "running"]
            /\ mpc' = IF k = NKids THEN "wait" ELSE "fork"
         \/ kid' = kid /\ mpc' = "fork error"
  BY DEF H!ForkKid
<1>1. /\ mpc = "fork"
      /\ UNCHANGED <<program, discards, eager, sig, hpc, saved, count,
                     verdict1, verdict2>>
  BY DEF H!ForkKid, H!InMain, H!kernel, H!handler, H!verdicts
<1>2. H!TypeOK'
  <2>1. kid' \in [H!Kids -> {"none", "running", "zombie", "gone"}]
    BY DEF H!IInv, H!TypeOK
  <2> QED
    BY <1>1, <2>1 DEF H!IInv, H!TypeOK
<1>3. H!NoHandlerYet'
  BY <1>1 DEF H!IInv, H!NoHandlerYet, H!Calm
<1>4. mpc' = "wait" => \A j \in 1 .. NKids : kid'[j] # "none"
  <2> SUFFICES ASSUME mpc' = "wait", NEW j \in 1 .. NKids PROVE kid'[j] # "none"
    OBVIOUS
  <2>1. k = NKids /\ kid' = [kid EXCEPT ![k] = "running"]
    OBVIOUS
  <2>2. j = k \/ j \in 1 .. k - 1
    BY <2>1
  <2> QED
    BY <2>1, <2>2, ChldKidsAre DEF H!IInv, H!TypeOK
<1>5. H!FirstPart'
  BY <1>1, <1>4, ChldKidsAre DEF H!IInv, H!TypeOK, H!FirstPart
<1> QED
  BY <1>1, <1>2, <1>3, <1>5 DEF H!IInv, H!SecondPart, H!AtLastWait, H!IgnoreVerdictRight,
     H!HandlerVerdictRight

LEMMA ChldWaitKidIInv == ASSUME NKids \in Nat \ {0}, H!IInv, H!WaitKid PROVE H!IInv'
<1> PICK k \in H!Kids : kid[k] = "zombie" /\ kid' = [kid EXCEPT ![k] = "gone"]
  BY DEF H!WaitKid, H!Reap
<1>1. /\ mpc = "wait" /\ count' = count + 1
      /\ UNCHANGED <<program, discards, eager, sig, mpc, hpc, saved,
                     verdict1, verdict2>>
  BY DEF H!WaitKid, H!InMain, H!kernel, H!handler, H!verdicts
<1>2. ~discards /\ count' \in Nat /\ count' > 0
  <2>1. count \in Nat
    BY DEF H!IInv, H!TypeOK
  <2>2. count' \in Nat /\ count' > 0
    BY <1>1, <2>1
  <2>3. ~discards
    BY <1>1 DEF H!IInv, H!FirstPart
  <2> QED
    BY <2>2, <2>3
<1>3. H!TypeOK'
  <2>1. kid' \in [H!Kids -> {"none", "running", "zombie", "gone"}]
    BY DEF H!IInv, H!TypeOK
  <2> QED
    BY <1>1, <1>2, <2>1 DEF H!IInv, H!TypeOK
<1>4. H!NoHandlerYet'
  BY <1>1 DEF H!IInv, H!NoHandlerYet, H!Calm
<1>5. /\ kid[H!Last] = "none" /\ \A j \in 1 .. NKids : kid[j] # "none"
      /\ H!Last \in H!Kids /\ \A j \in 1 .. NKids : j \in H!Kids
  BY <1>1, ChldKidsAre DEF H!IInv, H!FirstPart
<1>6. kid'[H!Last] = "none" /\ \A j \in 1 .. NKids : kid'[j] # "none"
  BY <1>5 DEF H!IInv, H!TypeOK
<1>7. H!FirstPart'
  BY <1>1, <1>2, <1>6 DEF H!FirstPart
<1> QED
  BY <1>1, <1>3, <1>4, <1>7 DEF H!IInv, H!SecondPart, H!AtLastWait, H!IgnoreVerdictRight,
     H!HandlerVerdictRight

\* wait fails when there are no children; they have been counted or thrown away.
LEMMA ChldWaitEndIInv == ASSUME NKids \in Nat \ {0}, H!IInv, H!WaitEnd PROVE H!IInv'
<1>1. /\ mpc = "wait" /\ mpc' = "default"
      /\ \A k \in H!Kids : kid[k] \notin {"running", "zombie"}
      /\ verdict1' = IF count # 0 THEN "SIG_DFL" ELSE "throw away"
      /\ UNCHANGED <<program, discards, eager, sig, hpc, saved, kid, count, verdict2>>
  BY DEF H!WaitEnd, H!InMain, H!Children, H!kernel, H!handler
<1>2. kid[NKids] = "gone"
  BY <1>1, ChldKidsAre DEF H!IInv, H!TypeOK, H!FirstPart
<1>3. H!IgnoreVerdictRight'
  <2>1. CASE discards
    BY <1>1, <2>1 DEF H!IInv, H!FirstPart, H!IgnoreVerdictRight
  <2>2. CASE ~discards
    <3>1. NKids \in H!Kids
      BY ChldKidsAre
    <3>2. count > 0
      BY <1>1, <1>2, <2>2, <3>1 DEF H!IInv, H!FirstPart
    <3>3. count \in Nat
      BY DEF H!IInv, H!TypeOK
    <3>4. count # 0
      BY <3>2, <3>3
    <3>5. verdict1' = "SIG_DFL"
      BY <1>1, <3>4
    <3> QED
      BY <1>1, <2>2, <3>5 DEF H!IgnoreVerdictRight
  <2> QED
    BY <2>1, <2>2
<1>4. H!TypeOK'
  BY <1>1 DEF H!IInv, H!TypeOK
<1>5. H!NoHandlerYet' /\ H!SecondPart'
  BY <1>1, ChldKidsAre DEF H!IInv, H!TypeOK, H!NoHandlerYet, H!Calm, H!FirstPart, H!SecondPart
<1> QED
  BY <1>1, <1>3, <1>4, <1>5 DEF H!IInv, H!FirstPart, H!AtLastWait, H!HandlerVerdictRight

LEMMA ChldForkLastIInv == ASSUME NKids \in Nat \ {0}, H!IInv, H!ForkLast PROVE H!IInv'
<1>1. /\ mpc = "fork last" /\ H!Last \in H!Kids /\ H!Last \notin 1 .. NKids
      /\ \/ kid' = [kid EXCEPT ![H!Last] = "running"] /\ mpc' = "waitid"
         \/ kid' = kid /\ mpc' = "fork error"
      /\ UNCHANGED <<program, discards, eager, sig, hpc, saved, count,
                     verdict1, verdict2>>
  BY ChldKidsAre DEF H!ForkLast, H!InMain, H!kernel, H!handler, H!verdicts
<1>2. H!TypeOK'
  <2>1. kid' \in [H!Kids -> {"none", "running", "zombie", "gone"}]
    BY <1>1 DEF H!IInv, H!TypeOK
  <2> QED
    BY <1>1, <2>1 DEF H!IInv, H!TypeOK
<1>3. H!NoHandlerYet' /\ H!SecondPart'
  BY <1>1, ChldKidsAre DEF H!IInv, H!TypeOK, H!NoHandlerYet, H!Calm, H!SecondPart
<1> QED
  BY <1>1, <1>2, <1>3 DEF H!IInv, H!FirstPart, H!AtLastWait, H!IgnoreVerdictRight,
     H!HandlerVerdictRight

LEMMA ChldWaitidIInv == ASSUME NKids \in Nat \ {0}, H!IInv, H!Waitid PROVE H!IInv'
<1>1. /\ mpc = "waitid" /\ kid[H!Last] = "zombie"
      /\ mpc' = IF program = "sigchld" THEN "handle" ELSE "wait last"
      /\ UNCHANGED <<program, discards, eager, sig, hpc, saved, kid, count,
                     verdict1, verdict2>>
  BY DEF H!Waitid, H!AfterWaitid, H!InMain, H!kernel, H!handler, H!verdicts
<1>2. H!TypeOK'
  BY <1>1 DEF H!IInv, H!TypeOK
<1>3. H!NoHandlerYet' /\ H!SecondPart' /\ H!AtLastWait'
  BY <1>1 DEF H!IInv, H!TypeOK, H!NoHandlerYet, H!Calm, H!SecondPart, H!AtLastWait
<1> QED
  BY <1>1, <1>2, <1>3 DEF H!IInv, H!FirstPart, H!IgnoreVerdictRight, H!HandlerVerdictRight

\* The last wait: an eager kernel has invoked the handler before it.
LEMMA ChldWaitLastIInv == ASSUME NKids \in Nat \ {0}, H!IInv, H!WaitLast PROVE H!IInv'
<1>1. /\ mpc = "wait last" /\ mpc' = "ended" /\ hpc = "none"
      /\ sig.pending \ sig.mask = {}
      /\ UNCHANGED <<program, discards, eager, sig, hpc, saved, count, verdict1>>
  BY DEF H!WaitLast, H!InMain, H!Deliverable, H!kernel, H!handler
<1>2. \/ /\ \E k \in H!Kids : kid[k] = "zombie" /\ kid' = [kid EXCEPT ![k] = "gone"]
         /\ verdict2' = "left"
      \/ /\ \A k \in H!Kids : kid[k] # "zombie"
         /\ kid' = kid /\ verdict2' = "gone"
  BY DEF H!WaitLast, H!Reap, H!Children
<1>3. \A k \in H!Kids : kid[k] = "zombie" => k = H!Last
  BY <1>1, ChldKidsAre DEF H!IInv, H!SecondPart
<1>4. H!Last \in H!Kids
  BY ChldKidsAre
<1>5. program = "sigchld" /\ eager => kid[H!Last] = "gone"
  BY <1>1 DEF H!IInv, H!AtLastWait
<1>6. ~(program = "sigchld" /\ eager) => kid[H!Last] = "zombie"
  BY <1>1 DEF H!IInv, H!AtLastWait
<1>7. H!HandlerVerdictRight'
  BY <1>1, <1>2, <1>3, <1>4, <1>5, <1>6 DEF H!IInv, H!TypeOK, H!HandlerVerdictRight
<1>8. H!TypeOK'
  <2>1. kid' \in [H!Kids -> {"none", "running", "zombie", "gone"}]
    BY <1>2 DEF H!IInv, H!TypeOK
  <2> QED
    BY <1>1, <1>2, <2>1 DEF H!IInv, H!TypeOK
<1> QED
  BY <1>1, <1>7, <1>8 DEF H!IInv, H!NoHandlerYet, H!FirstPart, H!SecondPart, H!AtLastWait,
     H!IgnoreVerdictRight

---------------------------------------------------------------------------
\* The handler, which runs at the last wait alone.
LEMMA ChldDeliverIInv == ASSUME NKids \in Nat \ {0}, H!IInv, H!Deliver PROVE H!IInv'
<1>1. /\ mpc \notin H!Ends /\ "SIGCHLD" \in sig.pending \ sig.mask
      /\ sig' = H!Enter(sig, "SIGCHLD") /\ hpc' = "wait" /\ saved' = sig.mask
      /\ UNCHANGED <<program, discards, eager, mpc, kid, count, verdict1, verdict2>>
  BY DEF H!Deliver, H!Deliverable, H!kernel, H!verdicts
<1>2. mpc = "wait last" /\ program = "sigchld" /\ eager /\ hpc = "none"
  BY <1>1 DEF H!IInv, H!NoHandlerYet, H!AtLastWait, H!Calm, H!Ends
<1>3. /\ H!Flags(sig, "SIGCHLD") = {"restart"} /\ H!Handler(sig, "SIGCHLD") = "sig_chld"
      /\ sig.mask = {} /\ kid[H!Last] = "zombie" /\ sig \in ChldSigs
  BY <1>1, <1>2 DEF H!IInv, H!TypeOK, H!AtLastWait, ChldSigs
<1>4. sig' \in ChldSigs /\ sig'.act = sig.act /\ sig'.pending = {}
  BY <1>1, <1>3, ChldEntered
<1>5. H!TypeOK'
  BY <1>1, <1>3, <1>4 DEF H!IInv, H!TypeOK, ChldSigs
<1>6. H!NoHandlerYet' /\ H!AtLastWait'
  BY <1>1, <1>2, <1>3, <1>4 DEF H!NoHandlerYet, H!AtLastWait, H!Handler, H!Flags
<1>7. H!SecondPart'
  BY <1>1 DEF H!IInv, H!SecondPart
<1> QED
  BY <1>1, <1>2, <1>5, <1>6, <1>7 DEF H!IInv, H!FirstPart, H!IgnoreVerdictRight,
     H!HandlerVerdictRight

LEMMA ChldHandlerWaitIInv == ASSUME NKids \in Nat \ {0}, H!IInv, H!HandlerWait PROVE H!IInv'
<1>1. /\ hpc = "wait"
      /\ UNCHANGED <<program, discards, eager, sig, saved, count, verdict1, verdict2>>
  BY DEF H!HandlerWait, H!kernel, H!verdicts
<1>2. mpc = "wait last" /\ program = "sigchld" /\ eager /\ kid[H!Last] = "zombie"
  BY <1>1 DEF H!IInv, H!NoHandlerYet, H!AtLastWait, H!Calm
<1>3. H!Last \in H!Kids /\ \A k \in H!Kids : kid[k] = "zombie" => k = H!Last
  BY <1>2, ChldKidsAre DEF H!IInv, H!SecondPart
<1>4. kid' = [kid EXCEPT ![H!Last] = "gone"] /\ hpc' = "return" /\ mpc' = mpc
  BY <1>2, <1>3 DEF H!HandlerWait, H!Children, H!Reap
<1>5. H!TypeOK'
  <2>1. kid' \in [H!Kids -> {"none", "running", "zombie", "gone"}]
    BY <1>4 DEF H!IInv, H!TypeOK
  <2> QED
    BY <1>1, <1>4, <2>1 DEF H!IInv, H!TypeOK
<1>6. H!AtLastWait' /\ H!NoHandlerYet'
  BY <1>1, <1>2, <1>3, <1>4 DEF H!IInv, H!TypeOK, H!NoHandlerYet, H!AtLastWait
<1>7. H!SecondPart'
  BY <1>2, <1>4, ChldKidsAre DEF H!IInv, H!TypeOK, H!SecondPart
<1> QED
  BY <1>1, <1>2, <1>4, <1>5, <1>6, <1>7 DEF H!IInv, H!FirstPart, H!IgnoreVerdictRight,
     H!HandlerVerdictRight

LEMMA ChldReturnIInv == ASSUME NKids \in Nat \ {0}, H!IInv, H!Return PROVE H!IInv'
<1>1. /\ hpc = "return" /\ hpc' = "none" /\ sig' = H!SetMask(sig, saved)
      /\ UNCHANGED <<program, discards, eager, mpc, saved, kid, count,
                     verdict1, verdict2>>
  BY DEF H!Return, H!kernel, H!verdicts
<1>2. mpc = "wait last" /\ program = "sigchld" /\ eager
  BY <1>1 DEF H!IInv, H!NoHandlerYet, H!AtLastWait, H!Calm
<1>3. sig.pending = {} /\ saved = {} /\ kid[H!Last] = "gone"
  BY <1>1, <1>2 DEF H!IInv, H!AtLastWait
<1>4. sig' \in ChldSigs /\ sig'.act = sig.act /\ sig'.mask = {} /\ sig'.pending = {}
  BY <1>1, <1>3, ChldMaskSet DEF H!IInv, H!TypeOK, ChldSigs
<1>5. H!TypeOK'
  BY <1>1, <1>4 DEF H!IInv, H!TypeOK, ChldSigs
<1>6. H!AtLastWait' /\ H!NoHandlerYet'
  BY <1>1, <1>2, <1>3, <1>4 DEF H!IInv, H!NoHandlerYet, H!AtLastWait, H!Handler, H!Flags
<1>7. H!SecondPart'
  BY <1>1 DEF H!IInv, H!SecondPart
<1> QED
  BY <1>1, <1>2, <1>5, <1>6, <1>7 DEF H!IInv, H!FirstPart, H!IgnoreVerdictRight,
     H!HandlerVerdictRight

---------------------------------------------------------------------------
\* Every step, or none, keeps the invariant.
LEMMA ChldNextIInv == ASSUME NKids \in Nat \ {0}, H!IInv, [H!Next]_(H!vars) PROVE H!IInv'
<1>1. CASE H!MainStep
  BY <1>1, ChldSetIgnoreIInv, ChldForkKidIInv, ChldWaitKidIInv, ChldWaitEndIInv, ChldSetDefaultIInv,
     ChldForkLastIInv, ChldWaitidIInv, ChldSetHandlerIInv, ChldWaitLastIInv DEF H!MainStep
<1>2. CASE H!HandlerStep
  BY <1>2, ChldDeliverIInv, ChldHandlerWaitIInv, ChldReturnIInv DEF H!HandlerStep
<1>3. CASE \E k \in H!Kids : H!ChildEnd(k)
  BY <1>3, ChldChildEndIInv
<1>4. CASE UNCHANGED H!vars
  <2>1. UNCHANGED <<program, discards, eager, sig, mpc, hpc, saved, kid, count,
                    verdict1, verdict2>>
    BY <1>4 DEF H!vars, H!kernel, H!handler, H!verdicts
  <2>2. H!TypeOK'
    BY <2>1 DEF H!IInv, H!TypeOK
  <2>3. H!NoHandlerYet' /\ H!FirstPart' /\ H!SecondPart' /\ H!AtLastWait'
    BY <2>1 DEF H!IInv, H!NoHandlerYet, H!Calm, H!FirstPart, H!SecondPart, H!AtLastWait
  <2>4. H!IgnoreVerdictRight' /\ H!HandlerVerdictRight'
    BY <2>1 DEF H!IInv, H!IgnoreVerdictRight, H!HandlerVerdictRight
  <2> QED
    BY <2>2, <2>3, <2>4 DEF H!IInv
<1> QED
  BY <1>1, <1>2, <1>3, <1>4 DEF H!Next, H!Terminated

\* The inductive invariant holds, for any number of children.
THEOREM ChldInductive == ASSUME NKids \in Nat \ {0} PROVE H!Spec => []H!IInv
<1>1. H!Init => H!IInv
  BY ChldInitIInv
<1>2. H!IInv /\ [H!Next]_(H!vars) => H!IInv'
  BY ChldNextIInv
<1> QED
  BY <1>1, <1>2, PTL DEF H!Spec

\* The wait of the handler does not fail: main, which waits for the same child,
\* gets no further before the handler has returned (sigchld.c:35, 98).
THEOREM ChldHandlerFindsChild ==
  ASSUME NKids \in Nat \ {0}
  PROVE  H!Spec => [](mpc # "wait error")
<1>1. H!IInv => mpc # "wait error"
  BY DEF H!IInv, H!TypeOK
<1> QED
  BY <1>1, ChldInductive, PTL

---------------------------------------------------------------------------
(* Commands: StatusTold, for any number of commands, exit codes, signals.  *)

\* What an exit code leaves in the status, and what the macros make of it.
LEMMA CmdCodeDecoded ==
  ASSUME NEW n \in 0 .. 255
  PROVE  (n * 256) % 128 = 0 /\ ((n * 256) \div 256) % 256 = n
OBVIOUS

\* The same of a signal, with a core file or without.
LEMMA CmdSignalDecoded ==
  ASSUME NEW n \in 1 .. 126
  PROVE  n % 128 = n /\ (n + 128) % 128 = n
OBVIOUS

\* pr_exit tells from a status how the process ended that left it.
LEMMA CmdDecoded ==
  ASSUME NEW outcome \in C!Outcomes, NEW s \in C!StatusOf(outcome)
  PROVE  s \in Nat /\ C!PrExit(s) = outcome
<1>1. CASE outcome \in [by : {"exit"}, n : 0 .. 255]
  <2>1. /\ outcome.by = "exit" /\ outcome.n \in 0 .. 255 /\ s = outcome.n * 256
        /\ outcome = [by |-> "exit", n |-> outcome.n]
    BY <1>1 DEF C!StatusOf
  <2>2. s \in Nat /\ s % 128 = 0 /\ (s \div 256) % 256 = outcome.n
    BY <2>1, CmdCodeDecoded
  <2>3. C!PrExit(s) = [by |-> "exit", n |-> outcome.n]
    BY <2>2 DEF C!PrExit
  <2> QED
    BY <2>1, <2>2, <2>3
<1>2. CASE outcome \in [by : {"signal"}, n : 1 .. 126]
  <2>1. /\ outcome.by = "signal" /\ outcome.n \in 1 .. 126 /\ s \in {outcome.n, outcome.n + 128}
        /\ outcome = [by |-> "signal", n |-> outcome.n]
    BY <1>2 DEF C!StatusOf
  <2>2. s \in Nat /\ s % 128 = outcome.n
    BY <2>1, CmdSignalDecoded
  <2>3. C!PrExit(s) = [by |-> "signal", n |-> outcome.n]
    BY <2>1, <2>2 DEF C!PrExit
  <2> QED
    BY <2>1, <2>2, <2>3
<1> QED
  BY <1>1, <1>2 DEF C!Outcomes

\* The ends that a command may have are outcomes.
LEMMA CmdEndsAre ==
  ASSUME C!Sizes
  PROVE  /\ \A code \in Nat : C!Exited(code) \in C!Outcomes
         /\ \A code \in Codes : C!Exited(code) \in C!Outcomes /\ C!Exited(code).n \in Nat
         /\ \A signo \in Sigs : C!Killed(signo) \in C!Outcomes
BY DEF C!Sizes, C!Exited, C!Killed, C!Outcomes

\* The two sequences of the invariant.
LEMMA CmdLengths ==
  ASSUME C!IInv
  PROVE  /\ how \in Seq(C!Outcomes) /\ lines \in Seq(C!Outcomes)
         /\ Len(how) \in Nat /\ DOMAIN how = 1 .. Len(how)
         /\ Len(lines) \in Nat /\ DOMAIN lines = 1 .. Len(lines)
<1>1. how \in Seq(C!Outcomes) /\ lines \in Seq(C!Outcomes)
  BY DEF C!IInv, C!TypeOK
<1> QED
  BY <1>1

---------------------------------------------------------------------------
LEMMA CmdInitIInv == ASSUME C!Sizes, C!Init PROVE C!IInv
<1>1. total \in Nat /\ other \in Nat
  <2>1. C!Runs(program) \subseteq Nat
    BY DEF C!Sizes, C!Runs
  <2>2. \A c \in Codes : C!Exited(c).n * 256 \in Nat
    BY CmdEndsAre
  <2> QED
    BY <2>1, <2>2 DEF C!Init
<1>2. how = <<>> /\ lines = <<>> /\ how \in Seq(C!Outcomes) /\ lines \in Seq(C!Outcomes)
  BY DEF C!Init
<1>3. Len(how) = 0 /\ Len(lines) = 0 /\ DOMAIN lines = {}
  BY <1>2
<1>4. C!TypeOK
  BY <1>1, <1>2 DEF C!Init, C!TypeOK
<1> QED
  BY <1>3, <1>4 DEF C!Init, C!IInv, C!Waiting, C!LineForEach, C!NoLineYet, C!StatusIsLast,
     C!StatusTold

\* Nothing ends or is printed: the two sequences stay as they are.
LEMMA CmdForkIInv == ASSUME C!Sizes, C!IInv, C!Fork PROVE C!IInv'
<1>1. /\ how' = how /\ lines' = lines /\ status' = status /\ other' = other
      /\ UNCHANGED <<program, total, ignored>>
      /\ mpc = "next" /\ Len(how) < total /\ child = "none"
      /\ \/ mpc' = "wait" /\ child' = "forked"
         \/ mpc' = "exit 1" /\ child' = "none"
  BY DEF C!Fork, C!MainGoto, C!IInv, C!Waiting
<1>2. C!TypeOK' /\ C!Waiting' /\ C!StatusIsLast'
  BY <1>1 DEF C!IInv, C!TypeOK, C!Waiting, C!StatusIsLast
<1>3. C!Tells => Len(how) = Len(lines)
  BY <1>1 DEF C!IInv, C!StatusTold
<1>4. C!LineForEach'
  <2>1. C!Tells => ~(Len(how) > Len(lines))
    BY <1>3, CmdLengths
  <2> QED
    BY <1>1, <1>3, <2>1 DEF C!LineForEach, C!NoLineYet, C!Tells
<1>5. C!StatusTold'
  <2>1. C!Tells => Len(how) <= Len(lines) + 1
    BY <1>3, CmdLengths
  <2> QED
    BY <1>1, <2>1 DEF C!IInv, C!StatusTold, C!Tells
<1> QED
  BY <1>2, <1>4, <1>5 DEF C!IInv

LEMMA CmdReturnIInv == ASSUME C!Sizes, C!IInv, C!Return PROVE C!IInv'
<1>1. /\ how' = how /\ lines' = lines /\ status' = status /\ other' = other
      /\ UNCHANGED <<program, total, ignored>> /\ child' = child
      /\ mpc = "next" /\ mpc' = "exit 0" /\ Len(how) = total /\ child = "none"
  BY DEF C!Return, C!MainGoto, C!IInv, C!Waiting
<1>2. C!TypeOK' /\ C!Waiting' /\ C!StatusIsLast'
  BY <1>1 DEF C!IInv, C!TypeOK, C!Waiting, C!StatusIsLast
<1>3. C!LineForEach'
  BY <1>1 DEF C!IInv, C!LineForEach, C!NoLineYet, C!Tells
<1>4. C!StatusTold'
  BY <1>1 DEF C!IInv, C!StatusTold, C!Tells
<1> QED
  BY <1>2, <1>3, <1>4 DEF C!IInv

LEMMA CmdWaitpidIInv == ASSUME C!Sizes, C!IInv, C!Waitpid PROVE C!IInv'
<1>1. /\ how' = how /\ lines' = lines /\ status' = status /\ other' = other
      /\ UNCHANGED <<program, total, ignored>> /\ child' = "none" /\ mpc = "wait"
      /\ \/ child = "zombie" /\ mpc' = "print"
         \/ child = "gone" /\ mpc' = "exit 1" /\ ignored
  BY DEF C!Waitpid, C!WaitFails, C!MainGoto, C!IInv, C!Waiting
<1>2. C!TypeOK' /\ C!Waiting' /\ C!StatusIsLast'
  BY <1>1 DEF C!IInv, C!TypeOK, C!Waiting, C!StatusIsLast
<1>3. C!Tells => Len(how) = Len(lines) + 1
  BY <1>1 DEF C!IInv, C!LineForEach, C!NoLineYet
<1>4. C!LineForEach'
  <2>1. C!Tells => Len(how) > Len(lines)
    BY <1>3, CmdLengths
  <2> QED
    BY <1>1, <1>3, <2>1 DEF C!LineForEach, C!NoLineYet, C!Tells
<1>5. C!StatusTold'
  <2>1. C!Tells => Len(how) <= Len(lines) + 1
    BY <1>3, CmdLengths
  <2> QED
    BY <1>1, <2>1 DEF C!IInv, C!StatusTold, C!Tells
<1> QED
  BY <1>2, <1>4, <1>5 DEF C!IInv

\* The time cannot be had: the last command stays without its line.
LEMMA CmdTimesFailIInv == ASSUME C!Sizes, C!IInv, C!PrintStatus, C!TimesFail PROVE C!IInv'
<1>1. /\ how' = how /\ lines' = lines /\ status' = status /\ other' = other
      /\ UNCHANGED <<program, total, ignored>> /\ child' = child /\ child = "none"
      /\ mpc = "print" /\ mpc' = "exit 1" /\ program = "process_times"
  BY DEF C!PrintStatus, C!TimesFail, C!MainGoto, C!IInv, C!Waiting
<1>2. C!TypeOK' /\ C!Waiting' /\ C!StatusIsLast'
  BY <1>1 DEF C!IInv, C!TypeOK, C!Waiting, C!StatusIsLast
<1>3. C!Tells => Len(how) = Len(lines) + 1
  BY <1>1 DEF C!IInv, C!LineForEach, C!NoLineYet
<1>4. C!LineForEach'
  <2>1. C!Tells => Len(how) > Len(lines)
    BY <1>3, CmdLengths
  <2> QED
    BY <1>1, <1>3, <2>1 DEF C!LineForEach, C!NoLineYet, C!Tells
<1>5. C!StatusTold'
  <2>1. C!Tells => Len(how) <= Len(lines) + 1
    BY <1>3, CmdLengths
  <2> QED
    BY <1>1, <2>1 DEF C!IInv, C!StatusTold, C!Tells
<1> QED
  BY <1>2, <1>4, <1>5 DEF C!IInv

\* pr_exit decodes the status of the last command, which has no line yet.
LEMMA CmdPrintStatusIInv == ASSUME C!Sizes, C!IInv, C!PrintStatus PROVE C!IInv'
<1> SUFFICES ASSUME ~C!TimesFail PROVE C!IInv'
  BY CmdTimesFailIInv
<1>1. /\ how' = how /\ status' = status /\ other' = other /\ child' = child
      /\ UNCHANGED <<program, total, ignored>> /\ mpc = "print" /\ mpc' = "next"
      /\ lines' = IF C!Tells THEN Append(lines, C!PrExit(status)) ELSE lines
      /\ child = "none"
  BY DEF C!PrintStatus, C!MainGoto, C!IInv, C!Waiting
<1>2. /\ how \in Seq(C!Outcomes) /\ how # <<>> /\ status \in C!StatusOf(how[Len(how)])
      /\ how[Len(how)] \in C!Outcomes
  BY <1>1 DEF C!IInv, C!TypeOK, C!StatusIsLast
<1>3. C!PrExit(status) = how[Len(how)]
  BY <1>2, CmdDecoded
<1>4. lines \in Seq(C!Outcomes) /\ Len(lines) \in Nat /\ Len(how) \in Nat
  BY CmdLengths
<1>5. lines' \in Seq(C!Outcomes)
  BY <1>1, <1>2, <1>3, <1>4
<1>6. C!TypeOK' /\ C!Waiting' /\ C!StatusIsLast'
  BY <1>1, <1>5 DEF C!IInv, C!TypeOK, C!Waiting, C!StatusIsLast
<1>7. CASE C!Tells
  <2>1. Len(how) = Len(lines) + 1
    BY <1>1, <1>7 DEF C!IInv, C!LineForEach, C!NoLineYet
  <2>2. /\ Len(lines') = Len(lines) + 1 /\ DOMAIN lines' = 1 .. Len(lines) + 1
        /\ \A k \in 1 .. Len(lines) : lines'[k] = lines[k]
        /\ lines'[Len(lines) + 1] = how[Len(how)]
    BY <1>1, <1>2, <1>3, <1>4, <1>7
  <2>3. /\ \A k \in 1 .. Len(lines) : lines[k] = how[k]
        /\ DOMAIN how = 1 .. Len(how)
    BY CmdLengths DEF C!IInv, C!StatusTold
  <2>4. \A k \in DOMAIN lines' : k \in DOMAIN how /\ lines'[k] = how[k]
    BY <1>4, <2>1, <2>2, <2>3
  <2> QED
    BY <1>1, <1>6, <1>4, <2>1, <2>2, <2>4 DEF C!IInv, C!LineForEach, C!NoLineYet, C!StatusTold
<1>8. CASE ~C!Tells
  BY <1>1, <1>6, <1>8 DEF C!IInv, C!LineForEach, C!NoLineYet, C!StatusTold, C!Tells
<1> QED
  BY <1>7, <1>8

---------------------------------------------------------------------------
\* A command ends: the status that the kernel keeps is that of the last end.
LEMMA CmdEndsIInv ==
  ASSUME C!Sizes, C!IInv, NEW outcome \in C!Outcomes, child \in {"forked", "running"},
         C!Ends(outcome)
  PROVE  C!IInv'
<1>1. /\ how' = Append(how, outcome)
      /\ UNCHANGED <<program, total, ignored, other, mpc, lines>>
      /\ \/ ignored /\ child' = "gone" /\ status' = status
         \/ ~ignored /\ child' = "zombie" /\ status' \in C!StatusOf(outcome)
      /\ mpc = "wait" /\ Len(how) < total
  BY DEF C!Ends, C!IInv, C!Waiting
<1>2. /\ how \in Seq(C!Outcomes) /\ how' \in Seq(C!Outcomes)
      /\ Len(how) \in Nat /\ Len(lines) \in Nat /\ total \in Nat
      /\ Len(how') = Len(how) + 1 /\ how' # <<>> /\ how'[Len(how')] = outcome
      /\ \A k \in DOMAIN how : k \in DOMAIN how' /\ how'[k] = how[k]
  BY <1>1 DEF C!IInv, C!TypeOK
<1>3. status' \in Nat
  BY <1>1, CmdDecoded DEF C!IInv, C!TypeOK
<1>4. C!TypeOK' /\ C!Waiting'
  BY <1>1, <1>2, <1>3 DEF C!IInv, C!TypeOK, C!Waiting
<1>5. C!StatusIsLast'
  BY <1>1, <1>2 DEF C!StatusIsLast
<1>6. C!LineForEach'
  <2>1. C!Tells => Len(how) = Len(lines)
    BY <1>1, <1>2 DEF C!IInv, C!LineForEach, C!NoLineYet
  <2> QED
    BY <1>1, <1>2, <2>1 DEF C!LineForEach, C!NoLineYet, C!Tells
<1>7. C!StatusTold'
  BY <1>1, <1>2 DEF C!IInv, C!StatusTold
<1> QED
  BY <1>4, <1>5, <1>6, <1>7 DEF C!IInv

\* The child execs, or ends by itself because it cannot.
LEMMA CmdExecIInv ==
  ASSUME C!Sizes, C!IInv, NEW failure \in Nat, C!Exec(failure)
  PROVE  C!IInv'
<1>1. CASE C!Ends(C!Exited(failure))
  BY <1>1, CmdEndsAre, CmdEndsIInv DEF C!Exec
<1>2. CASE /\ child' = "running"
           /\ UNCHANGED <<program, total, ignored, other, mpc, status, how, lines>>
  <2>1. child = "forked"
    BY DEF C!Exec
  <2>2. C!TypeOK' /\ C!Waiting' /\ C!StatusIsLast'
    BY <1>2, <2>1 DEF C!IInv, C!TypeOK, C!Waiting, C!StatusIsLast
  <2>3. C!LineForEach' /\ C!StatusTold'
    BY <1>2, <2>1 DEF C!IInv, C!LineForEach, C!NoLineYet, C!StatusTold, C!Tells
  <2> QED
    BY <2>2, <2>3 DEF C!IInv
<1> QED
  BY <1>1, <1>2 DEF C!Exec

LEMMA CmdChildIInv == ASSUME C!Sizes, C!IInv, C!ChildStep PROVE C!IInv'
<1>1. CASE C!ExecShell \/ C!ExecProgram
  BY <1>1, CmdExecIInv DEF C!ExecShell, C!ExecProgram
<1>2. CASE C!CommandEnds
  BY <1>2, CmdEndsAre, CmdEndsIInv DEF C!CommandEnds
<1> QED
  BY <1>1, <1>2 DEF C!ChildStep

LEMMA CmdNextIInv == ASSUME C!Sizes, C!IInv, [C!Next]_(C!vars) PROVE C!IInv'
<1>1. CASE C!MainStep
  BY <1>1, CmdForkIInv, CmdReturnIInv, CmdWaitpidIInv, CmdPrintStatusIInv DEF C!MainStep
<1>2. CASE C!ChildStep
  BY <1>2, CmdChildIInv
<1>3. CASE UNCHANGED C!vars
  BY <1>3 DEF C!vars, C!IInv, C!TypeOK, C!Waiting, C!LineForEach, C!NoLineYet, C!StatusIsLast,
     C!StatusTold, C!Tells
<1> QED
  BY <1>1, <1>2, <1>3 DEF C!Next

---------------------------------------------------------------------------
\* The inductive invariant holds of every behaviour of Commands.
THEOREM CmdInductive == ASSUME C!Sizes PROVE C!Spec => []C!IInv
<1>1. C!Init => C!IInv
  BY CmdInitIInv
<1>2. C!IInv /\ [C!Next]_(C!vars) => C!IInv'
  BY CmdNextIInv
<1> QED
  BY <1>1, <1>2, PTL DEF C!Spec

---------------------------------------------------------------------------
(* Accounting: the order of the records, and what they say.                *)

\* No two processes sleep equally long.
LEMMA AcctSleepsAre ==
  /\ A!Sleeps[1] = 2 /\ A!Sleeps[2] = 4 /\ A!Sleeps[3] = 0 /\ A!Sleeps[4] = 8 /\ A!Sleeps[5] = 6
  /\ \A i \in A!Chain : A!Sleeps[i] \in 0 .. 8
  /\ \A i, j \in A!Chain : A!Sleeps[i] = A!Sleeps[j] => i = j
BY DEF A!Sleeps, A!Chain

LEMMA AcctInitIInv == ASSUME A!Init PROVE A!IInv
<1>1. /\ acct = <<>> /\ shown = <<>> /\ now = 0 /\ pc[1] = "fork"
      /\ \A i \in 2 .. 5 : pc[i] = "none"
      /\ Len(acct) = 0 /\ Len(shown) = 0
  BY DEF A!Init, A!Chain
<1>2. A!TypeOK
  BY <1>1 DEF A!Init, A!TypeOK, A!Chain, A!Active, A!Places
<1>3. A!InChain /\ A!OneRecord /\ A!Printed /\ A!InOrder
  BY <1>1 DEF A!InChain, A!OneRecord, A!Printed, A!InOrder
<1>4. A!OnTime
  BY <1>1 DEF A!OnTime, A!Chain
<1> QED
  BY <1>2, <1>3, <1>4 DEF A!IInv

\* What a longer list of records looks like.
LEMMA AcctLonger ==
  ASSUME NEW l \in Seq(A!Records), NEW r \in A!Records
  PROVE  LET m == Append(l, r)
         IN  /\ m \in Seq(A!Records) /\ Len(l) \in Nat /\ Len(m) = Len(l) + 1
             /\ m[Len(l) + 1] = r /\ \A k \in 1 .. Len(l) : m[k] = l[k]
OBVIOUS

LEMMA AcctProcsIn == ASSUME NEW l \in Seq(A!Records) PROVE \A k \in 1 .. Len(l) : l[k].proc \in A!Chain
<1>1. \A k \in 1 .. Len(l) : l[k] \in A!Records
  OBVIOUS
<1> QED
  BY <1>1 DEF A!Records

\* A step in which no process ends.
LEMMA AcctNoneEnds ==
  ASSUME A!IInv, A!TypeOK', A!InChain', A!Printed', acct' = acct, prompt' = prompt,
         \A i \in A!Chain : pc[i] = "ended" <=> pc'[i] = "ended",
         \A i \in 1 .. 4 : pc[i] = "ended" /\ pc'[i + 1] = "none" <=>
                           pc[i] = "ended" /\ pc[i + 1] = "none",
         A!OnTime'
  PROVE  A!IInv'
<1>1. A!Broken' <=> A!Broken
  BY DEF A!Broken, A!Chain
<1>2. \A k \in 1 .. Len(acct) : acct[k].proc \in A!Chain
  BY AcctProcsIn DEF A!IInv, A!TypeOK
<1>3. A!OneRecord'
  BY <1>2 DEF A!IInv, A!OneRecord
<1>4. A!InOrder'
  BY <1>1 DEF A!IInv, A!InOrder
<1> QED
  BY <1>3, <1>4 DEF A!IInv

\* A process ends, in time if its fork has not failed.
LEMMA AcctEndsIInv ==
  ASSUME A!IInv, NEW i \in A!Chain, pc[i] \in A!Active \cup {"sleeping"},
         NEW core \in BOOLEAN, NEW sgn \in BOOLEAN, NEW exec \in BOOLEAN,
         A!Ends(i, core, sgn, exec), sgn => i \in {2, 5},
         prompt => now = A!Sleeps[i] \/ (i \in 1 .. 4 /\ pc[i + 1] = "none")
  PROVE  A!IInv'
<1> DEFINE r == A!Record(i, core, sgn, exec)
<1>1. r \in A!Records /\ r.proc = i /\ (r.X => i \in {2, 5})
  BY DEF A!Record, A!Records, A!IInv, A!TypeOK
<1>2. pc' = [pc EXCEPT ![i] = "ended"] /\ acct' = Append(acct, r)
      /\ UNCHANGED <<prompt, cores, flagged, mpc, now, wake, shown>>
  BY DEF A!Ends, A!conf
<1> HIDE DEF r
<1>3. /\ acct' \in Seq(A!Records) /\ Len(acct) \in Nat /\ Len(acct') = Len(acct) + 1
      /\ acct'[Len(acct) + 1] = r /\ \A k \in 1 .. Len(acct) : acct'[k] = acct[k]
  BY <1>1, <1>2, AcctLonger DEF A!IInv, A!TypeOK
<1>4. /\ pc'[i] = "ended" /\ pc[i] # "ended" /\ pc[i] # "none"
      /\ \A j \in A!Chain : j # i => pc'[j] = pc[j]
  BY <1>2 DEF A!IInv, A!TypeOK, A!Active
<1>5. A!TypeOK'
  BY <1>2, <1>3 DEF A!IInv, A!TypeOK, A!Chain, A!Active
<1>6. A!InChain'
  BY <1>4 DEF A!IInv, A!InChain, A!Chain
<1>7. \A k \in 1 .. Len(acct) : acct[k].proc \in A!Chain /\ acct[k].proc # i
  BY <1>4, AcctProcsIn DEF A!IInv, A!OneRecord, A!TypeOK
<1>8. A!OneRecord'
  <2>1. \A k \in 1 .. Len(acct') : pc'[acct'[k].proc] = "ended"
                                   /\ (acct'[k].X => acct'[k].proc \in {2, 5})
    BY <1>1, <1>3, <1>4, <1>7 DEF A!IInv, A!OneRecord
  <2>2. \A j, k \in 1 .. Len(acct') : acct'[j].proc = acct'[k].proc => j = k
    BY <1>1, <1>3, <1>7 DEF A!IInv, A!OneRecord
  <2> QED
    BY <2>1, <2>2 DEF A!OneRecord
<1>9. A!Printed'
  <2>1. Len(shown) \in Nat
    BY DEF A!IInv, A!TypeOK
  <2> QED
    BY <1>2, <1>3, <2>1 DEF A!IInv, A!Printed
<1>10. ~A!Broken' => ~A!Broken
  BY <1>4 DEF A!Broken, A!Chain
<1>11. ~A!Broken' /\ prompt => now = A!Sleeps[i]
  BY <1>4 DEF A!Broken, A!Chain
<1>12. A!OnTime'
  <2>1. prompt => /\ (\E j \in A!Chain : pc'[j] \in A!Active) => now = 0
                  /\ \A j \in A!Chain : pc'[j] = "sleeping" => wake[j] = A!Sleeps[j]
                                                               /\ now =< A!Sleeps[j]
    BY <1>4 DEF A!IInv, A!OnTime, A!Active
  <2>2. now \in Nat
    BY DEF A!IInv, A!TypeOK
  <2>3. prompt /\ ~A!Broken' => \A j \in A!Chain : pc'[j] = "ended" => A!Sleeps[j] =< now
    BY <1>4, <1>10, <1>11, <2>2, AcctSleepsAre DEF A!IInv, A!OnTime
  <2> QED
    BY <1>2, <2>1, <2>3 DEF A!OnTime
<1>13. A!InOrder'
  <2> SUFFICES ASSUME prompt, ~A!Broken',
                      NEW j \in 1 .. Len(acct'), NEW k \in 1 .. Len(acct'), j < k
               PROVE  A!Sleeps[acct'[j].proc] < A!Sleeps[acct'[k].proc]
    BY <1>2 DEF A!InOrder
  <2>1. CASE k \in 1 .. Len(acct)
    <3>1. j \in 1 .. Len(acct)
      BY <1>3, <2>1
    <3> QED
      BY <1>3, <1>10, <2>1, <3>1 DEF A!IInv, A!InOrder
  <2>2. CASE k = Len(acct) + 1
    <3>1. j \in 1 .. Len(acct) /\ acct'[k].proc = i
      BY <1>1, <1>3, <2>2
    <3>2. pc[acct[j].proc] = "ended" /\ acct[j].proc \in A!Chain /\ acct[j].proc # i
      BY <3>1, <1>7 DEF A!IInv, A!OneRecord
    <3>3. A!Sleeps[acct[j].proc] =< now /\ now = A!Sleeps[i]
      BY <1>10, <1>11, <3>2 DEF A!IInv, A!OnTime
    <3>4. A!Sleeps[acct[j].proc] # A!Sleeps[i] /\ A!Sleeps[acct[j].proc] \in 0 .. 8
      BY <3>2, AcctSleepsAre
    <3>5. acct'[j] = acct[j]
      BY <1>3, <3>1
    <3>6. now \in Nat
      BY DEF A!IInv, A!TypeOK
    <3>7. A!Sleeps[acct[j].proc] < A!Sleeps[i]
      <4> DEFINE a == A!Sleeps[acct[j].proc]
                 b == A!Sleeps[i]
      <4>1. a =< now /\ now = b /\ a # b /\ a \in 0 .. 8
        BY <3>3, <3>4
      <4> HIDE DEF a, b
      <4>2. a < b
        BY <3>6, <4>1
      <4> QED
        BY <4>2 DEF a, b
    <3> QED
      BY <3>1, <3>5, <3>7
  <2> QED
    BY <1>3, <2>1, <2>2
<1> QED
  BY <1>5, <1>6, <1>8, <1>9, <1>12, <1>13 DEF A!IInv

LEMMA AcctForkIInv == ASSUME A!IInv, NEW i \in A!Chain, A!Fork(i) PROVE A!IInv'
<1>1. pc[i] = "fork" /\ i \in 1 .. 4 /\ pc[i + 1] = "none"
  BY DEF A!Fork, A!IInv, A!TypeOK, A!InChain, A!Chain
<1>2. CASE A!Exits(i)
  BY <1>1, <1>2, AcctEndsIInv DEF A!Exits, A!Active
<1>3. CASE ~A!Exits(i)
  <2>1. /\ pc' = [pc EXCEPT ![i] = IF i = 3 THEN "exec" ELSE "sleep",
                            ![i + 1] = IF i = 4 THEN "sleep" ELSE "fork"]
        /\ UNCHANGED <<prompt, cores, flagged, mpc, now, wake, acct, shown>>
    BY <1>3 DEF A!Fork, A!conf
  <2>2. /\ pc' \in [A!Chain -> A!Active \cup {"none", "sleeping", "ended"}]
        /\ pc'[i] \in A!Active /\ pc'[i] # "fork" /\ pc'[i + 1] \in A!Active
        /\ i = 4 => pc'[i + 1] = "sleep"
        /\ \A j \in A!Chain : j # i /\ j # i + 1 => pc'[j] = pc[j]
    BY <1>1, <2>1 DEF A!IInv, A!TypeOK, A!Chain, A!Active
  <2>3. A!TypeOK'
    BY <1>1, <2>1, <2>2 DEF A!IInv, A!TypeOK, A!Chain
  <2>4. A!InChain'
    BY <1>1, <2>2 DEF A!IInv, A!InChain, A!Chain, A!Active
  <2>5. A!Printed'
    BY <2>1 DEF A!IInv, A!Printed
  <2>6. /\ \A j \in A!Chain : pc[j] = "ended" <=> pc'[j] = "ended"
        /\ \A j \in 1 .. 4 : pc[j] = "ended" /\ pc'[j + 1] = "none" <=>
                             pc[j] = "ended" /\ pc[j + 1] = "none"
    BY <1>1, <2>2 DEF A!Chain, A!Active
  <2>7. prompt => now = 0
    BY <1>1 DEF A!IInv, A!OnTime, A!Active
  <2>8. A!Broken' <=> A!Broken
    BY <2>6 DEF A!Broken, A!Chain
  <2>9. \A j \in A!Chain : pc'[j] = "sleeping" => pc[j] = "sleeping"
    BY <1>1, <2>2 DEF A!Active
  <2>10. A!OnTime'
    BY <2>1, <2>6, <2>7, <2>8, <2>9 DEF A!IInv, A!OnTime
  <2> QED
    BY <2>1, <2>3, <2>4, <2>5, <2>6, <2>10, AcctNoneEnds
<1> QED
  BY <1>2, <1>3

\* A step of a process that goes on: the chain is as long as before.
LEMMA AcctGoesOn ==
  ASSUME A!IInv, NEW i \in A!Chain, NEW p \in {"sleeping", "dd"},
         pc[i] \in A!Active, pc[i] # "fork", pc' = [pc EXCEPT ![i] = p],
         wake' \in [A!Chain -> Nat], UNCHANGED <<A!conf, now, acct, shown>>,
         \A j \in A!Chain : j # i => wake'[j] = wake[j],
         p = "sleeping" => wake'[i] = now + A!Sleeps[i]
  PROVE  A!IInv'
<1>1. /\ pc' \in [A!Chain -> A!Active \cup {"none", "sleeping", "ended"}] /\ pc'[i] = p
      /\ \A j \in A!Chain : j # i => pc'[j] = pc[j]
  BY DEF A!IInv, A!TypeOK, A!Active
<1>2. A!TypeOK'
  BY <1>1 DEF A!IInv, A!TypeOK, A!conf, A!Chain
<1>3. A!InChain'
  BY <1>1 DEF A!IInv, A!InChain, A!Chain, A!Active
<1>4. A!Printed'
  BY DEF A!IInv, A!Printed
<1>5. /\ \A j \in A!Chain : pc[j] = "ended" <=> pc'[j] = "ended"
      /\ \A j \in 1 .. 4 : pc[j] = "ended" /\ pc'[j + 1] = "none" <=>
                           pc[j] = "ended" /\ pc[j + 1] = "none"
  BY <1>1 DEF A!Chain, A!Active
<1>6. A!Broken' <=> A!Broken
  BY <1>5 DEF A!Broken, A!Chain
<1>7. prompt => now = 0
  BY DEF A!IInv, A!OnTime
<1>8. prompt => \A j \in A!Chain : pc'[j] = "sleeping" => wake'[j] = A!Sleeps[j]
                                                          /\ now =< A!Sleeps[j]
  BY <1>1, <1>7, AcctSleepsAre DEF A!IInv, A!OnTime
<1>9. A!OnTime'
  BY <1>5, <1>6, <1>7, <1>8 DEF A!IInv, A!OnTime, A!conf
<1> QED
  BY <1>2, <1>3, <1>4, <1>5, <1>9, AcctNoneEnds DEF A!conf

LEMMA AcctSleepIInv == ASSUME A!IInv, NEW i \in A!Chain, A!Sleep(i) PROVE A!IInv'
<1>1. /\ pc[i] = "sleep" /\ pc' = [pc EXCEPT ![i] = "sleeping"]
      /\ wake' = [wake EXCEPT ![i] = now + A!Sleeps[i]]
      /\ UNCHANGED <<A!conf, now, acct, shown>>
  BY DEF A!Sleep
<1>2. now + A!Sleeps[i] \in Nat
  <2>1. now \in Nat /\ A!Sleeps[i] \in 0 .. 8
    BY AcctSleepsAre DEF A!IInv, A!TypeOK
  <2> QED
    BY <2>1
<1>3. /\ wake' \in [A!Chain -> Nat] /\ wake'[i] = now + A!Sleeps[i]
      /\ \A j \in A!Chain : j # i => wake'[j] = wake[j]
  BY <1>1, <1>2 DEF A!IInv, A!TypeOK
<1> QED
  BY <1>1, <1>3, AcctGoesOn DEF A!Active

LEMMA AcctExecIInv == ASSUME A!IInv, A!Exec PROVE A!IInv'
<1>1. pc[3] = "exec" /\ 3 \in A!Chain
  BY DEF A!Exec, A!Chain
<1>2. prompt => now = 0
  BY <1>1 DEF A!IInv, A!OnTime, A!Active
<1>3. CASE A!Exits(3)
  BY <1>1, <1>2, <1>3, AcctEndsIInv, AcctSleepsAre DEF A!Exits, A!Active
<1>4. CASE ~A!Exits(3)
  <2>1. pc' = [pc EXCEPT ![3] = "dd"] /\ UNCHANGED <<A!conf, now, wake, acct, shown>>
    BY <1>4 DEF A!Exec
  <2>2. wake' \in [A!Chain -> Nat]
    BY <2>1 DEF A!IInv, A!TypeOK
  <2> QED
    BY <1>1, <2>1, <2>2, AcctGoesOn DEF A!Active
<1> QED
  BY <1>3, <1>4

LEMMA AcctDdIInv == ASSUME A!IInv, A!Dd PROVE A!IInv'
<1> USE DEF A!Dd
<1>1. pc[3] = "dd" /\ 3 \in A!Chain
  BY DEF A!Chain
<1>2. prompt => now = 0
  BY <1>1 DEF A!IInv, A!OnTime, A!Active
<1> QED
  BY <1>1, <1>2, AcctEndsIInv, AcctSleepsAre DEF A!Active

\* On an idle machine a process wakes up when its sleep is over.
LEMMA AcctAwakeInTime ==
  ASSUME A!IInv, NEW i \in A!Chain, A!Awake(i)
  PROVE  pc[i] = "sleeping" /\ (prompt => now = A!Sleeps[i])
<1>1. pc[i] = "sleeping" /\ (prompt => now >= wake[i])
  BY DEF A!Awake
<1>2. now \in Nat /\ A!Sleeps[i] \in 0 .. 8
  BY AcctSleepsAre DEF A!IInv, A!TypeOK
<1>3. prompt => wake[i] = A!Sleeps[i] /\ now =< A!Sleeps[i]
  BY <1>1 DEF A!IInv, A!OnTime
<1> QED
  BY <1>1, <1>2, <1>3

LEMMA AcctExitIInv == ASSUME A!IInv, A!Exit PROVE A!IInv'
<1>1. PICK i \in {1, 4} : A!Awake(i) /\ A!Exits(i)
  BY DEF A!Exit
<1>2. i \in A!Chain
  BY DEF A!Chain
<1>3. A!Ends(i, FALSE, FALSE, i = 1)
  BY <1>1 DEF A!Exits
<1>4. pc[i] = "sleeping" /\ (prompt => now = A!Sleeps[i])
  BY <1>1, <1>2, AcctAwakeInTime
<1> QED
  BY <1>2, <1>3, <1>4, AcctEndsIInv

LEMMA AcctAbortIInv == ASSUME A!IInv, A!Abort PROVE A!IInv'
<1> USE DEF A!Abort
<1>1. 2 \in A!Chain /\ cores \in BOOLEAN
  BY DEF A!Chain, A!IInv, A!TypeOK
<1>2. pc[2] = "sleeping" /\ (prompt => now = A!Sleeps[2])
  BY <1>1, AcctAwakeInTime
<1> QED
  BY <1>1, <1>2, AcctEndsIInv

LEMMA AcctKillIInv == ASSUME A!IInv, A!Kill PROVE A!IInv'
<1> USE DEF A!Kill
<1>1. 5 \in A!Chain
  BY DEF A!Chain
<1>2. pc[5] = "sleeping" /\ (prompt => now = A!Sleeps[5])
  BY <1>1, AcctAwakeInTime
<1> QED
  BY <1>1, <1>2, AcctEndsIInv

LEMMA AcctShowIInv == ASSUME A!IInv, A!Show PROVE A!IInv'
<1>1. /\ Len(shown) < Len(acct) /\ shown' = Append(shown, acct[Len(shown) + 1])
      /\ UNCHANGED <<A!conf, now, pc, wake, acct>>
  BY DEF A!Show
<1> DEFINE r == acct[Len(shown) + 1]
<1>2. /\ acct \in Seq(A!Records) /\ shown \in Seq(A!Records)
      /\ Len(acct) \in Nat /\ Len(shown) \in Nat
  BY DEF A!IInv, A!TypeOK
<1>3. r \in A!Records
  BY <1>1, <1>2
<1> DEFINE s == Append(shown, r)
<1>4. /\ s \in Seq(A!Records) /\ Len(s) = Len(shown) + 1 /\ s[Len(shown) + 1] = r
      /\ \A k \in 1 .. Len(shown) : s[k] = shown[k]
  BY <1>2, <1>3, AcctLonger
<1>5. shown' = s
  BY <1>1
<1> HIDE DEF s
<1>6. A!TypeOK'
  BY <1>1, <1>4, <1>5 DEF A!IInv, A!TypeOK, A!conf
<1>7. A!Printed'
  BY <1>1, <1>2, <1>4, <1>5 DEF A!IInv, A!Printed
<1>8. A!InChain' /\ A!OnTime'
  BY <1>1 DEF A!IInv, A!InChain, A!OnTime, A!conf, A!Broken
<1> QED
  BY <1>1, <1>6, <1>7, <1>8, AcctNoneEnds DEF A!conf

\* The file cannot be read: nothing more is shown.
LEMMA AcctShowFailsIInv == ASSUME A!IInv, A!ShowFails PROVE A!IInv'
<1>1. /\ mpc' = "exit 1"
      /\ UNCHANGED <<prompt, cores, flagged, now, pc, wake, acct, shown>>
  BY DEF A!ShowFails
<1>2. A!TypeOK' /\ A!InChain' /\ A!Printed' /\ A!OnTime'
  BY <1>1 DEF A!IInv, A!TypeOK, A!InChain, A!Printed, A!OnTime, A!Broken, A!Places
<1> QED
  BY <1>1, <1>2, AcctNoneEnds

LEMMA AcctTickIInv == ASSUME A!IInv, A!Tick PROVE A!IInv'
<1>1. /\ prompt /\ \A i \in A!Chain : A!Idle(i)
      /\ now' = now + 1 /\ UNCHANGED <<A!conf, pc, wake, acct, shown>>
  BY DEF A!Tick
<1>2. now \in Nat
  BY DEF A!IInv, A!TypeOK
<1>3. \A i \in A!Chain : pc[i] \notin A!Active
  BY <1>1 DEF A!Idle, A!Active
<1>4. \A i \in A!Chain : pc[i] = "sleeping" => now < wake[i] /\ wake[i] = A!Sleeps[i]
  BY <1>1 DEF A!Idle, A!IInv, A!OnTime
<1>5. \A i \in A!Chain : A!Sleeps[i] \in 0 .. 8
  BY AcctSleepsAre
<1>6. \A i \in A!Chain : /\ pc[i] = "sleeping" => now' =< A!Sleeps[i]
                         /\ A!Sleeps[i] =< now => A!Sleeps[i] =< now'
  BY <1>1, <1>2, <1>4, <1>5
<1>7. A!OnTime'
  BY <1>1, <1>3, <1>4, <1>6 DEF A!IInv, A!OnTime, A!conf, A!Broken
<1>8. A!TypeOK' /\ A!InChain' /\ A!Printed'
  BY <1>1, <1>2 DEF A!IInv, A!TypeOK, A!InChain, A!Printed, A!conf
<1> QED
  BY <1>1, <1>7, <1>8, AcctNoneEnds DEF A!conf

LEMMA AcctStutterIInv == ASSUME A!IInv, UNCHANGED A!vars PROVE A!IInv'
<1>1. UNCHANGED <<A!conf, now, pc, wake, acct, shown>>
  BY DEF A!vars
<1>2. A!TypeOK' /\ A!InChain' /\ A!Printed' /\ A!OnTime'
  BY <1>1 DEF A!IInv, A!TypeOK, A!InChain, A!Printed, A!OnTime, A!conf, A!Broken
<1> QED
  BY <1>1, <1>2, AcctNoneEnds DEF A!conf

\* The inductive invariant of test_process_account.c and show_process_account.c: one
\* record for each process that has ended, in the order of the sleeps on an idle
\* machine.
THEOREM AcctInductive == A!Spec => []A!IInv
<1>1. A!Init => A!IInv
  BY AcctInitIInv
<1>2. A!IInv /\ [A!Next]_(A!vars) => A!IInv'
  <2>1. A!IInv /\ A!ChainStep => A!IInv'
    BY AcctForkIInv, AcctSleepIInv, AcctExecIInv, AcctDdIInv, AcctExitIInv,
       AcctAbortIInv, AcctKillIInv DEF A!ChainStep
  <2> QED
    BY <2>1, AcctShowIInv, AcctShowFailsIInv, AcctTickIInv, AcctStutterIInv DEF A!Next
<1> QED
  BY <1>1, <1>2, PTL DEF A!Spec

\* Five records in the order of the sleeps.
LEMMA AcctRecordsFollow == A!IInv => A!RecordsRight
<1> SUFFICES ASSUME A!IInv PROVE A!RecordsRight
  OBVIOUS
<1>1. /\ shown \in Seq(A!Records) /\ acct \in Seq(A!Records) /\ DOMAIN shown = 1 .. Len(shown)
      /\ Len(shown) \in Nat /\ Len(acct) \in Nat
      /\ \A k \in 1 .. Len(shown) : k \in 1 .. Len(acct) /\ shown[k] = acct[k]
  BY DEF A!IInv, A!TypeOK, A!Printed
<1>2. /\ \A j, k \in DOMAIN shown : shown[j].proc = shown[k].proc => j = k
      /\ \A k \in DOMAIN shown : shown[k].X => shown[k].proc \in {2, 5}
  BY <1>1 DEF A!IInv, A!OneRecord
<1>3. ASSUME prompt, Len(shown) = 5 PROVE A!Procs(shown) = <<3, 1, 2, 5, 4>>
  <2> DEFINE P(k) == shown[k].proc
  <2>1. \A k \in 1 .. 5 : P(k) \in A!Chain /\ P(k) = acct[k].proc /\ k \in 1 .. Len(acct)
    BY <1>1, <1>3, AcctProcsIn
  <2>2. \A j, k \in 1 .. 5 : P(j) = P(k) => j = k
    BY <1>2, <1>1, <1>3
  <2>3. \A k \in 1 .. 5 : pc[P(k)] = "ended"
    BY <2>1 DEF A!IInv, A!OneRecord
  <2> HIDE DEF P
  <2>4. \A i \in A!Chain : \E k \in 1 .. 5 : P(k) = i
    BY <2>1, <2>2 DEF A!Chain
  <2>5. ~A!Broken
    BY <2>3, <2>4 DEF A!Broken, A!Chain
  <2>6. \A j, k \in 1 .. 5 : j < k => A!Sleeps[P(j)] < A!Sleeps[P(k)]
    BY <1>3, <2>1, <2>5 DEF A!IInv, A!InOrder
  <2>7. P(1) = 3 /\ P(2) = 1 /\ P(3) = 2 /\ P(4) = 5 /\ P(5) = 4
    BY <2>1, <2>6, AcctSleepsAre DEF A!Chain
  <2>8. A!Procs(shown) = [k \in 1 .. 5 |-> P(k)]
    BY <1>1, <1>3 DEF A!Procs, P
  <2>9. [k \in 1 .. 5 |-> P(k)] = <<3, 1, 2, 5, 4>>
    BY <2>7
  <2> QED
    BY <2>8, <2>9
<1> QED
  BY <1>2, <1>3 DEF A!RecordsRight

---------------------------------------------------------------------------
(* Streams: how far the handlers have come, and what is where in the file. *)

\* A line more of a text.
LEMMA StrLineMore ==
  ASSUME NEW E, NEW s \in Seq(E), NEW n \in 0 .. Len(s) - 1
  PROVE  Append(SubSeq(s, 1, n), s[n + 1]) = SubSeq(s, 1, n + 1)
<1>1. Len(s) \in Nat
  OBVIOUS
<1>2. n + 1 \in 1 .. Len(s) /\ (n + 1) - 1 = n
  BY <1>1
<1>3. SubSeq(s, 1, n + 1) = Append(SubSeq(s, 1, (n + 1) - 1), s[n + 1])
  BY <1>1, <1>2, SubSeqRecursiveSecond
<1> QED
  BY <1>2, <1>3

\* Element and length facts about SubSeq from the left.
LEMMA StrPrefix ==
  ASSUME NEW E, NEW s \in Seq(E), NEW n \in 0 .. Len(s)
  PROVE  /\ SubSeq(s, 1, n) \in Seq(E) /\ Len(SubSeq(s, 1, n)) = n
         /\ \A k \in 1 .. n : SubSeq(s, 1, n)[k] = s[k]
BY SubSeqProperties

LEMMA StrTextsAre ==
  /\ S!Registered \in Seq({"fun1", "fun2"}) /\ Len(S!Registered) = 4
  /\ S!HandlersSaid \in Seq(S!Said) /\ Len(S!HandlersSaid) = 4
  /\ S!AllSaid \in Seq(S!Said) /\ Len(S!AllSaid) = 6
  /\ \A n \in 0 .. 3 : /\ S!Registered[4 - n] = S!HandlersSaid[n + 1]
                       /\ S!AllSaid[n + 3] = S!HandlersSaid[n + 1]
BY DEF S!Registered, S!HandlersSaid, S!AllSaid, S!Said

LEMMA StrHandlersSay == \A n \in 0 .. 3 : S!HandlersSaid[n + 1] \in S!Said
<1> SUFFICES ASSUME NEW n \in 0 .. 3 PROVE S!HandlersSaid[n + 1] \in S!Said
  OBVIOUS
<1>1. n + 1 \in 1 .. 4
  OBVIOUS
<1>2. \A k \in 1 .. 4 : S!HandlersSaid[k] \in S!Said
  BY StrTextsAre, LenProperties
<1> QED
  BY <1>1, <1>2

LEMMA StrLonger ==
  ASSUME NEW E, NEW s \in Seq(E), NEW b \in E
  PROVE  /\ Append(s, b) \in Seq(E) /\ Len(Append(s, b)) = Len(s) + 1
         /\ Append(s, b)[Len(s) + 1] = b
         /\ \A i \in 1 .. Len(s) : Append(s, b)[i] = s[i]
OBVIOUS

LEMMA StrSecondOfTwo ==
  ASSUME NEW E, NEW s \in Seq(E), NEW m \in Seq(E), NEW b \in E,
         Len(s) = 1, Len(m) = 2, m[1] = s[1], m[2] = b
  PROVE  Append(s, b) = m
<1> DEFINE l == Append(s, b)
<1>1. l \in Seq(E) /\ Len(l) = 2 /\ l[1] = s[1] /\ l[2] = b
  <2>1. /\ l \in Seq(E) /\ Len(l) = Len(s) + 1 /\ l[Len(s) + 1] = b
        /\ \A i \in 1 .. Len(s) : l[i] = s[i]
    BY StrLonger
  <2> HIDE DEF l
  <2> QED
    BY <2>1
<1> HIDE DEF l
<1>2. \A i \in 1 .. 2 : l[i] = m[i]
  BY <1>1
<1>3. l = m
  BY <1>1, <1>2, SeqEqual
<1> QED
  BY <1>3 DEF l

LEMMA StrLinesOfMain ==
  /\ Append(<<>>, "fopen success") = <<"fopen success">>
  /\ Append(<<"fopen success">>, "write success") = S!MainSaid
  /\ Append(<<>>, "hello, world!") = <<"hello, world!">>
  /\ <<"hello, world!">> \in Seq(S!InFile)
<1>1. Append(<<>>, "fopen success") = <<"fopen success">>
  OBVIOUS
<1>2. Append(<<"fopen success">>, "write success") = S!MainSaid
  <2> DEFINE s == <<"fopen success">>
  <2>1. s \in Seq(S!Said) /\ Len(s) = 1 /\ s[1] = "fopen success" /\ "write success" \in S!Said
    BY DEF S!Said
  <2>2. /\ S!MainSaid \in Seq(S!Said) /\ Len(S!MainSaid) = 2
        /\ S!MainSaid[1] = "fopen success" /\ S!MainSaid[2] = "write success"
    BY DEF S!MainSaid, S!Said
  <2> HIDE DEF s
  <2>3. Append(s, "write success") = S!MainSaid
    BY <2>1, <2>2, StrSecondOfTwo
  <2> QED
    BY <2>3 DEF s
<1>3. Append(<<>>, "hello, world!") = <<"hello, world!">>
  OBVIOUS
<1>4. <<"hello, world!">> \in Seq(S!InFile)
  BY DEF S!InFile
<1> QED
  BY <1>1, <1>2, <1>3, <1>4

\* The next handler.
LEMMA StrNextHandler ==
  ASSUME NEW n \in 0 .. 4, NEW h, h = SubSeq(S!Registered, 1, 4 - n)
  PROVE  /\ h = <<>> <=> n = 4
         /\ h # <<>> => S!Last(h) = S!HandlersSaid[n + 1]
                        /\ S!Front(h) = SubSeq(S!Registered, 1, 4 - (n + 1))
<1>1. 4 - n \in 0 .. 4
  OBVIOUS
<1>2. h \in Seq({"fun1", "fun2"}) /\ Len(h) = 4 - n
      /\ \A k \in 1 .. 4 - n : h[k] = S!Registered[k]
  BY <1>1, StrPrefix, StrTextsAre
<1>3. h = <<>> <=> n = 4
  <2>1. h = <<>> <=> Len(h) = 0
    BY <1>2, EmptySeq
  <2> QED
    BY <1>2, <2>1
<1>4. ASSUME h # <<>>
      PROVE  S!Last(h) = S!HandlersSaid[n + 1] /\ S!Front(h) = SubSeq(S!Registered, 1, 4 - (n + 1))
  <2>1. n \in 0 .. 3
    BY <1>3, <1>4
  <2>2. S!Last(h) = S!Registered[4 - n]
    BY <1>2, <2>1 DEF S!Last
  <2>3. Len(h) - 1 = 4 - (n + 1) /\ 4 - (n + 1) \in 0 .. 4 - n
    BY <1>2, <2>1
  <2>4. S!Front(h) \in Seq({"fun1", "fun2"}) /\ Len(S!Front(h)) = 4 - (n + 1)
        /\ \A k \in 1 .. 4 - (n + 1) : S!Front(h)[k] = h[k]
    BY <1>2, <2>3, StrPrefix DEF S!Front
  <2>5. LET g == SubSeq(S!Registered, 1, 4 - (n + 1))
        IN  g \in Seq({"fun1", "fun2"}) /\ Len(g) = 4 - (n + 1)
            /\ \A k \in 1 .. 4 - (n + 1) : g[k] = S!Registered[k]
    BY <2>1, <2>3, StrPrefix, StrTextsAre
  <2>6. S!Front(h) = SubSeq(S!Registered, 1, 4 - (n + 1))
    <3> DEFINE f == S!Front(h)
               g == SubSeq(S!Registered, 1, 4 - (n + 1))
               m == 4 - (n + 1)
    <3>1. /\ f \in Seq({"fun1", "fun2"}) /\ Len(f) = m /\ g \in Seq({"fun1", "fun2"})
          /\ Len(g) = m /\ \A k \in 1 .. m : f[k] = g[k]
      BY <1>2, <2>1, <2>4, <2>5
    <3> HIDE DEF f, g, m
    <3>2. f = g
      BY <3>1, SeqEqual
    <3> QED
      BY <3>2 DEF f, g
  <2> QED
    BY <2>1, <2>2, <2>6, StrTextsAre
<1> QED
  BY <1>3, <1>4

\* The next line.
LEMMA StrNextLine ==
  ASSUME NEW n \in 0 .. 3
  PROVE  /\ Append(SubSeq(S!HandlersSaid, 1, n), S!HandlersSaid[n + 1])
              = SubSeq(S!HandlersSaid, 1, n + 1)
         /\ Append(SubSeq(S!AllSaid, 1, n + 2), S!HandlersSaid[n + 1])
              = SubSeq(S!AllSaid, 1, (n + 1) + 2)
<1>1. n \in 0 .. Len(S!HandlersSaid) - 1 /\ n + 2 \in 0 .. Len(S!AllSaid) - 1
  BY StrTextsAre
<1>2. (n + 2) + 1 = n + 3 /\ n + 3 = (n + 1) + 2
  OBVIOUS
<1>3. Append(SubSeq(S!HandlersSaid, 1, n), S!HandlersSaid[n + 1]) = SubSeq(S!HandlersSaid, 1, n + 1)
  BY <1>1, StrLineMore, StrTextsAre
<1>4. Append(SubSeq(S!AllSaid, 1, n + 2), S!AllSaid[(n + 2) + 1]) = SubSeq(S!AllSaid, 1, (n + 2) + 1)
  BY <1>1, StrLineMore, StrTextsAre
<1>5. S!AllSaid[n + 3] = S!HandlersSaid[n + 1]
  BY StrTextsAre
<1> QED
  BY <1>2, <1>3, <1>4, <1>5

LEMMA StrTwoAndFour ==
  ASSUME NEW E, NEW s \in Seq(E), NEW t \in Seq(E), Len(s) = 2, Len(t) = 4
  PROVE  LET c == s \o t
         IN  /\ c \in Seq(E) /\ Len(c) = 6 /\ c[1] = s[1] /\ c[2] = s[2]
             /\ c[3] = t[1] /\ c[4] = t[2] /\ c[5] = t[3] /\ c[6] = t[4]
<1> DEFINE c == s \o t
<1>1. /\ c \in Seq(E) /\ Len(c) = Len(s) + Len(t)
      /\ \A k \in 1 .. Len(s) + Len(t) : c[k] = IF k <= Len(s) THEN s[k] ELSE t[k - Len(s)]
  BY ConcatProperties
<1> HIDE DEF c
<1>2. /\ c \in Seq(E) /\ Len(c) = 6
      /\ \A k \in 1 .. 6 : c[k] = IF k <= 2 THEN s[k] ELSE t[k - 2]
  BY <1>1
<1>3. /\ c[1] = s[1] /\ c[2] = s[2] /\ c[3] = t[1] /\ c[4] = t[2]
      /\ c[5] = t[3] /\ c[6] = t[4]
  BY <1>2
<1> QED
  BY <1>2, <1>3 DEF c

LEMMA StrWholeTexts ==
  /\ SubSeq(S!HandlersSaid, 1, 0) = <<>> /\ SubSeq(S!HandlersSaid, 1, 4) = S!HandlersSaid
  /\ SubSeq(S!AllSaid, 1, 2) = S!MainSaid /\ SubSeq(S!AllSaid, 1, 6) = S!MainSaid \o S!HandlersSaid
  /\ SubSeq(S!Registered, 1, 4) = S!Registered
<1>1. SubSeq(S!HandlersSaid, 1, 0) = <<>>
  BY SubSeqEmpty
<1>2. SubSeq(S!HandlersSaid, 1, 4) = S!HandlersSaid /\ SubSeq(S!Registered, 1, 4) = S!Registered
      /\ SubSeq(S!AllSaid, 1, 6) = S!AllSaid
  BY SubSeqFull, StrTextsAre
<1> DEFINE t == SubSeq(S!AllSaid, 1, 2)
           c == S!MainSaid \o S!HandlersSaid
<1>3. t = S!MainSaid
  <2>1. t \in Seq(S!Said) /\ Len(t) = 2 /\ \A k \in 1 .. 2 : t[k] = S!AllSaid[k]
    <3>1. S!AllSaid \in Seq(S!Said) /\ 2 \in 0 .. Len(S!AllSaid)
      BY StrTextsAre
    <3> QED
      BY <3>1, StrPrefix
  <2>2. /\ S!MainSaid \in Seq(S!Said) /\ Len(S!MainSaid) = 2
        /\ \A k \in 1 .. 2 : S!AllSaid[k] = S!MainSaid[k]
    BY DEF S!AllSaid, S!MainSaid, S!Said
  <2> HIDE DEF t
  <2> QED
    BY <2>1, <2>2, SeqEqual
<1>4. S!AllSaid = c
  <2>1. S!MainSaid \in Seq(S!Said) /\ Len(S!MainSaid) = 2
    BY DEF S!MainSaid, S!Said
  <2>2. c \in Seq(S!Said) /\ Len(c) = 6 /\ c[1] = S!MainSaid[1] /\ c[2] = S!MainSaid[2]
        /\ c[3] = S!HandlersSaid[1] /\ c[4] = S!HandlersSaid[2]
        /\ c[5] = S!HandlersSaid[3] /\ c[6] = S!HandlersSaid[4]
    BY <2>1, StrTextsAre, StrTwoAndFour
  <2>3. /\ S!AllSaid[1] = S!MainSaid[1] /\ S!AllSaid[2] = S!MainSaid[2]
        /\ S!AllSaid[3] = S!HandlersSaid[1] /\ S!AllSaid[4] = S!HandlersSaid[2]
        /\ S!AllSaid[5] = S!HandlersSaid[3] /\ S!AllSaid[6] = S!HandlersSaid[4]
    BY DEF S!MainSaid, S!HandlersSaid, S!AllSaid
  <2> HIDE DEF c
  <2>4. \A k \in 1 .. 6 : S!AllSaid[k] = c[k]
    BY <2>2, <2>3
  <2> QED
    BY <2>2, <2>4, SeqEqual, StrTextsAre
<1> QED
  BY <1>1, <1>2, <1>3, <1>4

---------------------------------------------------------------------------

\* S has an operator of its own.
LEMMA StrCardinality == ASSUME NEW E PROVE S!Cardinality(E) = Cardinality(E)
BY DEF Cardinality, S!Cardinality

LEMMA StrPlacesIn ==
  ASSUME file \in Seq(S!InFile)
  PROVE  /\ Len(file) \in Nat /\ DOMAIN file = 1 .. Len(file)
         /\ S!PlacesOf("other") \subseteq 1 .. Len(file)
         /\ IsFiniteSet(S!PlacesOf("other")) /\ Cardinality(S!PlacesOf("other")) \in Nat
<1>1. Len(file) \in Nat /\ DOMAIN file = 1 .. Len(file)
  BY LenProperties
<1>2. S!PlacesOf("other") \subseteq 1 .. Len(file)
  BY <1>1 DEF S!PlacesOf
<1>3. IsFiniteSet(S!PlacesOf("other"))
  <2>1. IsFiniteSet(1 .. Len(file))
    BY <1>1, FS_Interval
  <2> QED
    BY <1>2, <2>1, FS_Subset
<1> QED
  BY <1>1, <1>2, <1>3, FS_CardinalityType

LEMMA StrFileLonger ==
  ASSUME file \in Seq(S!InFile), NEW r \in S!InFile, file' = Append(file, r)
  PROVE  /\ file' \in Seq(S!InFile) /\ DOMAIN file' = 1 .. Len(file) + 1
         /\ file'[Len(file) + 1] = r /\ \A k \in 1 .. Len(file) : file'[k] = file[k]
         /\ file' # <<>>
BY StrPlacesIn

\* Others' records stay where they are when another is added.
LEMMA StrPlacesSame ==
  ASSUME file \in Seq(S!InFile), NEW r \in S!InFile, r # "other", file' = Append(file, r)
  PROVE  S!PlacesOf("other")' = S!PlacesOf("other")
<1>1. ASSUME NEW k PROVE k \in S!PlacesOf("other")' <=> k \in S!PlacesOf("other")
  BY StrFileLonger, StrPlacesIn DEF S!PlacesOf
<1> QED
  BY <1>1

LEMMA StrPlacesMore ==
  ASSUME file \in Seq(S!InFile), file' = Append(file, "other")
  PROVE  /\ S!PlacesOf("other")' = S!PlacesOf("other") \cup {Len(file) + 1}
         /\ Cardinality(S!PlacesOf("other"))' = Cardinality(S!PlacesOf("other")) + 1
<1>1. ASSUME NEW k
      PROVE  k \in S!PlacesOf("other")' <=> k \in S!PlacesOf("other") \cup {Len(file) + 1}
  <2>1. "other" \in S!InFile
    BY DEF S!InFile
  <2>2. /\ DOMAIN file' = 1 .. Len(file) + 1 /\ file'[Len(file) + 1] = "other"
        /\ \A j \in 1 .. Len(file) : file'[j] = file[j]
    BY <2>1, StrFileLonger
  <2>3. k \in 1 .. Len(file) + 1 <=> k \in 1 .. Len(file) \/ k = Len(file) + 1
    BY StrPlacesIn
  <2> QED
    BY <2>2, <2>3, StrPlacesIn DEF S!PlacesOf
<1>2. S!PlacesOf("other")' = S!PlacesOf("other") \cup {Len(file) + 1}
  BY <1>1
<1>3. Len(file) + 1 \notin S!PlacesOf("other") /\ IsFiniteSet(S!PlacesOf("other"))
  BY StrPlacesIn
<1>4. Cardinality(S!PlacesOf("other") \cup {Len(file) + 1}) = Cardinality(S!PlacesOf("other")) + 1
  BY <1>3, FS_AddElement
<1> QED
  BY <1>2, <1>4

LEMMA StrFileSame ==
  ASSUME UNCHANGED <<file, others>>
  PROVE  (S!NoneLost' <=> S!NoneLost) /\ (S!Untouched' <=> S!Untouched)
BY DEF S!NoneLost, S!Untouched, S!PlacesOf

\* A line that is printed comes last.
LEMMA StrSaysMore ==
  ASSUME S!TypeOK, S!Buffered, mpc \in S!Running, NEW l \in S!Said, S!Say(l), tty' = tty
  PROVE  /\ obuf' \in Seq(S!Said) /\ shown' \in Seq(S!Said)
         /\ tty' => obuf' = <<>>
         /\ ~tty' => shown' = <<>>
         /\ S!Out' = Append(S!Out, l)
<1>1. obuf \in Seq(S!Said) /\ shown \in Seq(S!Said)
  BY DEF S!TypeOK
<1>2. Append(obuf, l) \in Seq(S!Said) /\ Append(shown, l) \in Seq(S!Said)
  BY <1>1, AppendProperties
<1>3. CASE tty
  BY <1>1, <1>2, <1>3 DEF S!Say, S!Buffered, S!Out
<1>4. CASE ~tty
  BY <1>1, <1>2, <1>4 DEF S!Say, S!Buffered, S!Out
<1> QED
  BY <1>3, <1>4

LEMMA StrOutSame == ASSUME tty' = tty, obuf' = obuf, shown' = shown PROVE S!Out' = S!Out
BY DEF S!Out

\* Nothing is printed.
LEMMA StrBufferedSame ==
  ASSUME S!TypeOK, S!Buffered, tty' = tty, obuf' = obuf, shown' = shown, mpc \in S!Running
  PROVE  S!Buffered'
BY DEF S!TypeOK, S!Buffered

LEMMA StrTypeSame ==
  ASSUME S!TypeOK, UNCHANGED <<program, S!streams>>, mpc' \in S!Running \cup S!Ends
  PROVE  S!TypeOK'
BY DEF S!TypeOK, S!streams

LEMMA StrInitIInv == ASSUME S!Init PROVE S!IInv
<1>1. others \in 0 .. 1 /\ others \in Nat
  BY DEF S!Init
<1>2. /\ file \in Seq(S!InFile) /\ Len(file) = others /\ DOMAIN file = 1 .. others
      /\ \A k \in 1 .. others : file[k] = "other"
  BY <1>1 DEF S!Init, S!InFile
<1>3. S!PlacesOf("other") = 1 .. others
  BY <1>2 DEF S!PlacesOf
<1>4. Cardinality(1 .. others) = others
  BY <1>1, FS_Interval
<1>5. S!TypeOK
  <2>1. /\ obuf \in Seq(S!Said) /\ shown \in Seq(S!Said) /\ fbuf \in Seq(S!InFile)
        /\ handlers \in Seq({"fun1", "fun2"})
    BY StrTextsAre DEF S!Init
  <2> QED
    BY <1>1, <1>2, <2>1 DEF S!Init, S!TypeOK, S!Running
<1>6. S!Buffered /\ S!Atexit /\ S!ExitShown
  BY DEF S!Init, S!Buffered, S!Atexit, S!ExitShown, S!Out
<1>7. S!Fdopened
  BY <1>2, <1>3, <1>4, StrCardinality DEF S!Init, S!Fdopened, S!Untouched, S!NoneLost
<1> QED
  BY <1>5, <1>6, <1>7 DEF S!IInv

\* The programs run where they run.
LEMMA StrPhases ==
  /\ S!IInv /\ program = "atexit" => mpc \in {"open", "fprintf", "end", "exit"} \cup S!Ends
  /\ S!IInv /\ program = "fdopen" =>
       mpc \in {"open", "tell", "fdopen", "tell again", "write", "exit"} \cup S!Ends
  /\ S!IInv => program \in {"atexit", "fdopen"}
BY DEF S!IInv, S!Atexit, S!Fdopened, S!TypeOK, S!Programs

LEMMA StrRunHandlerIInv == ASSUME S!IInv, S!RunHandler PROVE S!IInv'
<1> USE DEF S!RunHandler
<1>1. program = "atexit" /\ program' = "atexit" /\ mpc = "exit" /\ mpc' = "exit"
  BY StrPhases DEF S!IInv, S!Fdopened
<1>2. PICK n \in 0 .. 4 :
        /\ handlers = SubSeq(S!Registered, 1, 4 - n)
        /\ \/ S!Out = SubSeq(S!HandlersSaid, 1, n)
           \/ /\ S!Out = SubSeq(S!AllSaid, 1, n + 2)
              /\ nr = 0 /\ fbuf = <<"hello, world!">> /\ file = <<>>
  BY <1>1 DEF S!IInv, S!Atexit
<1>3. /\ n \in 0 .. 3 /\ S!Last(handlers) = S!HandlersSaid[n + 1]
      /\ handlers' = SubSeq(S!Registered, 1, 4 - (n + 1))
  <2>1. handlers = SubSeq(S!Registered, 1, 4 - n)
    BY <1>2
  <2>2. handlers # <<>> /\ handlers' = S!Front(handlers)
    OBVIOUS
  <2>3. n # 4 => n \in 0 .. 3
    OBVIOUS
  <2> QED
    BY <2>1, <2>2, <2>3, StrNextHandler
<1>4. S!Last(handlers) \in S!Said
  BY <1>3, StrHandlersSay
<1>5. /\ obuf' \in Seq(S!Said) /\ shown' \in Seq(S!Said) /\ (tty' => obuf' = <<>>)
      /\ (~tty' => shown' = <<>>) /\ S!Out' = Append(S!Out, S!Last(handlers))
  BY <1>1, <1>4, StrSaysMore DEF S!IInv, S!Running
<1>6. handlers' \in Seq({"fun1", "fun2"})
  BY <1>3, StrPrefix, StrTextsAre
<1>7. S!TypeOK'
  BY <1>1, <1>5, <1>6 DEF S!IInv, S!TypeOK
<1>8. S!Buffered'
  BY <1>5 DEF S!Buffered
<1>9. \/ S!Out' = SubSeq(S!HandlersSaid, 1, n + 1)
      \/ /\ S!Out' = SubSeq(S!AllSaid, 1, (n + 1) + 2)
         /\ nr' = 0 /\ fbuf' = <<"hello, world!">> /\ file' = <<>>
  BY <1>2, <1>3, <1>5, StrNextLine
<1>10. S!Atexit'
  <2>1. n + 1 \in 0 .. 4
    BY <1>3
  <2> QED
    BY <1>1, <1>3, <1>9, <2>1 DEF S!Atexit
<1>11. S!Fdopened' /\ S!ExitShown'
  BY <1>1 DEF S!Fdopened, S!ExitShown
<1> QED
  BY <1>7, <1>8, <1>10, <1>11 DEF S!IInv

LEMMA StrFlushIInv == ASSUME S!IInv, S!Flush PROVE S!IInv'
<1> USE DEF S!Flush, S!Goto
<1>1. /\ mpc = "exit" /\ mpc' = "exited" /\ handlers = <<>> /\ handlers' = <<>>
      /\ obuf' = <<>> /\ fbuf' = <<>> /\ program' = program
  OBVIOUS
<1>2. shown' = S!Out /\ S!Out \in Seq(S!Said)
  <2>1. obuf \in Seq(S!Said) /\ shown \in Seq(S!Said)
    BY DEF S!IInv, S!TypeOK
  <2>2. CASE tty
    BY <2>1, <2>2, ConcatEmptySeq DEF S!IInv, S!Buffered, S!Out
  <2>3. CASE ~tty
    BY <1>1, <2>1, <2>3, ConcatEmptySeq DEF S!IInv, S!Buffered, S!Out, S!Running
  <2> QED
    BY <2>2, <2>3
<1>3. file' \in Seq(S!InFile)
  BY ConcatProperties DEF S!IInv, S!TypeOK
<1>4. S!TypeOK'
  <2>1. obuf' \in Seq(S!Said) /\ fbuf' \in Seq(S!InFile)
    BY <1>1
  <2> QED
    BY <1>1, <1>2, <1>3, <2>1 DEF S!IInv, S!TypeOK, S!Ends
<1>5. S!Buffered'
  BY <1>1 DEF S!Buffered, S!Running
<1>6. S!Atexit'
  BY <1>1 DEF S!Atexit, S!Ends
<1>7. S!Fdopened'
  <2> SUFFICES ASSUME program = "fdopen" PROVE S!Fdopened'
    BY DEF S!Fdopened
  <2>1. file' = file
    BY ConcatEmptySeq DEF S!IInv, S!TypeOK, S!Fdopened
  <2> QED
    BY <1>1, <2>1, StrFileSame DEF S!IInv, S!Fdopened, S!Ends
<1>8. S!ExitShown'
  <2> SUFFICES ASSUME program = "atexit" PROVE S!ExitShown'
    BY DEF S!ExitShown
  <2>1. PICK n \in 0 .. 4 :
          /\ handlers = SubSeq(S!Registered, 1, 4 - n)
          /\ \/ S!Out = SubSeq(S!HandlersSaid, 1, n)
             \/ /\ S!Out = SubSeq(S!AllSaid, 1, n + 2)
                /\ nr = 0 /\ fbuf = <<"hello, world!">> /\ file = <<>>
    BY <1>1 DEF S!IInv, S!Atexit
  <2>2. n = 4
    BY <1>1, <2>1, StrNextHandler
  <2>3. \/ shown' = S!HandlersSaid
        \/ /\ shown' = S!MainSaid \o S!HandlersSaid
           /\ nr' = 0 /\ file' = IF full' THEN <<>> ELSE <<"hello, world!">>
    <3>1. 4 + 2 = 6 /\ <<"hello, world!">> \in Seq(S!InFile)
      BY DEF S!InFile
    <3> QED
      BY <1>2, <2>1, <2>2, <3>1, StrWholeTexts, ConcatEmptySeq
  <2> QED
    BY <1>1, <2>3 DEF S!ExitShown
<1> QED
  BY <1>4, <1>5, <1>6, <1>7, <1>8 DEF S!IInv

LEMMA StrFopenIInv == ASSUME S!IInv, S!Fopen PROVE S!IInv'
<1> USE DEF S!Fopen, S!Goto
<1>1. /\ program = "atexit" /\ mpc = "open" /\ handlers = S!Registered /\ S!Out = <<>>
      /\ fbuf = <<>> /\ UNCHANGED <<program, tty, full, nr, fbuf, handlers, append, told, others>>
  BY DEF S!IInv, S!Atexit
<1>2. CASE mpc' = "fprintf" /\ S!Say("fopen success") /\ file' = <<>>
  <2>1. /\ obuf' \in Seq(S!Said) /\ shown' \in Seq(S!Said) /\ (tty' => obuf' = <<>>)
        /\ (~tty' => shown' = <<>>) /\ S!Out' = Append(S!Out, "fopen success")
    BY <1>1, <1>2, StrSaysMore DEF S!IInv, S!Running, S!Said
  <2>2. S!Out' = <<"fopen success">> /\ file' \in Seq(S!InFile)
    <3>1. S!Out' = <<"fopen success">>
      BY <1>1, <2>1, StrLinesOfMain
    <3>2. file' = <<>> /\ <<>> \in Seq(S!InFile)
      BY <1>2, EmptySeq
    <3> QED
      BY <3>1, <3>2
  <2>3. S!TypeOK'
    BY <1>1, <1>2, <2>1, <2>2 DEF S!IInv, S!TypeOK, S!Running
  <2>4. S!Buffered'
    BY <2>1 DEF S!Buffered
  <2>5. S!Atexit'
    BY <1>1, <1>2, <2>2 DEF S!Atexit, S!Ends
  <2>6. S!Fdopened' /\ S!ExitShown'
    BY <1>1, <1>2 DEF S!Fdopened, S!ExitShown
  <2> QED
    BY <2>3, <2>4, <2>5, <2>6 DEF S!IInv
<1>3. CASE mpc' = "exit" /\ UNCHANGED <<obuf, shown, file>>
  <2>1. S!TypeOK' /\ S!Buffered'
    BY <1>1, <1>3, StrTypeSame, StrBufferedSame DEF S!IInv, S!Running, S!streams
  <2>2. S!Atexit'
    <3>1. 0 \in 0 .. 4 /\ 4 - 0 = 4 /\ S!Out' = <<>>
      BY <1>1, <1>3, StrOutSame
    <3>2. /\ handlers' = SubSeq(S!Registered, 1, 4 - 0)
          /\ S!Out' = SubSeq(S!HandlersSaid, 1, 0)
      BY <1>1, <3>1, StrWholeTexts
    <3>3. \E n \in 0 .. 4 : /\ handlers' = SubSeq(S!Registered, 1, 4 - n)
                            /\ S!Out' = SubSeq(S!HandlersSaid, 1, n)
      BY <3>1, <3>2
    <3> QED
      BY <1>1, <1>3, <3>3 DEF S!Atexit, S!Ends
  <2>3. S!Fdopened' /\ S!ExitShown'
    BY <1>1, <1>3 DEF S!Fdopened, S!ExitShown
  <2> QED
    BY <2>1, <2>2, <2>3 DEF S!IInv
<1> QED
  BY <1>2, <1>3

LEMMA StrFprintfIInv == ASSUME S!IInv, S!Fprintf PROVE S!IInv'
<1> USE DEF S!Fprintf, S!Goto
<1>1. /\ program = "atexit" /\ mpc = "fprintf" /\ mpc' = "end" /\ handlers = S!Registered
      /\ S!Out = <<"fopen success">> /\ fbuf = <<>> /\ file = <<>>
      /\ fbuf' = Append(fbuf, "hello, world!")
      /\ UNCHANGED <<program, tty, full, nr, file, handlers, append, told, others>>
  BY StrPhases DEF S!IInv, S!Atexit, S!Ends
<1>2. /\ obuf' \in Seq(S!Said) /\ shown' \in Seq(S!Said) /\ (tty' => obuf' = <<>>)
      /\ (~tty' => shown' = <<>>) /\ S!Out' = Append(S!Out, "write success")
  BY <1>1, StrSaysMore DEF S!IInv, S!Running, S!Said
<1>3. S!Out' = S!MainSaid /\ fbuf' = <<"hello, world!">> /\ fbuf' \in Seq(S!InFile)
  BY <1>1, <1>2, StrLinesOfMain
<1>4. S!TypeOK'
  BY <1>1, <1>2, <1>3 DEF S!IInv, S!TypeOK, S!Running
<1>5. S!Buffered'
  BY <1>2 DEF S!Buffered
<1>6. S!Atexit'
  BY <1>1, <1>3 DEF S!Atexit, S!Ends
<1>7. S!Fdopened' /\ S!ExitShown'
  BY <1>1 DEF S!Fdopened, S!ExitShown
<1> QED
  BY <1>4, <1>5, <1>6, <1>7 DEF S!IInv

LEMMA StrEndIInv == ASSUME S!IInv, S!End PROVE S!IInv'
<1> USE DEF S!End, S!Goto
<1>1. /\ program = "atexit" /\ mpc = "end" /\ handlers = S!Registered /\ S!Out = S!MainSaid
      /\ fbuf = <<"hello, world!">> /\ file = <<>>
      /\ mpc' = (IF nr = 0 THEN "exit" ELSE "_exited") /\ UNCHANGED <<program, S!streams>>
  BY StrPhases DEF S!IInv, S!Atexit, S!Ends
<1>2. S!Out' = S!Out
  BY <1>1, StrOutSame DEF S!streams
<1>3. S!TypeOK' /\ S!Buffered'
  BY <1>1, StrTypeSame, StrBufferedSame DEF S!IInv, S!Running, S!Ends, S!streams
<1>4. S!Fdopened'
  BY <1>1 DEF S!Fdopened
<1>5. CASE nr = 0
  <2>1. S!Atexit'
    <3>1. 0 \in 0 .. 4 /\ 4 - 0 = 4 /\ 0 + 2 = 2
      OBVIOUS
    <3>2. /\ handlers' = SubSeq(S!Registered, 1, 4 - 0)
          /\ S!Out' = SubSeq(S!AllSaid, 1, 0 + 2)
      BY <1>1, <1>2, <3>1, StrWholeTexts DEF S!streams
    <3>3. \E n \in 0 .. 4 : /\ handlers' = SubSeq(S!Registered, 1, 4 - n)
                            /\ S!Out' = SubSeq(S!AllSaid, 1, n + 2)
      BY <3>1, <3>2
    <3> QED
      BY <1>1, <1>5, <3>3 DEF S!Atexit, S!Ends, S!streams
  <2>2. S!ExitShown'
    BY <1>1, <1>5 DEF S!ExitShown
  <2> QED
    BY <1>3, <1>4, <2>1, <2>2 DEF S!IInv
<1>6. CASE nr # 0
  <2>1. S!Atexit'
    BY <1>1, <1>6 DEF S!Atexit, S!Ends
  <2>2. shown' = IF tty' THEN S!MainSaid ELSE <<>>
    <3>1. tty' = tty /\ shown' = shown /\ tty \in BOOLEAN
      BY <1>1 DEF S!IInv, S!TypeOK, S!streams
    <3>2. ~tty => shown = <<>>
      BY <1>1 DEF S!IInv, S!Buffered, S!Running
    <3>3. tty => shown = S!MainSaid
      BY <1>1 DEF S!Out
    <3> QED
      BY <3>1, <3>2, <3>3
  <2>3. S!ExitShown'
    BY <1>1, <1>6, <2>2 DEF S!ExitShown, S!streams
  <2> QED
    BY <1>3, <1>4, <2>1, <2>3 DEF S!IInv
<1> QED
  BY <1>5, <1>6

\* What is said of "fdopen" alone.
LEMMA StrOfFdopen ==
  ASSUME S!TypeOK', S!Buffered', S!Fdopened', program' = "fdopen" PROVE S!IInv'
BY DEF S!IInv, S!Atexit, S!ExitShown

LEMMA StrOpenIInv == ASSUME S!IInv, S!Open PROVE S!IInv'
<1>1. /\ program = "fdopen" /\ mpc = "open" /\ mpc' \in {"tell", "exit"}
      /\ UNCHANGED <<program, S!streams>>
  BY DEF S!Open, S!Goto
<1>2. S!TypeOK' /\ S!Buffered'
  BY <1>1, StrTypeSame, StrBufferedSame DEF S!IInv, S!Running, S!streams
<1>3. S!Untouched' /\ handlers' = <<>> /\ fbuf' = <<>>
  BY <1>1, StrFileSame DEF S!IInv, S!Fdopened, S!streams
<1>4. S!Fdopened'
  BY <1>1, <1>3 DEF S!Fdopened
<1> QED
  BY <1>1, <1>2, <1>4, StrOfFdopen

\* F_GETFL fails: nothing is told.
LEMMA StrTellFailsIInv == ASSUME S!IInv, S!Tell, S!TellFails PROVE S!IInv'
<1>1. /\ mpc \in {"tell", "tell again"} /\ mpc' = "exit"
      /\ UNCHANGED <<program, S!streams>>
  BY DEF S!Tell, S!TellFails, S!Goto, S!streams
<1>2. program = "fdopen" /\ program' = "fdopen"
  BY <1>1, StrPhases DEF S!Ends
<1>3. S!TypeOK' /\ S!Buffered'
  BY <1>1, StrTypeSame, StrBufferedSame DEF S!IInv, S!Running, S!streams
<1>4. S!Untouched' /\ handlers' = <<>> /\ fbuf' = <<>>
  BY <1>1, <1>2, StrFileSame DEF S!IInv, S!Fdopened, S!streams
<1>5. S!Fdopened'
  BY <1>1, <1>4 DEF S!Fdopened
<1> QED
  BY <1>2, <1>3, <1>5, StrOfFdopen

LEMMA StrTellIInv == ASSUME S!IInv, S!Tell PROVE S!IInv'
<1> SUFFICES ASSUME ~S!TellFails PROVE S!IInv'
  BY StrTellFailsIInv
<1>1. /\ \/ mpc = "tell" /\ mpc' = "fdopen"
         \/ mpc = "tell again" /\ mpc' = "write"
      /\ told' = (IF append THEN "append" ELSE "not append") /\ S!Say(told')
      /\ UNCHANGED <<program, tty, full, nr, fbuf, file, handlers, append, others>>
  BY DEF S!Tell, S!Goto, S!TellMode
<1>2. program = "fdopen" /\ program' = "fdopen"
  BY <1>1, StrPhases DEF S!Ends
<1>3. mpc \in S!Running /\ told' \in S!Said /\ tty' = tty
  BY <1>1 DEF S!Running, S!Said
<1>4. /\ obuf' \in Seq(S!Said) /\ shown' \in Seq(S!Said) /\ (tty' => obuf' = <<>>)
      /\ (~tty' => shown' = <<>>)
  BY <1>1, <1>3, StrSaysMore DEF S!IInv
<1>5. S!TypeOK'
  BY <1>1, <1>4 DEF S!IInv, S!TypeOK, S!Running
<1>6. S!Buffered'
  BY <1>4 DEF S!Buffered
<1>7. S!Untouched' /\ handlers' = <<>> /\ fbuf' = <<>>
  BY <1>1, <1>2, StrFileSame DEF S!IInv, S!Fdopened
<1>8. append \in BOOLEAN /\ append' = append
  BY <1>1 DEF S!IInv, S!TypeOK
<1>9. told' = "append" <=> append'
  <2>1. CASE append
    BY <1>1, <1>8, <2>1
  <2>2. CASE ~append
    <3>1. told' = "not append"
      BY <1>1, <2>2
    <3> QED
      BY <1>8, <2>2, <3>1
  <2> QED
    BY <2>1, <2>2
<1>10. S!Fdopened'
  BY <1>1, <1>7, <1>9 DEF S!Fdopened
<1> QED
  BY <1>2, <1>5, <1>6, <1>10, StrOfFdopen

LEMMA StrFdopenIInv == ASSUME S!IInv, S!Fdopen PROVE S!IInv'
<1>1. /\ mpc = "fdopen" /\ mpc' \in {"tell again", "exit"}
      /\ append' \in BOOLEAN \cup {append}
      /\ UNCHANGED <<program, tty, full, nr, obuf, shown, fbuf, file, handlers, told, others>>
  BY DEF S!Fdopen, S!Goto
<1>2. program = "fdopen" /\ program' = "fdopen"
  BY <1>1, StrPhases DEF S!Ends
<1>3. S!TypeOK'
  BY <1>1 DEF S!IInv, S!TypeOK, S!Running
<1>4. S!Buffered'
  BY <1>1, StrBufferedSame DEF S!IInv, S!Running
<1>5. S!Untouched' /\ handlers' = <<>> /\ fbuf' = <<>>
  BY <1>1, <1>2, StrFileSame DEF S!IInv, S!Fdopened
<1>6. S!Fdopened'
  BY <1>1, <1>5 DEF S!Fdopened
<1> QED
  BY <1>2, <1>3, <1>4, <1>6, StrOfFdopen

LEMMA StrWorldIs ==
  /\ <<"world!">> \in Seq(S!InFile) /\ Len(<<"world!">>) = 1
  /\ <<"world!">>[1] = "world!"
BY DEF S!InFile

\* write(2) over the beginning of the file
LEMMA StrOverwritten ==
  ASSUME file \in Seq(S!InFile), file' = <<"world!">> \o SubSeq(file, 2, Len(file))
  PROVE  file' \in Seq(S!InFile) /\ file' # <<>> /\ file'[1] = "world!"
<1> DEFINE s == <<"world!">>
           t == SubSeq(file, 2, Len(file))
<1>1. s \in Seq(S!InFile) /\ Len(s) = 1 /\ s[1] = "world!"
  BY StrWorldIs
<1>2. t \in Seq(S!InFile) /\ Len(t) \in Nat
  <2>1. \A i \in 2 .. Len(file) : file[i] \in S!InFile
    BY StrPlacesIn
  <2>2. t \in Seq(S!InFile)
    BY <2>1, StrPlacesIn, SubSeqProperties
  <2> QED
    BY <2>2, LenProperties
<1> HIDE DEF s, t
<1>3. /\ s \o t \in Seq(S!InFile) /\ Len(s \o t) = Len(s) + Len(t)
      /\ \A i \in 1 .. Len(s) + Len(t) : (s \o t)[i] = IF i <= Len(s) THEN s[i] ELSE t[i - Len(s)]
  BY <1>1, <1>2, ConcatProperties
<1>4. file' = s \o t
  BY DEF s, t
<1>5. Len(file') # 0 /\ file'[1] = "world!"
  BY <1>1, <1>2, <1>3, <1>4
<1> QED
  BY <1>3, <1>4, <1>5, EmptySeq

LEMMA StrWriteIInv == ASSUME S!IInv, S!Write PROVE S!IInv'
<1>1. /\ mpc = "write" /\ mpc' = "exit"
      /\ \/ /\ IF append THEN ~full /\ file' = Append(file, "world!")
                         ELSE file' = <<"world!">> \o SubSeq(file, 2, Len(file))
            /\ S!Say("write success")
         \/ UNCHANGED <<file, obuf, shown>>
      /\ UNCHANGED <<program, tty, full, nr, fbuf, handlers, append, told, others>>
  BY DEF S!Write, S!Goto
<1>2. program = "fdopen" /\ program' = "fdopen"
  BY <1>1, StrPhases DEF S!Ends
<1>3. /\ S!Untouched /\ handlers = <<>> /\ fbuf = <<>> /\ (told = "append" <=> append)
      /\ file \in Seq(S!InFile)
  BY <1>1, <1>2 DEF S!IInv, S!Fdopened, S!TypeOK
<1>4. CASE UNCHANGED <<file, obuf, shown>>
  <2>1. S!TypeOK' /\ S!Buffered'
    BY <1>1, <1>4, StrTypeSame, StrBufferedSame DEF S!IInv, S!Running, S!streams
  <2>2. S!Untouched' /\ handlers' = <<>> /\ fbuf' = <<>>
    BY <1>1, <1>3, <1>4, StrFileSame
  <2>3. S!Fdopened'
    BY <1>1, <2>2 DEF S!Fdopened
  <2> QED
    BY <1>2, <2>1, <2>3, StrOfFdopen
<1>5. CASE /\ IF append THEN ~full /\ file' = Append(file, "world!")
                        ELSE file' = <<"world!">> \o SubSeq(file, 2, Len(file))
           /\ S!Say("write success")
  <2>1. mpc \in S!Running /\ "write success" \in S!Said /\ "world!" \in S!InFile /\ tty' = tty
    BY <1>1 DEF S!Running, S!Said, S!InFile
  <2>2. /\ obuf' \in Seq(S!Said) /\ shown' \in Seq(S!Said) /\ (tty' => obuf' = <<>>)
        /\ (~tty' => shown' = <<>>)
    BY <1>5, <2>1, StrSaysMore DEF S!IInv
  <2>3. /\ file' \in Seq(S!InFile)
        /\ \/ told' = "append" /\ S!NoneLost'
           \/ told' # "append" /\ file' # <<>> /\ file'[1] = "world!"
    <3>1. CASE append
      <4>1. file' = Append(file, "world!") /\ told' = "append" /\ others' = others
        BY <1>1, <1>3, <1>5, <3>1
      <4>2. file' \in Seq(S!InFile) /\ S!PlacesOf("other")' = S!PlacesOf("other")
        BY <1>3, <2>1, <4>1, StrFileLonger, StrPlacesSame
      <4>3. S!NoneLost'
        BY <1>3, <4>1, <4>2 DEF S!Untouched, S!NoneLost
      <4> QED
        BY <4>1, <4>2, <4>3
    <3>2. CASE ~append
      BY <1>1, <1>3, <1>5, <3>2, StrOverwritten
    <3> QED
      BY <3>1, <3>2
  <2>4. S!TypeOK'
    BY <1>1, <2>2, <2>3 DEF S!IInv, S!TypeOK, S!Running
  <2>5. S!Buffered'
    BY <2>2 DEF S!Buffered
  <2>6. S!Fdopened'
    <3>1. handlers' = <<>> /\ fbuf' = <<>>
      BY <1>1, <1>3
    <3> QED
      BY <1>1, <2>3, <3>1 DEF S!Fdopened
  <2> QED
    BY <1>2, <2>4, <2>5, <2>6, StrOfFdopen
<1> QED
  BY <1>1, <1>4, <1>5

LEMMA StrOtherAppendsIInv == ASSUME S!IInv, S!OtherAppends PROVE S!IInv'
<1>1. /\ program = "fdopen" /\ mpc \in S!Running /\ file' = Append(file, "other")
      /\ others' = others + 1
      /\ UNCHANGED <<program, mpc, tty, full, nr, obuf, shown, fbuf, handlers, append, told>>
  BY DEF S!OtherAppends, S!IInv, S!TypeOK
<1>2. file \in Seq(S!InFile) /\ "other" \in S!InFile
  BY DEF S!IInv, S!TypeOK, S!InFile
<1>3. /\ file' \in Seq(S!InFile) /\ DOMAIN file' = 1 .. Len(file) + 1
      /\ \A k \in 1 .. Len(file) : file'[k] = file[k]
      /\ file' # <<>>
  BY <1>1, <1>2, StrFileLonger
<1>4. S!TypeOK'
  <2>1. others' \in Nat
    <3>1. others \in Nat
      BY DEF S!IInv, S!TypeOK
    <3>2. others' = others + 1
      BY <1>1
    <3> QED
      BY <3>1, <3>2
  <2> QED
    BY <1>1, <1>3, <2>1 DEF S!IInv, S!TypeOK
<1>5. S!Buffered'
  BY <1>1, StrBufferedSame DEF S!IInv
<1>6. S!NoneLost => S!NoneLost'
  BY <1>1, <1>2, StrPlacesMore, StrCardinality DEF S!NoneLost
<1>7. S!Untouched => S!Untouched'
  <2> SUFFICES ASSUME S!Untouched PROVE DOMAIN file' = S!PlacesOf("other")'
    BY <1>6 DEF S!Untouched
  <2>1. 1 .. Len(file) + 1 = (1 .. Len(file)) \cup {Len(file) + 1}
    BY <1>2, StrPlacesIn
  <2>2. DOMAIN file = 1 .. Len(file)
    BY <1>2, StrPlacesIn
  <2> QED
    BY <1>1, <1>2, <1>3, <2>1, <2>2, StrPlacesMore DEF S!Untouched
<1>8. file # <<>> => file'[1] = file[1]
  <2>1. file # <<>> => 1 \in 1 .. Len(file)
    BY <1>2, EmptySeq
  <2> QED
    BY <1>3, <2>1
<1>9. S!Fdopened'
  BY <1>1, <1>3, <1>6, <1>7, <1>8 DEF S!IInv, S!Fdopened
<1> QED
  BY <1>1, <1>4, <1>5, <1>9, StrOfFdopen

LEMMA StrKillIInv == ASSUME S!IInv, S!Kill PROVE S!IInv'
<1>1. mpc \in S!Running /\ mpc' = "killed" /\ UNCHANGED <<program, S!streams>>
  BY DEF S!IInv, S!TypeOK, S!Kill
<1>2. S!TypeOK' /\ S!Buffered'
  BY <1>1, StrTypeSame, StrBufferedSame DEF S!IInv, S!Ends, S!streams
<1>3. S!Atexit' /\ S!ExitShown'
  BY <1>1 DEF S!Atexit, S!ExitShown, S!Ends
<1>4. S!Fdopened'
  BY <1>1, StrFileSame DEF S!IInv, S!Fdopened, S!Ends, S!streams
<1> QED
  BY <1>2, <1>3, <1>4 DEF S!IInv

LEMMA StrSameIInv == ASSUME S!IInv, UNCHANGED <<program, mpc, S!streams>> PROVE S!IInv'
<1>1. /\ program' = program /\ mpc' = mpc /\ tty' = tty /\ full' = full /\ nr' = nr
      /\ obuf' = obuf /\ shown' = shown /\ fbuf' = fbuf /\ file' = file
      /\ handlers' = handlers /\ append' = append /\ told' = told /\ others' = others
  BY DEF S!streams
<1>2. S!TypeOK' /\ S!Buffered'
  <2>1. mpc \in S!Running \cup S!Ends
    BY DEF S!IInv, S!TypeOK
  <2>2. S!TypeOK'
    BY <1>1, <2>1, StrTypeSame DEF S!IInv
  <2> QED
    BY <1>1, <2>2 DEF S!IInv, S!Buffered, S!TypeOK
<1>3. S!Atexit'
  BY <1>1, StrOutSame DEF S!IInv, S!Atexit
<1>4. S!Fdopened'
  BY <1>1, StrFileSame DEF S!IInv, S!Fdopened
<1>5. S!ExitShown'
  BY <1>1 DEF S!IInv, S!ExitShown
<1> QED
  BY <1>2, <1>3, <1>4, <1>5 DEF S!IInv

LEMMA StrNextIInv ==
  ASSUME S!IInv, [S!MainStep \/ S!OtherAppends \/ S!Kill]_<<program, mpc, S!streams>> PROVE S!IInv'
BY StrRunHandlerIInv, StrFlushIInv, StrFopenIInv, StrFprintfIInv, StrEndIInv,
   StrOpenIInv, StrTellIInv, StrFdopenIInv, StrWriteIInv, StrOtherAppendsIInv,
   StrKillIInv, StrSameIInv DEF S!MainStep

LEMMA StrWriteFollows == S!IInv => S!WriteAsTold
<1> SUFFICES ASSUME S!IInv, program = "fdopen", S!Contains(file, "world!")
             PROVE  IF told = "append" THEN S!Cardinality(S!PlacesOf("other")) = others
                                       ELSE Head(file) = "world!"
  BY DEF S!WriteAsTold
<1>1. PICK k \in 1 .. Len(file) : file[k] = "world!"
  BY DEF S!Contains
<1>2. file \in Seq(S!InFile) /\ DOMAIN file = 1 .. Len(file)
  BY StrPlacesIn DEF S!IInv, S!TypeOK
<1>3. ~S!Untouched
  BY <1>1, <1>2 DEF S!Untouched, S!PlacesOf
<1>4. \/ told = "append" /\ S!NoneLost
      \/ told # "append" /\ file # <<>> /\ file[1] = "world!"
  BY <1>3 DEF S!IInv, S!Fdopened
<1>5. Head(file) = file[1]
  OBVIOUS
<1> QED
  BY <1>4, <1>5 DEF S!NoneLost

---------------------------------------------------------------------------
(* Threads: what each thread has written when main has joined it.          *)

\* T has an operator of its own.
LEMMA PthCardinality == ASSUME NEW E PROVE T!Cardinality(E) = Cardinality(E)
BY DEF Cardinality, T!Cardinality

LEMMA PthCallIs == \A do, arg : T!Call(do, arg).do = do /\ T!Call(do, arg).arg = arg
BY DEF T!Call

LEMMA PthLineIs ==
  \A by, what, arg, value :
    LET l == T!Line(by, what, arg, value)
    IN  /\ l.by = by /\ l.what = what /\ l.arg = arg /\ l.value = value
        /\ by \in 0 .. 4 /\ what \in T!Ways /\ arg \in 0 .. 4 /\ value \in -1 .. 4 => l \in T!Lines
BY DEF T!Line, T!Lines

\* The calls of main, by their place.
LEMMA PthMainOfExit ==
  ASSUME program = "exit"
  PROVE  /\ Len(T!Main) = 13
         /\ \A i \in 1 .. 4 : T!Main[i].do = "create" /\ T!Main[i].arg = i
         /\ \A i \in {5, 7, 10, 12} : T!Main[i].do = "join"
         /\ \A i \in {6, 8, 11, 13} : T!Main[i].do = "print"
         /\ T!Main[5].arg = 1 /\ T!Main[7].arg = 2 /\ T!Main[10].arg = 3 /\ T!Main[12].arg = 4
         /\ T!Main[6].arg = 1 /\ T!Main[8].arg = 2 /\ T!Main[11].arg = 3
         /\ T!Main[9].do = "cancel" /\ T!Main[9].arg = 3
<1>1. T!Main = T!MainExit
  BY DEF T!Main
<1>2. Len(T!MainExit) = 13
  BY DEF T!MainExit
<1>3. /\ T!MainExit[1] = T!Call("create", 1) /\ T!MainExit[2] = T!Call("create", 2)
      /\ T!MainExit[3] = T!Call("create", 3) /\ T!MainExit[4] = T!Call("create", 4)
      /\ T!MainExit[5] = T!Call("join", 1) /\ T!MainExit[6] = T!Call("print", 1)
      /\ T!MainExit[7] = T!Call("join", 2) /\ T!MainExit[8] = T!Call("print", 2)
      /\ T!MainExit[9] = T!Call("cancel", 3)
      /\ T!MainExit[10] = T!Call("join", 3) /\ T!MainExit[11] = T!Call("print", 3)
      /\ T!MainExit[12] = T!Call("join", 4) /\ T!MainExit[13] = T!Call("print", 4)
  BY DEF T!MainExit
<1>4. \A i \in 1 .. 4 : i = 1 \/ i = 2 \/ i = 3 \/ i = 4
  OBVIOUS
<1> QED
  BY <1>1, <1>2, <1>3, <1>4, PthCallIs

LEMMA PthMainOfCleanup ==
  ASSUME program = "cleanup"
  PROVE  /\ Len(T!Main) = 6
         /\ \A i \in 1 .. 2 : T!Main[i].do = "create" /\ T!Main[i].arg = i
         /\ T!Main[3].do = "join" /\ T!Main[3].arg = 1
         /\ T!Main[4].do = "print" /\ T!Main[4].arg = 1
         /\ T!Main[5].do = "join" /\ T!Main[5].arg = 2
         /\ T!Main[6].do = "print" /\ T!Main[6].arg = 2
<1>1. T!Main = T!MainCleanup
  BY DEF T!Main
<1>2. Len(T!MainCleanup) = 6
  BY DEF T!MainCleanup
<1>3. /\ T!MainCleanup[1] = T!Call("create", 1) /\ T!MainCleanup[2] = T!Call("create", 2)
      /\ T!MainCleanup[3] = T!Call("join", 1) /\ T!MainCleanup[4] = T!Call("print", 1)
      /\ T!MainCleanup[5] = T!Call("join", 2) /\ T!MainCleanup[6] = T!Call("print", 2)
  BY DEF T!MainCleanup
<1>4. \A i \in 1 .. 2 : i = 1 \/ i = 2
  OBVIOUS
<1> QED
  BY <1>1, <1>2, <1>3, <1>4, PthCallIs

LEMMA PthMainOfOthers ==
  /\ program = "identification" =>
       /\ Len(T!Main) = 3 /\ T!Main[1].do = "create" /\ T!Main[1].arg = 1
       /\ T!Main[2].do = "printids" /\ T!Main[3].do = "sleep"
  /\ program = "timedlock" =>
       Len(T!Main) = 2 /\ T!Main[1].do = "lock" /\ T!Main[2].do = "timedlock"
<1>1. /\ program = "identification" => T!Main = T!MainIdentification
      /\ program = "timedlock" => T!Main = T!MainTimedlock
  BY DEF T!Main
<1>2. /\ Len(T!MainIdentification) = 3 /\ T!MainIdentification[1] = T!Call("create", 1)
      /\ T!MainIdentification[2] = T!Call("printids", 0)
      /\ T!MainIdentification[3] = T!Call("sleep", 2)
  BY DEF T!MainIdentification
<1>3. /\ Len(T!MainTimedlock) = 2 /\ T!MainTimedlock[1] = T!Call("lock", 0)
      /\ T!MainTimedlock[2] = T!Call("timedlock", 5)
  BY DEF T!MainTimedlock
<1> QED
  BY <1>1, <1>2, <1>3, PthCallIs

\* Where main is when it makes a call.
LEMMA PthMainIsAt ==
  ASSUME T!IInv, mpc =< Len(T!Main)
  PROVE  LET do == T!Main[mpc].do
         IN  /\ do = "create" => /\ program \in {"exit", "cleanup", "identification"}
                                 /\ T!Arg = mpc /\ mpc \in T!Own
             /\ do = "join" => \/ program = "exit" /\ mpc = 5 /\ T!Arg = 1
                               \/ program = "exit" /\ mpc = 7 /\ T!Arg = 2
                               \/ program = "exit" /\ mpc = 10 /\ T!Arg = 3
                               \/ program = "exit" /\ mpc = 12 /\ T!Arg = 4
                               \/ program = "cleanup" /\ mpc = 3 /\ T!Arg = 1
                               \/ program = "cleanup" /\ mpc = 5 /\ T!Arg = 2
             /\ do = "print" => \/ program = "exit" /\ mpc = 6 /\ T!Arg = 1
                                \/ program = "exit" /\ mpc = 8 /\ T!Arg = 2
                                \/ program = "exit" /\ mpc = 11 /\ T!Arg = 3
                                \/ program = "cleanup" /\ mpc = 4 /\ T!Arg = 1
                                \/ program = "cleanup" /\ mpc = 6 /\ T!Arg = 2
             /\ do = "cancel" => program = "exit" /\ mpc = 9 /\ T!Arg = 3
             /\ do = "printids" => program = "identification" /\ mpc = 2
             /\ do = "sleep" => program = "identification" /\ mpc = 3
             /\ do = "lock" => program = "timedlock" /\ mpc = 1
             /\ do = "timedlock" => program = "timedlock" /\ mpc = 2
<1>1. program \in {"exit", "cleanup", "identification", "timedlock"} /\ mpc \in 1 .. 13
  BY DEF T!IInv, T!TypeOK, T!Programs
<1>2. CASE program = "exit"
  <2>1. mpc \in 1 .. 12
    BY <1>2 DEF T!IInv, T!InMain, T!InPlace, T!ExitAt
  <2>2. mpc \in 1 .. 4 \/ mpc \in {5, 7, 10, 12} \/ mpc \in {6, 8, 11} \/ mpc = 9
    BY <2>1
  <2>3. T!Own = 1 .. 4
    BY <1>2 DEF T!Own
  <2> QED
    BY <1>2, <2>2, <2>3, PthMainOfExit DEF T!Arg
<1>3. CASE program = "cleanup"
  <2>1. mpc \in 1 .. 2 \/ mpc = 3 \/ mpc = 4 \/ mpc = 5 \/ mpc = 6
    <3>1. Len(T!Main) = 6
      BY <1>3, PthMainOfCleanup
    <3>2. mpc =< 6 /\ mpc \in 1 .. 13
      BY <1>1, <3>1
    <3> QED
      BY <3>2
  <2>2. T!Own = 1 .. 2
    BY <1>3 DEF T!Own
  <2> QED
    BY <1>3, <2>1, <2>2, PthMainOfCleanup DEF T!Arg
<1>4. CASE program = "identification"
  <2>1. mpc = 1 \/ mpc = 2 \/ mpc = 3
    <3>1. Len(T!Main) = 3
      BY <1>4, PthMainOfOthers
    <3>2. mpc =< 3 /\ mpc \in 1 .. 13
      BY <1>1, <3>1
    <3> QED
      BY <3>2
  <2>2. T!Own = {1}
    BY <1>4 DEF T!Own
  <2> QED
    BY <1>4, <2>1, <2>2, PthMainOfOthers DEF T!Arg
<1>5. CASE program = "timedlock"
  <2>1. mpc = 1 \/ mpc = 2
    <3>1. Len(T!Main) = 2
      BY <1>5, PthMainOfOthers
    <3>2. mpc =< 2 /\ mpc \in 1 .. 13
      BY <1>1, <3>1
    <3> QED
      BY <3>2
  <2> QED
    BY <1>5, <2>1, PthMainOfOthers DEF T!Arg
<1> QED
  BY <1>1, <1>2, <1>3, <1>4, <1>5

\* The calls of a thread, by their place.
LEMMA PthBodiesAre ==
  /\ program = "exit" =>
       /\ \A t \in 1 .. 4 : T!Body(t)[1].do = "say" /\ T!Body(t)[1].arg = 1
       /\ T!Body(1)[2].do = "return" /\ T!Body(1)[2].arg = 1
       /\ T!Body(2)[2].do = "exit" /\ T!Body(2)[2].arg = 2
       /\ T!Body(3)[2].do = "pause" /\ T!Body(4)[2].do = "pause"
  /\ program = "cleanup" =>
       /\ \A t \in 1 .. 2 : /\ T!Body(t)[1].do = "say" /\ T!Body(t)[1].arg = 1
                            /\ T!Body(t)[2].do = "push" /\ T!Body(t)[2].arg = 1
                            /\ T!Body(t)[3].do = "push" /\ T!Body(t)[3].arg = 2
                            /\ T!Body(t)[4].do = "say" /\ T!Body(t)[4].arg = 2
       /\ T!Body(1)[5].do = "return" /\ T!Body(1)[5].arg = 1
       /\ T!Body(2)[5].do = "exit" /\ T!Body(2)[5].arg = 2
  /\ program = "identification" =>
       /\ T!Body(1)[1].do = "say" /\ T!Body(1)[1].arg = 1
       /\ T!Body(1)[2].do = "return" /\ T!Body(1)[2].arg = 0
<1>1. /\ program = "exit" => \A t \in 1 .. 4 : T!Body(t) = T!ThrExit[t]
      /\ program = "cleanup" => \A t \in 1 .. 2 : T!Body(t) = T!ThrCleanup[t]
      /\ program = "identification" => T!Body(1) = T!ThrIdentification[1]
  BY DEF T!Body
<1>2. /\ \A t \in 1 .. 4 : t = 1 \/ t = 2 \/ t = 3 \/ t = 4
      /\ \A t \in 1 .. 2 : t = 1 \/ t = 2
  OBVIOUS
<1>3. /\ T!ThrExit[1][1] = T!Call("say", 1) /\ T!ThrExit[2][1] = T!Call("say", 1)
      /\ T!ThrExit[3][1] = T!Call("say", 1) /\ T!ThrExit[4][1] = T!Call("say", 1)
      /\ T!ThrExit[1][2] = T!Call("return", 1) /\ T!ThrExit[2][2] = T!Call("exit", 2)
      /\ T!ThrExit[3][2] = T!Call("pause", 0) /\ T!ThrExit[4][2] = T!Call("pause", 0)
  BY DEF T!ThrExit
<1>4. /\ T!ThrCleanup[1][1] = T!Call("say", 1) /\ T!ThrCleanup[2][1] = T!Call("say", 1)
      /\ T!ThrCleanup[1][2] = T!Call("push", 1) /\ T!ThrCleanup[2][2] = T!Call("push", 1)
      /\ T!ThrCleanup[1][3] = T!Call("push", 2) /\ T!ThrCleanup[2][3] = T!Call("push", 2)
      /\ T!ThrCleanup[1][4] = T!Call("say", 2) /\ T!ThrCleanup[2][4] = T!Call("say", 2)
      /\ T!ThrCleanup[1][5] = T!Call("return", 1) /\ T!ThrCleanup[2][5] = T!Call("exit", 2)
  BY DEF T!ThrCleanup
<1>5. /\ T!ThrIdentification[1][1] = T!Call("say", 1)
      /\ T!ThrIdentification[1][2] = T!Call("return", 0)
  BY DEF T!ThrIdentification
<1>6. CASE program = "exit"
  BY <1>1, <1>2, <1>3, <1>6, PthCallIs
<1>7. CASE program = "cleanup"
  BY <1>1, <1>2, <1>4, <1>7, PthCallIs
<1>8. CASE program = "identification"
  BY <1>1, <1>5, <1>8, PthCallIs
<1> QED
  BY <1>6, <1>7, <1>8

\* Where a thread is when it makes a call.
LEMMA PthThreadIsAt ==
  ASSUME T!IInv, NEW t \in T!Tids, thread[t].phase = "running"
  PROVE  LET do == T!Body(t)[thread[t].pc].do
             at == thread[t].pc
         IN  /\ do = "say" => \/ program # "cleanup" /\ at = 1 /\ T!ArgOf(t) = 1
                              \/ program = "cleanup" /\ at = 1 /\ T!ArgOf(t) = 1
                              \/ program = "cleanup" /\ at = 4 /\ T!ArgOf(t) = 2
             /\ do = "push" => \/ program = "cleanup" /\ at = 2 /\ T!ArgOf(t) = 1
                               \/ program = "cleanup" /\ at = 3 /\ T!ArgOf(t) = 2
             /\ do = "return" => /\ T!ArgOf(t) = T!Code(t) /\ t = 1
                                 /\ at = IF program = "cleanup" THEN 5 ELSE 2
             /\ do = "exit" => /\ T!ArgOf(t) = T!Code(t) /\ t = 2
                               /\ at = IF program = "cleanup" THEN 5 ELSE 2
             /\ do = "pause" => program = "exit" /\ at = 2 /\ t \in {3, 4}
             /\ program \in {"exit", "cleanup", "identification"} /\ t \in T!Own
<1>1. t \in T!Own /\ thread[t].pc \in 1 .. 5 /\ (program # "cleanup" => thread[t].pc \in 1 .. 2)
  BY DEF T!IInv, T!TypeOK, T!InBody, T!AtCall, T!ThreadStates
<1>2. program \in {"exit", "cleanup", "identification", "timedlock"}
  BY DEF T!IInv, T!TypeOK, T!Programs
<1>3. program # "timedlock"
  BY <1>1 DEF T!Own
<1>4. CASE program = "exit"
  <2>1. t = 1 \/ t = 2 \/ t = 3 \/ t = 4
    BY <1>1, <1>4 DEF T!Own
  <2>2. thread[t].pc = 1 \/ thread[t].pc = 2
    BY <1>1, <1>4
  <2>3. T!Code(1) = 1 /\ T!Code(2) = 2
    BY <1>4 DEF T!Code
  <2> QED
    BY <1>1, <1>4, <2>1, <2>2, <2>3, PthBodiesAre DEF T!ArgOf
<1>5. CASE program = "cleanup"
  <2>1. t = 1 \/ t = 2
    BY <1>1, <1>5 DEF T!Own
  <2>2. thread[t].pc = 1 \/ thread[t].pc = 2 \/ thread[t].pc = 3 \/ thread[t].pc = 4
        \/ thread[t].pc = 5
    BY <1>1
  <2>3. T!Code(1) = 1 /\ T!Code(2) = 2
    BY <1>5 DEF T!Code
  <2> QED
    BY <1>1, <1>5, <2>1, <2>2, <2>3, PthBodiesAre DEF T!ArgOf
<1>6. CASE program = "identification"
  <2>1. t = 1
    BY <1>1, <1>6 DEF T!Own
  <2>2. thread[t].pc = 1 \/ thread[t].pc = 2
    BY <1>1, <1>6
  <2>3. T!Code(1) = 0
    BY <1>6 DEF T!Code
  <2> QED
    BY <1>1, <1>6, <2>1, <2>2, <2>3, PthBodiesAre DEF T!ArgOf
<1> QED
  BY <1>2, <1>3, <1>4, <1>5, <1>6

---------------------------------------------------------------------------
\* One line more.
LEMMA PthLineAdded ==
  ASSUME NEW E, NEW s \in Seq(E), NEW l \in E
  PROVE  /\ Append(s, l) \in Seq(E) /\ Len(s) \in Nat /\ Len(Append(s, l)) = Len(s) + 1
         /\ Append(s, l)[Len(s) + 1] = l
         /\ \A k \in 1 .. Len(s) : Append(s, l)[k] = s[k]
OBVIOUS

LEMMA PthCountOf ==
  ASSUME NEW s, NEW t, NEW k
  PROVE  T!Count(s, t, k) = Cardinality({i \in 1 .. k : s[i].by = t})
BY PthCardinality DEF T!Count

LEMMA PthCountIs ==
  ASSUME NEW s, NEW t, NEW k \in Nat
  PROVE  /\ T!Count(s, t, k) \in Nat
         /\ s[k + 1].by = t => T!Count(s, t, k + 1) = T!Count(s, t, k) + 1
         /\ s[k + 1].by # t => T!Count(s, t, k + 1) = T!Count(s, t, k)
<1> DEFINE P == {i \in 1 .. k : s[i].by = t}
           Q == {i \in 1 .. k + 1 : s[i].by = t}
<1>0. T!Count(s, t, k) = Cardinality(P) /\ T!Count(s, t, k + 1) = Cardinality(Q)
  BY PthCountOf
<1>1. IsFiniteSet(1 .. k)
  BY FS_Interval
<1>2. IsFiniteSet(P)
  BY <1>1, FS_Subset
<1>3. k + 1 \notin P
  OBVIOUS
<1>4. Cardinality(P) \in Nat
  BY <1>2, FS_CardinalityType
<1>5. \A i \in 1 .. k + 1 : i \in 1 .. k \/ i = k + 1
  OBVIOUS
<1>6. \A i \in 1 .. k : i \in 1 .. k + 1
  OBVIOUS
<1>7. k + 1 \in 1 .. k + 1
  OBVIOUS
<1>8. CASE s[k + 1].by = t
  <2>1. Q = P \cup {k + 1}
    BY <1>5, <1>6, <1>7, <1>8, Zenon
  <2>2. Cardinality(P \cup {k + 1}) = Cardinality(P) + 1
    BY <1>2, <1>3, FS_AddElement
  <2> QED
    BY <1>0, <1>4, <1>8, <2>1, <2>2
<1>9. CASE s[k + 1].by # t
  <2>1. Q = P
    BY <1>5, <1>6, <1>9, Zenon
  <2> QED
    BY <1>0, <1>4, <1>9, <2>1
<1> QED
  BY <1>8, <1>9

LEMMA PthCountSame ==
  ASSUME NEW s, NEW q, NEW t, NEW k, \A i \in 1 .. k : q[i] = s[i]
  PROVE  T!Count(q, t, k) = T!Count(s, t, k)
<1>1. {i \in 1 .. k : q[i].by = t} = {i \in 1 .. k : s[i].by = t}
  OBVIOUS
<1> QED
  BY <1>1 DEF T!Count

\* What the counts are after a line is written.
LEMMA PthCounts ==
  ASSUME NEW s \in Seq(T!Lines), NEW l \in T!Lines, NEW t
  PROVE  LET q == Append(s, l)
             n == Len(s)
         IN  /\ \A k \in 1 .. n : T!Count(q, t, k) = T!Count(s, t, k)
             /\ T!Count(s, t, n) \in Nat
             /\ l.by = t => T!Count(q, t, n + 1) = T!Count(s, t, n) + 1
             /\ l.by # t => T!Count(q, t, n + 1) = T!Count(s, t, n)
<1> DEFINE q == Append(s, l)
           n == Len(s)
<1> HIDE DEF q
<1>1. /\ n \in Nat /\ q[n + 1] = l /\ \A k \in 1 .. n : q[k] = s[k]
  BY PthLineAdded DEF q
<1>2. ASSUME NEW k \in 0 .. n PROVE T!Count(q, t, k) = T!Count(s, t, k)
  <2>1. \A i \in 1 .. k : i \in 1 .. n
    BY <1>1
  <2>2. \A i \in 1 .. k : q[i] = s[i]
    BY <1>1, <2>1
  <2> QED
    BY <2>2, PthCountSame
<1>3. n \in 0 .. n /\ \A k \in 1 .. n : k \in 0 .. n
  BY <1>1
<1>4. /\ T!Count(s, t, n) \in Nat
      /\ l.by = t => T!Count(q, t, n + 1) = T!Count(q, t, n) + 1
      /\ l.by # t => T!Count(q, t, n + 1) = T!Count(q, t, n)
  BY <1>1, PthCountIs
<1>5. T!Count(q, t, n) = T!Count(s, t, n)
  BY <1>2, <1>3
<1>6. \A k \in 1 .. n : T!Count(q, t, k) = T!Count(s, t, k)
  BY <1>2, <1>3
<1> QED
  BY <1>4, <1>5, <1>6 DEF q

LEMMA PthAllLinesAre ==
  \A t : /\ T!AllLines(t)[1] = T!Line(t, "say", 1, 0) /\ T!AllLines(t)[2] = T!Line(t, "say", 2, 0)
         /\ T!AllLines(t)[3] = T!Line(t, "cleanup", 2, 0)
         /\ T!AllLines(t)[4] = T!Line(t, "cleanup", 1, 0)
BY DEF T!AllLines

\* Another writes, and t writes its next line.
LEMMA PthOthersLine ==
  ASSUME NEW s \in Seq(T!Lines), NEW l \in T!Lines, NEW t, NEW w,
         T!FirstOf(s, t, w), l.by # t
  PROVE  T!FirstOf(Append(s, l), t, w)
<1> DEFINE q == Append(s, l)
           n == Len(s)
<1> HIDE DEF q
<1>1. /\ n \in Nat /\ Len(q) = n + 1 /\ q[n + 1] = l
      /\ \A k \in 1 .. n : q[k] = s[k]
  BY PthLineAdded DEF q
<1>2. /\ \A k \in 1 .. n : T!Count(q, t, k) = T!Count(s, t, k)
      /\ T!Count(q, t, n + 1) = T!Count(s, t, n)
  BY PthCounts DEF q
<1>3. /\ T!Count(s, t, n) = w
      /\ \A j \in 1 .. n : s[j].by = t => s[j] = T!AllLines(t)[T!Count(s, t, j)]
  BY DEF T!FirstOf
<1>4. T!Count(q, t, Len(q)) = w
  BY <1>1, <1>2, <1>3
<1>5. ASSUME NEW j \in 1 .. Len(q), q[j].by = t
      PROVE  q[j] = T!AllLines(t)[T!Count(q, t, j)]
  <2>1. j \in 1 .. n \/ j = n + 1
    BY <1>1
  <2>2. j # n + 1
    BY <1>1, <1>5
  <2> QED
    BY <1>1, <1>2, <1>3, <1>5, <2>1, <2>2
<1> QED
  BY <1>4, <1>5 DEF T!FirstOf, q

LEMMA PthOwnLine ==
  ASSUME NEW s \in Seq(T!Lines), NEW l \in T!Lines, NEW t, NEW w,
         T!FirstOf(s, t, w), l.by = t, l = T!AllLines(t)[w + 1]
  PROVE  T!FirstOf(Append(s, l), t, w + 1)
<1> DEFINE q == Append(s, l)
           n == Len(s)
<1> HIDE DEF q
<1>1. /\ n \in Nat /\ Len(q) = n + 1 /\ q[n + 1] = l
      /\ \A k \in 1 .. n : q[k] = s[k]
  BY PthLineAdded DEF q
<1>2. /\ \A k \in 1 .. n : T!Count(q, t, k) = T!Count(s, t, k)
      /\ T!Count(q, t, n + 1) = T!Count(s, t, n) + 1
  BY PthCounts DEF q
<1>3. /\ T!Count(s, t, n) = w
      /\ \A j \in 1 .. n : s[j].by = t => s[j] = T!AllLines(t)[T!Count(s, t, j)]
  BY DEF T!FirstOf
<1>4. T!Count(q, t, Len(q)) = w + 1
  BY <1>1, <1>2, <1>3
<1>5. ASSUME NEW j \in 1 .. Len(q), q[j].by = t
      PROVE  q[j] = T!AllLines(t)[T!Count(q, t, j)]
  <2>1. j \in 1 .. n \/ j = n + 1
    BY <1>1
  <2>2. CASE j = n + 1
    BY <1>1, <1>4, <2>2
  <2>3. CASE j \in 1 .. n
    BY <1>1, <1>2, <1>3, <1>5, <2>3
  <2> QED
    BY <2>1, <2>2, <2>3
<1> QED
  BY <1>4, <1>5 DEF T!FirstOf, q

LEMMA PthApartLine ==
  ASSUME NEW s \in Seq(T!Lines), NEW l \in T!Lines, T!Apart(s),
         \A k \in 1 .. Len(s) : T!IsCode(s[k]) => l.by # s[k].arg
  PROVE  T!Apart(Append(s, l))
<1> DEFINE q == Append(s, l)
           n == Len(s)
<1> HIDE DEF q
<1>1. /\ n \in Nat /\ Len(q) = n + 1 /\ q[n + 1] = l
      /\ \A k \in 1 .. n : q[k] = s[k]
  BY PthLineAdded DEF q
<1>2. \A k \in 1 .. n : T!IsCode(s[k]) => \A j \in k + 1 .. n : s[j].by # s[k].arg
  BY DEF T!Apart
<1>3. ASSUME NEW k \in 1 .. Len(q), T!IsCode(q[k]), NEW j \in k + 1 .. Len(q)
      PROVE  q[j].by # q[k].arg
  <2>1. k \in 1 .. n /\ (j = n + 1 \/ j \in k + 1 .. n)
    BY <1>1
  <2>2. q[k] = s[k] /\ T!IsCode(s[k])
    BY <1>1, <1>3, <2>1
  <2>3. CASE j = n + 1
    BY <1>1, <2>1, <2>2, <2>3
  <2>4. CASE j \in k + 1 .. n
    <3>1. j \in 1 .. n
      BY <2>1, <2>4
    <3> QED
      BY <1>1, <1>2, <2>1, <2>2, <2>4, <3>1
  <2> QED
    BY <2>1, <2>3, <2>4
<1> QED
  BY <1>3 DEF T!Apart, q

---------------------------------------------------------------------------
\* Nobody writes.
LEMMA PthNoLine ==
  ASSUME T!IInv, out' = out, program' = program,
         \A t \in T!Tids : /\ T!Written(thread[t])' = T!Written(thread[t])
                           /\ (T!Joined(t) => T!Joined(t)')
  PROVE  T!InOrder' /\ T!Shown'
<1>1. T!InOrder'
  BY DEF T!IInv, T!InOrder, T!FirstOf, T!Count, T!AllLines
<1>2. \A l : T!Ends(l) => T!Ends(l)'
  BY DEF T!Ends, T!Own, T!Code, T!Tids
<1>3. T!Apart(out)' /\ \A k \in 1 .. Len(out) : T!IsCode(out[k]) => T!Ends(out[k])
  BY DEF T!IInv, T!Shown, T!Apart, T!IsCode
<1>4. T!Shown'
  BY <1>2, <1>3 DEF T!Shown, T!IsCode
<1> QED
  BY <1>1, <1>4

\* The lines that have been shown stay right, and the new one is.
LEMMA PthShownStays ==
  ASSUME T!IInv, NEW l \in T!Lines, out' = Append(out, l), program' = program,
         \A t \in T!Tids : T!Joined(t) => T!Joined(t)',
         T!IsCode(l) => T!Ends(l)',
         \A t \in T!Tids : l.by = t => ~T!Joined(t)
  PROVE  T!Shown'
<1> DEFINE n == Len(out)
<1>1. out \in Seq(T!Lines)
  BY DEF T!IInv, T!TypeOK
<1>2. /\ n \in Nat /\ Len(Append(out, l)) = n + 1 /\ Append(out, l)[n + 1] = l
      /\ \A k \in 1 .. n : Append(out, l)[k] = out[k]
  BY <1>1, PthLineAdded
<1>3. /\ T!Apart(out) /\ \A k \in 1 .. n : T!IsCode(out[k]) => T!Ends(out[k])
  BY DEF T!IInv, T!Shown
<1>4. \A m : T!Ends(m) => T!Ends(m)'
  BY DEF T!Ends, T!Own, T!Code, T!Tids
<1>5. \A k \in 1 .. n : T!IsCode(out[k]) => l.by # out[k].arg
  <2>1. \A m : T!Ends(m) => m.arg \in T!Tids /\ T!Joined(m.arg)
    BY DEF T!Ends, T!Tids
  <2> QED
    BY <1>3, <2>1
<1>6. T!Apart(Append(out, l))
  BY <1>1, <1>3, <1>5, PthApartLine
<1>7. \A k \in 1 .. Len(out') : \A m : m = out'[k] /\ T!IsCode(m) => T!Ends(m)'
  <2>1. \A k \in 1 .. Len(out') : (k \in 1 .. n /\ out'[k] = out[k]) \/ out'[k] = l
    BY <1>2
  <2> QED
    BY <1>3, <1>4, <2>1
<1>8. \A k \in 1 .. Len(out') : T!IsCode(out'[k]) => T!Ends(out[k])'
  BY <1>7 DEF T!Ends
<1>9. T!Apart(out)'
  BY <1>6 DEF T!Apart, T!IsCode
<1> QED
  BY <1>8, <1>9 DEF T!Shown, T!IsCode

\* Main writes.
LEMMA PthMainLine ==
  ASSUME T!IInv, NEW l \in T!Lines, out' = Append(out, l), l.by = 0,
         thread' = thread, program' = program, T!IsCode(l) => T!Ends(l)
  PROVE  T!InOrder' /\ T!Shown'
<1>1. out \in Seq(T!Lines)
  BY DEF T!IInv, T!TypeOK
<1>2. \A t \in T!Tids : T!FirstOf(out, t, T!Written(thread[t])) =>
        T!FirstOf(Append(out, l), t, T!Written(thread[t]))
  BY <1>1, PthOthersLine DEF T!Tids
<1>3. \A t : T!Written(thread[t])' = T!Written(thread[t]) /\ T!Joined(t)' = T!Joined(t)
  BY DEF T!Written, T!Joined
<1>4. T!InOrder'
  BY <1>2, <1>3 DEF T!IInv, T!InOrder
<1>5. T!Ends(l)' = T!Ends(l)
  BY DEF T!Ends, T!Own, T!Code, T!Joined
<1>6. T!Shown'
  BY <1>3, <1>5, PthShownStays DEF T!Tids
<1> QED
  BY <1>4, <1>6

\* A thread writes.
LEMMA PthThreadLine ==
  ASSUME T!IInv, NEW t \in T!Tids, NEW l \in T!Lines, out' = Append(out, l), l.by = t, ~T!IsCode(l),
         program' = program, ~T!Joined(t), \A u \in T!Tids : u # t => thread'[u] = thread[u],
         program \in {"exit", "cleanup"} =>
           l = T!AllLines(t)[T!Written(thread[t]) + 1],
         T!Written(thread[t])' = T!Written(thread[t]) + 1
  PROVE  T!InOrder' /\ T!Shown'
<1>1. out \in Seq(T!Lines)
  BY DEF T!IInv, T!TypeOK
<1>2. \A u \in T!Tids : u # t => /\ T!Written(thread[u])' = T!Written(thread[u])
                                 /\ T!Joined(u)' = T!Joined(u)
  BY DEF T!Written, T!Joined
<1>3. ASSUME program \in {"exit", "cleanup"}, NEW u \in T!Tids
      PROVE  T!FirstOf(Append(out, l), u, T!Written(thread[u])')
  <2>1. T!FirstOf(out, u, T!Written(thread[u]))
    BY <1>3 DEF T!IInv, T!InOrder
  <2>2. CASE u = t
    <3>1. T!FirstOf(Append(out, l), t, T!Written(thread[t]) + 1)
      BY <1>1, <1>3, <2>1, <2>2, PthOwnLine
    <3> QED
      BY <1>3, <2>2, <3>1
  <2>3. CASE u # t
    <3>1. T!FirstOf(Append(out, l), u, T!Written(thread[u]))
      BY <1>1, <2>1, <2>3, PthOthersLine
    <3> QED
      BY <1>2, <2>3, <3>1
  <2> QED
    BY <2>2, <2>3
<1>4. T!InOrder'
  BY <1>3 DEF T!InOrder
<1>5. \A u \in T!Tids : T!Joined(u) => T!Joined(u)'
  BY <1>2
<1>6. T!Shown'
  BY <1>5, PthShownStays
<1> QED
  BY <1>4, <1>6

LEMMA PthTidsAre ==
  /\ 1 \in T!Tids /\ 2 \in T!Tids /\ 3 \in T!Tids /\ 4 \in T!Tids /\ 0 \notin T!Tids
  /\ \A t \in T!Tids : t = 1 \/ t = 2 \/ t = 3 \/ t = 4
BY DEF T!Tids

LEMMA PthStackLen == Len(<<>>) = 0 /\ Len(<<1>>) = 1 /\ Len(<<2, 1>>) = 2
OBVIOUS

LEMMA PthStackHead == Head(<<1>>) = 1 /\ Head(<<2, 1>>) = 2
OBVIOUS

LEMMA PthStackTail == Tail(<<1>>) = <<>> /\ Tail(<<2, 1>>) = <<1>>
OBVIOUS

LEMMA PthStackPush == <<1>> \o <<>> = <<1>> /\ <<2>> \o <<1>> = <<2, 1>>
<1>1. <<1>> \o <<>> = <<1>>
  OBVIOUS
<1>2. <<2>> \o <<1>> = <<2, 1>>
  <2> DEFINE r == <<2>> \o <<1>>
             q == <<2, 1>>
  <2>1. r \in Seq(Nat) /\ Len(r) = 2 /\ r[1] = 2 /\ r[2] = 1
    OBVIOUS
  <2>2. q \in Seq(Nat) /\ Len(q) = 2 /\ q[1] = 2 /\ q[2] = 1
    OBVIOUS
  <2> HIDE DEF r, q
  <2>3. \A i \in 1 .. 2 : i = 1 \/ i = 2
    OBVIOUS
  <2>4. r = q
    BY <2>1, <2>2, <2>3, SeqEqual
  <2> QED
    BY <2>4 DEF r, q
<1> QED
  BY <1>1, <1>2

LEMMA PthStacksAre ==
  /\ Len(T!Stack(0)) = 0 /\ Len(T!Stack(1)) = 1 /\ Len(T!Stack(2)) = 2
  /\ Head(T!Stack(1)) = 1 /\ Head(T!Stack(2)) = 2
  /\ Tail(T!Stack(1)) = T!Stack(0) /\ Tail(T!Stack(2)) = T!Stack(1)
  /\ <<1>> \o T!Stack(0) = T!Stack(1) /\ <<2>> \o T!Stack(1) = T!Stack(2)
  /\ T!Stack(0) = <<>> /\ T!Stack(1) # <<>> /\ T!Stack(2) # <<>>
  /\ T!Stack(0) # T!Stack(1) /\ T!Stack(1) # T!Stack(2) /\ T!Stack(0) # T!Stack(2)
<1> DEFINE s0 == <<>>
           s1 == <<1>>
           s2 == <<2, 1>>
<1>1. T!Stack(0) = s0 /\ T!Stack(1) = s1 /\ T!Stack(2) = s2
  BY DEF T!Stack
<1>2. Len(s0) = 0 /\ Len(s1) = 1 /\ Len(s2) = 2
  BY PthStackLen
<1>3. Head(s1) = 1 /\ Head(s2) = 2
  BY PthStackHead
<1>4. Tail(s1) = s0 /\ Tail(s2) = s1
  BY PthStackTail
<1>5. <<1>> \o s0 = s1 /\ <<2>> \o s1 = s2
  BY PthStackPush
<1>6. s0 = <<>>
  OBVIOUS
<1> HIDE DEF s0, s1, s2
<1>7. s0 # s1 /\ s1 # s2 /\ s0 # s2
  BY <1>2
<1>8. T!Stack(1) # <<>> /\ T!Stack(2) # <<>>
  BY <1>1, <1>6, <1>7
<1> QED
  BY <1>1, <1>2, <1>3, <1>4, <1>5, <1>6, <1>7, <1>8, Zenon

---------------------------------------------------------------------------
\* The state of a thread after each of its calls.
LEMMA PthWrittenIs ==
  ASSUME NEW th
  PROVE  /\ program # "cleanup" => T!Written(th) = th.pc - 1
         /\ program = "cleanup" /\ th.phase = "running" =>
              T!Written(th) = IF th.pc = 1 THEN 0 ELSE IF th.pc = 5 THEN 2 ELSE 1
         /\ program = "cleanup" /\ th.phase \in T!Left /\ th.pc = 5 =>
              \A n \in 0 .. 2 : Len(th.pushed) = n => T!Written(th) = 4 - n
<1>1. program # "cleanup" => T!Written(th) = th.pc - 1
  BY DEF T!Written
<1>2. program = "cleanup" /\ th.phase = "running" =>
        T!Written(th) = IF th.pc = 1 THEN 0 ELSE IF th.pc = 5 THEN 2 ELSE 1
  BY DEF T!Written, T!Left
<1>3. program = "cleanup" /\ th.phase \in T!Left /\ th.pc = 5 =>
        \A n \in 0 .. 2 : Len(th.pushed) = n => T!Written(th) = 4 - n
  BY DEF T!Written
<1> QED
  BY <1>1, <1>2, <1>3

LEMMA PthWrittenLeft ==
  ASSUME program = "cleanup"
  PROVE  \A x : x.phase \in T!Left /\ x.pc = 5 =>
           /\ x.pushed = T!Stack(2) => T!Written(x) = 2
           /\ x.pushed = T!Stack(1) => T!Written(x) = 3
           /\ x.pushed = T!Stack(0) => T!Written(x) = 4
<1> SUFFICES ASSUME NEW x, x.phase \in T!Left, x.pc = 5
             PROVE  /\ x.pushed = T!Stack(2) => T!Written(x) = 2
                    /\ x.pushed = T!Stack(1) => T!Written(x) = 3
                    /\ x.pushed = T!Stack(0) => T!Written(x) = 4
  OBVIOUS
<1>1. /\ x.pushed = T!Stack(2) => Len(x.pushed) = 2
      /\ x.pushed = T!Stack(1) => Len(x.pushed) = 1
      /\ x.pushed = T!Stack(0) => Len(x.pushed) = 0
  BY PthStacksAre
<1>2. \A n \in 0 .. 2 : Len(x.pushed) = n => T!Written(x) = 4 - n
  BY PthWrittenIs
<1> QED
  BY <1>1, <1>2

LEMMA PthWrittenSame ==
  ASSUME NEW th, NEW x, x.pc = th.pc, x.pushed = th.pushed,
         x.phase \in T!Left <=> th.phase \in T!Left
  PROVE  T!Written(x) = T!Written(th)
BY DEF T!Written

LEMMA PthFitsNext ==
  ASSUME program' = program
  PROVE  \A t : /\ T!InBody(t, thread'[t]) => T!InBody(t, thread[t])'
                /\ T!AtCall(t, thread'[t]) => T!AtCall(t, thread[t])'
<1>1. T!Own' = T!Own /\ \A t : T!Code(t)' = T!Code(t)
  BY DEF T!Own, T!Code
<1>2. \A t : T!InBody(t, thread'[t]) => T!InBody(t, thread[t])'
  BY <1>1 DEF T!InBody
<1>3. \A t : T!AtCall(t, thread'[t]) => T!AtCall(t, thread[t])'
  BY DEF T!AtCall
<1> QED
  BY <1>2, <1>3

LEMMA PthWrittenNext ==
  ASSUME program' = program
  PROVE  \A t : T!Written(thread[t])' = T!Written(thread'[t])
BY DEF T!Written

LEMMA PthSayFits ==
  ASSUME NEW t \in T!Tids, NEW th \in T!ThreadStates, NEW x \in T!ThreadStates,
         x.pc = th.pc + 1, x.phase = th.phase,
         x.pushed = th.pushed, x.value = th.value, x.canceled = th.canceled,
         T!InBody(t, th), T!AtCall(t, th), th.phase = "running",
         (program = "cleanup" /\ th.pc = 4) \/ th.pc = 1
  PROVE  /\ T!InBody(t, x) /\ T!AtCall(t, x)
         /\ T!Written(x) = T!Written(th) + 1
         /\ T!Written(th) = IF th.pc = 4 THEN 1 ELSE 0
<1>1. th.pc + 1 \in 1 .. 5
  OBVIOUS
<1>2. x.pc = th.pc + 1 /\ x.phase = "running" /\ x.pushed = th.pushed
      /\ x.canceled = th.canceled /\ x.value = th.value
  OBVIOUS
<1>3. T!InBody(t, x)
  BY <1>2 DEF T!InBody, T!Left
<1>4. CASE program # "cleanup"
  <2>1. th.pc = 1 /\ x.pc = 2
    BY <1>2, <1>4
  <2>2. T!AtCall(t, x)
    BY <1>2, <1>4, <2>1 DEF T!AtCall, T!Left
  <2>3. T!Written(th) = th.pc - 1 /\ T!Written(x) = x.pc - 1
    BY <1>4, PthWrittenIs
  <2> QED
    BY <1>2, <1>3, <2>1, <2>2, <2>3
<1>5. CASE program = "cleanup"
  <2>1. \/ (th.pc = 1 /\ x.pc = 2 /\ x.pushed = T!Stack(0))
        \/ (th.pc = 4 /\ x.pc = 5 /\ x.pushed = T!Stack(2))
    BY <1>2, <1>5 DEF T!AtCall
  <2>2. T!AtCall(t, x)
    BY <1>2, <1>5, <2>1 DEF T!AtCall, T!Left
  <2>3. /\ T!Written(th) = IF th.pc = 1 THEN 0 ELSE IF th.pc = 5 THEN 2 ELSE 1
        /\ T!Written(x) = IF x.pc = 1 THEN 0 ELSE IF x.pc = 5 THEN 2 ELSE 1
    BY <1>2, <1>5, PthWrittenIs
  <2> QED
    BY <1>2, <1>3, <2>1, <2>2, <2>3
<1> QED
  BY <1>4, <1>5

LEMMA PthPushedIs ==
  ASSUME NEW t, NEW th, T!AtCall(t, th), th.phase = "running", program = "cleanup"
  PROVE  (th.pc = 2 => th.pushed = T!Stack(0)) /\ (th.pc = 3 => th.pushed = T!Stack(1))
BY DEF T!AtCall

LEMMA PthPoppedIs ==
  ASSUME NEW th \in T!ThreadStates, th.pushed # <<>>
  PROVE  /\ Tail(th.pushed) \in T!Stacks
         /\ \/ /\ th.pushed = T!Stack(2) /\ Tail(th.pushed) = T!Stack(1)
               /\ Head(th.pushed) = 2
            \/ /\ th.pushed = T!Stack(1) /\ Tail(th.pushed) = T!Stack(0)
               /\ Head(th.pushed) = 1
<1>1. th.pushed \in T!Stacks
  BY DEF T!ThreadStates
<1>2. th.pushed = T!Stack(1) \/ th.pushed = T!Stack(2)
  BY <1>1, PthStacksAre DEF T!Stacks
<1> QED
  BY <1>2, PthStacksAre DEF T!Stacks

LEMMA PthPushFits ==
  ASSUME NEW t \in T!Tids, NEW th \in T!ThreadStates, NEW x \in T!ThreadStates,
         x.pc = th.pc + 1, x.phase = th.phase, x.value = th.value, x.canceled = th.canceled,
         T!InBody(t, th), T!AtCall(t, th), th.phase = "running", program = "cleanup",
         (th.pc = 2 /\ x.pushed = T!Stack(1)) \/ (th.pc = 3 /\ x.pushed = T!Stack(2))
  PROVE  T!InBody(t, x) /\ T!AtCall(t, x) /\ T!Written(x) = T!Written(th)
<1>1. T!InBody(t, x)
  BY DEF T!InBody, T!Left
<1>2. \/ (th.pc = 2 /\ x.pc = 3 /\ x.pushed = T!Stack(1))
      \/ (th.pc = 3 /\ x.pc = 4 /\ x.pushed = T!Stack(2))
  OBVIOUS
<1>3. T!AtCall(t, x)
  BY <1>2 DEF T!AtCall, T!Left
<1>4. /\ T!Written(th) = IF th.pc = 1 THEN 0 ELSE IF th.pc = 5 THEN 2 ELSE 1
      /\ T!Written(x) = IF x.pc = 1 THEN 0 ELSE IF x.pc = 5 THEN 2 ELSE 1
  BY PthWrittenIs
<1> QED
  BY <1>1, <1>2, <1>3, <1>4

LEMMA PthCodeIs == ASSUME program \in T!Programs, NEW t \in T!Tids PROVE T!Code(t) \in -1 .. 4
<1>1. t = 1 \/ t = 2 \/ t = 3 \/ t = 4
  BY PthTidsAre
<1> QED
  BY <1>1 DEF T!Code, T!CANCELED

LEMMA PthLeaveFits ==
  ASSUME NEW t \in T!Tids, NEW th \in T!ThreadStates, NEW phase \in T!Left, NEW x \in T!ThreadStates,
         x.pc = th.pc, x.phase = phase,
         x.pushed = th.pushed, x.value = T!Code(t), x.canceled = th.canceled, program \in T!Programs,
         T!InBody(t, th), T!AtCall(t, th), th.phase = "running",
         \/ program = "cleanup" /\ th.pc = 5 /\ (phase # "ended" \/ t = 1)
         \/ program # "cleanup" /\ (t = 3 \/ th.pc = 2) /\ (program # "exit" \/ t # 4)
  PROVE  T!InBody(t, x) /\ T!AtCall(t, x) /\ T!Written(x) = T!Written(th)
<1>1. T!Code(t) \in -1 .. 4 /\ phase \in T!Phases
  BY PthCodeIs DEF T!Phases, T!Left
<1>2. x.pc = th.pc /\ x.phase = phase /\ x.pushed = th.pushed
      /\ x.canceled = th.canceled /\ x.value = T!Code(t)
  OBVIOUS
<1>3. T!InBody(t, x)
  BY <1>2 DEF T!InBody, T!Left
<1>4. CASE program # "cleanup"
  <2>1. T!AtCall(t, x)
    BY <1>2, <1>4 DEF T!AtCall, T!Left
  <2>2. T!Written(th) = th.pc - 1 /\ T!Written(x) = x.pc - 1
    BY <1>4, PthWrittenIs
  <2> QED
    BY <1>2, <1>3, <2>1, <2>2
<1>5. CASE program = "cleanup"
  <2>1. th.pc = 5 /\ x.pc = 5 /\ x.pushed = T!Stack(2) /\ (phase = "ended" => t = 1)
    BY <1>2, <1>5 DEF T!AtCall
  <2>2. T!AtCall(t, x)
    BY <1>2, <1>5, <2>1, PthStacksAre DEF T!AtCall, T!Left
  <2>3. T!Written(th) = 2
    BY <1>5, <2>1, PthWrittenIs
  <2>4. x.phase \in T!Left
    BY <1>2
  <2>5. T!Written(x) = 2
    BY <1>5, <2>1, <2>4, PthWrittenLeft, Zenon
  <2> QED
    BY <1>2, <1>3, <2>2, <2>3, <2>5
<1> QED
  BY <1>4, <1>5

LEMMA PthEndFits ==
  ASSUME NEW t \in T!Tids, NEW th \in T!ThreadStates, NEW x \in T!ThreadStates,
         x.pc = th.pc, x.phase = "ended",
         x.pushed = th.pushed, x.value = th.value, x.canceled = th.canceled,
         T!InBody(t, th), T!AtCall(t, th), th.phase = "unwinding", th.pushed = <<>>
  PROVE  /\ T!InBody(t, x) /\ T!AtCall(t, x)
         /\ T!Written(x) = T!Written(th)
<1>1. x.pc = th.pc /\ x.phase = "ended" /\ x.pushed = th.pushed
      /\ x.canceled = th.canceled /\ x.value = th.value
  OBVIOUS
<1>2. T!InBody(t, x)
  BY <1>1 DEF T!InBody, T!Left
<1>3. x.pushed = T!Stack(0) /\ T!Stack(0) # T!Stack(1)
  BY <1>1, PthStacksAre
<1>4. T!AtCall(t, x)
  BY <1>1, <1>3 DEF T!AtCall, T!Left
<1>5. T!Written(x) = T!Written(th)
  <2>1. x.phase \in T!Left /\ th.phase \in T!Left
    BY <1>1 DEF T!Left
  <2>2. x.phase \in T!Left <=> th.phase \in T!Left
    BY <2>1
  <2> QED
    BY <1>1, <2>2, PthWrittenSame
<1> QED
  BY <1>1, <1>2, <1>4, <1>5

LEMMA PthPopFits ==
  ASSUME NEW t \in T!Tids, NEW th \in T!ThreadStates, NEW x \in T!ThreadStates,
         x.pc = th.pc, x.phase = th.phase, x.value = th.value, x.canceled = th.canceled,
         T!InBody(t, th), T!AtCall(t, th), th.phase = "unwinding",
         \/ th.pushed = T!Stack(2) /\ x.pushed = T!Stack(1)
         \/ th.pushed = T!Stack(1) /\ x.pushed = T!Stack(0)
  PROVE  /\ T!InBody(t, x) /\ T!AtCall(t, x)
         /\ T!Written(x) = T!Written(th) + 1
         /\ T!Written(th) = IF th.pushed = T!Stack(2) THEN 2 ELSE 3
<1>1. program = "cleanup" /\ th.pc = 5
  BY PthStacksAre DEF T!AtCall, T!Left
<1>2. T!InBody(t, x)
  BY DEF T!InBody, T!Left
<1>3. T!AtCall(t, x)
  BY <1>1 DEF T!AtCall, T!Left
<1>4. x.phase \in T!Left /\ th.phase \in T!Left
  BY DEF T!Left
<1>5. CASE th.pushed = T!Stack(2) /\ x.pushed = T!Stack(1)
  <2>1. T!Written(th) = 2 /\ T!Written(x) = 3
    BY <1>1, <1>4, <1>5, PthWrittenLeft, Zenon
  <2> QED
    BY <1>2, <1>3, <1>5, <2>1
<1>6. CASE th.pushed = T!Stack(1) /\ x.pushed = T!Stack(0)
  <2>1. T!Written(th) = 3 /\ T!Written(x) = 4
    BY <1>1, <1>4, <1>6, PthWrittenLeft, Zenon
  <2>2. th.pushed # T!Stack(2)
    BY <1>6, PthStacksAre
  <2> QED
    BY <1>2, <1>3, <2>1, <2>2
<1> QED
  BY <1>5, <1>6

---------------------------------------------------------------------------
\* The steps of the threads.

\* What is known of a thread.
LEMMA PthThreadIs ==
  ASSUME T!IInv, NEW t \in T!Tids
  PROVE  /\ thread \in [T!Tids -> T!ThreadStates] /\ thread[t] \in T!ThreadStates
         /\ out \in Seq(T!Lines) /\ T!InBody(t, thread[t]) /\ T!AtCall(t, thread[t])
         /\ program \in T!Programs
BY DEF T!IInv, T!TypeOK

\* The other threads are where they were.
LEMMA PthOthersSame ==
  ASSUME NEW E, thread \in [T!Tids -> E], NEW t \in T!Tids, NEW x \in E,
         thread' = [thread EXCEPT ![t] = x]
  PROVE  /\ thread' \in [T!Tids -> E] /\ thread'[t] = x
         /\ \A u \in T!Tids : u # t => thread'[u] = thread[u]
OBVIOUS

\* A step of thread t changes nothing that main has waited for.
LEMMA PthOneThread ==
  ASSUME T!IInv, NEW t \in T!Tids, thread[t].phase \in {"running", "unwinding"},
         NEW x \in T!ThreadStates, thread' = [thread EXCEPT ![t] = x],
         program' = program, prompt' = prompt, T!mainvars' = T!mainvars,
         end = "", end' = "", out' \in Seq(T!Lines),
         x.phase # "none", T!InBody(t, x), T!AtCall(t, x), T!InOrder', T!Shown'
  PROVE  T!IInv'
<1>1. thread' \in [T!Tids -> T!ThreadStates] /\ thread'[t] = x
      /\ \A u \in T!Tids : u # t => thread'[u] = thread[u]
  BY PthThreadIs, PthOthersSame
<1>2. T!TypeOK'
  BY <1>1 DEF T!IInv, T!TypeOK, T!mainvars
<1>3. \A u \in T!Tids : T!InBody(u, thread'[u]) /\ T!AtCall(u, thread'[u])
  BY <1>1 DEF T!IInv
<1>4. \A u \in T!Tids : T!InBody(u, thread[u])' /\ T!AtCall(u, thread[u])'
  BY <1>3, PthFitsNext
<1>5. ~T!Joined(t) /\ \A u \in T!Tids : T!Joined(u) => T!Joined(u)'
  BY <1>1 DEF T!Joined
<1>6. 1 \in T!Tids /\ 2 \in T!Tids /\ 3 \in T!Tids
  BY PthTidsAre
<1>7. T!Main' = T!Main /\ mpc' = mpc /\ tret' = tret
  BY DEF T!Main, T!mainvars
<1>8. T!Started'
  <2>1. T!Own' = T!Own
    BY DEF T!Own
  <2> QED
    BY <1>1, <1>7, <2>1 DEF T!IInv, T!Started
<1>9. T!InMain'
  <2>1. T!Slept => T!Slept'
    BY <1>5, <1>6 DEF T!Slept
  <2>2. (T!ExitAt => T!ExitAt') /\ (T!CleanupAt => T!CleanupAt')
    BY <1>5, <1>6, <1>7 DEF T!ExitAt, T!CleanupAt
  <2>3. (T!SleepAt => T!SleepAt') /\ (T!LockAt => T!LockAt')
    BY <1>7, <2>1 DEF T!SleepAt, T!LockAt
  <2>4. T!InPlace' /\ T!Returned'
    BY <1>7, <2>2, <2>3 DEF T!IInv, T!InMain, T!InPlace, T!Returned
  <2> QED
    BY <2>4 DEF T!InMain
<1> QED
  BY <1>2, <1>4, <1>8, <1>9 DEF T!IInv

\* A thread that goes on without a line, and one that writes its next.
LEMMA PthQuiet ==
  ASSUME T!IInv, NEW t \in T!Tids, NEW x \in T!ThreadStates, thread' = [thread EXCEPT ![t] = x],
         thread[t].phase \in {"running", "unwinding"},
         program' = program, prompt' = prompt, T!mainvars' = T!mainvars,
         out' = out, end = "", end' = "",
         x.phase # "none", T!InBody(t, x), T!AtCall(t, x), T!Written(x) = T!Written(thread[t])
  PROVE  T!IInv'
<1>1. thread \in [T!Tids -> T!ThreadStates] /\ out \in Seq(T!Lines)
  BY PthThreadIs
<1>2. thread'[t] = x /\ \A u \in T!Tids : u # t => thread'[u] = thread[u]
  BY <1>1, PthOthersSame
<1>3. \A u \in T!Tids : T!Written(thread[u])' = T!Written(thread[u])
  <2>1. \A u \in T!Tids : T!Written(thread[u])' = T!Written(thread'[u])
    BY PthWrittenNext
  <2>2. \A u \in T!Tids : T!Written(thread'[u]) = T!Written(thread[u])
    BY <1>2
  <2> QED
    BY <2>1, <2>2
<1>4. \A u \in T!Tids : T!Joined(u) => T!Joined(u)'
  BY <1>2 DEF T!Joined
<1>5. T!InOrder' /\ T!Shown'
  BY <1>3, <1>4, PthNoLine
<1> QED
  BY <1>1, <1>5, PthOneThread

LEMMA PthSpeaks ==
  ASSUME T!IInv, NEW t \in T!Tids, NEW x \in T!ThreadStates, thread' = [thread EXCEPT ![t] = x],
         thread[t].phase \in {"running", "unwinding"},
         program' = program, prompt' = prompt, T!mainvars' = T!mainvars,
         NEW l \in T!Lines, out' = Append(out, l), end = "", end' = "",
         l.by = t, ~T!IsCode(l), l = T!AllLines(t)[T!Written(thread[t]) + 1],
         x.phase # "none", T!InBody(t, x), T!AtCall(t, x), T!Written(x) = T!Written(thread[t]) + 1
  PROVE  T!IInv'
<1>1. thread \in [T!Tids -> T!ThreadStates] /\ out \in Seq(T!Lines)
  BY PthThreadIs
<1>2. thread'[t] = x /\ \A u \in T!Tids : u # t => thread'[u] = thread[u]
  BY <1>1, PthOthersSame
<1>3. out' \in Seq(T!Lines)
  BY <1>1, PthLineAdded
<1>4. T!Written(thread[t])' = T!Written(thread[t]) + 1
  <2>1. T!Written(thread[t])' = T!Written(thread'[t])
    BY PthWrittenNext
  <2>2. T!Written(thread'[t]) = T!Written(x)
    BY <1>2
  <2> QED
    BY <2>1, <2>2
<1>5. ~T!Joined(t)
  BY DEF T!Joined
<1>6. T!InOrder' /\ T!Shown'
  BY <1>2, <1>4, <1>5, PthThreadLine
<1> QED
  BY <1>3, <1>6, PthOneThread

\* No thread moves and nobody writes.
LEMMA PthStill ==
  ASSUME T!IInv, program' = program, prompt' = prompt, T!mainvars' = T!mainvars,
         thread' = thread, out' = out, T!TypeOK', T!Returned'
  PROVE  T!IInv'
<1>1. mpc' = mpc /\ tret' = tret
  BY DEF T!mainvars
<1>2. \A u \in T!Tids : T!InBody(u, thread[u])' /\ T!AtCall(u, thread[u])'
  BY PthFitsNext DEF T!IInv
<1>3. T!Started'
  <2>1. T!Own' = T!Own
    BY DEF T!Own
  <2> QED
    BY <1>1, <2>1 DEF T!IInv, T!Started
<1>4. \A u : T!Joined(u)' = T!Joined(u)
  BY DEF T!Joined
<1>5. T!InMain'
  <2>1. T!Slept' = T!Slept
    BY <1>4 DEF T!Slept
  <2>2. (T!ExitAt => T!ExitAt') /\ (T!CleanupAt => T!CleanupAt')
    BY <1>1, <1>4 DEF T!ExitAt, T!CleanupAt
  <2>3. (T!SleepAt => T!SleepAt') /\ (T!LockAt => T!LockAt')
    BY <1>1, <2>1 DEF T!SleepAt, T!LockAt
  <2>4. T!InPlace'
    BY <2>2, <2>3 DEF T!IInv, T!InMain, T!InPlace
  <2> QED
    BY <2>4 DEF T!InMain
<1>6. T!InOrder' /\ T!Shown'
  <2>1. \A u \in T!Tids : T!Written(thread[u])' = T!Written(thread[u])
    BY PthWrittenNext
  <2> QED
    BY <1>4, <2>1, PthNoLine
<1> QED
  BY <1>2, <1>3, <1>5, <1>6 DEF T!IInv

\* The process crashes.
LEMMA PthCrash ==
  ASSUME T!IInv, program' = program, prompt' = prompt, T!mainvars' = T!mainvars,
         thread' = thread, out' = out, end = "", end' \in {"crash", "exit 1"}
  PROVE  T!IInv'
<1>1. T!TypeOK'
  BY DEF T!IInv, T!TypeOK, T!mainvars
<1>2. T!Returned'
  BY DEF T!Returned
<1> QED
  BY <1>1, <1>2, PthStill

LEMMA PthSayStep == ASSUME T!IInv, NEW t \in T!Tids, T!Say(t) PROVE T!IInv'
<1> DEFINE th == thread[t]
           l == T!Line(t, "say", T!ArgOf(t), 0)
<1>1. PICK x : x = [th EXCEPT !.pc = th.pc + 1]
  OBVIOUS
<1>2. /\ end = "" /\ th.phase = "running" /\ T!Body(t)[th.pc].do = "say"
      /\ program' = program /\ prompt' = prompt /\ T!mainvars' = T!mainvars /\ end' = end
  BY DEF T!Say, T!Calls
<1>3. thread' = [thread EXCEPT ![t] = x] /\ out' = Append(out, l)
  BY <1>1 DEF T!Say
<1>4. \/ program # "cleanup" /\ th.pc = 1 /\ T!ArgOf(t) = 1
      \/ program = "cleanup" /\ th.pc = 1 /\ T!ArgOf(t) = 1
      \/ program = "cleanup" /\ th.pc = 4 /\ T!ArgOf(t) = 2
  BY <1>2, PthThreadIsAt
<1>5. th \in T!ThreadStates /\ T!InBody(t, th) /\ T!AtCall(t, th)
  BY PthThreadIs
<1>6. (program = "cleanup" /\ th.pc = 4) \/ th.pc = 1
  BY <1>4
<1>7. x \in T!ThreadStates /\ x.pc = th.pc + 1 /\ x.phase = th.phase /\ x.pushed = th.pushed
      /\ x.value = th.value /\ x.canceled = th.canceled
  BY <1>1, <1>5, <1>6 DEF T!ThreadStates
<1>8. /\ T!InBody(t, x) /\ T!AtCall(t, x)
      /\ T!Written(x) = T!Written(th) + 1
      /\ T!Written(th) = IF th.pc = 4 THEN 1 ELSE 0
  BY <1>2, <1>5, <1>6, <1>7, PthSayFits
<1>9. l \in T!Lines /\ l.by = t /\ l.what = "say"
  <2>1. t \in 0 .. 4 /\ T!ArgOf(t) \in 0 .. 4
    BY <1>4, PthTidsAre
  <2>2. "say" \in T!Ways
    BY DEF T!Ways
  <2> QED
    BY <2>1, <2>2, PthLineIs
<1>10. l = T!AllLines(t)[T!Written(th) + 1]
  <2>1. (T!ArgOf(t) = 1 /\ T!Written(th) + 1 = 1) \/ (T!ArgOf(t) = 2 /\ T!Written(th) + 1 = 2)
    BY <1>4, <1>8
  <2> QED
    BY <2>1, PthAllLinesAre
<1>11. ~T!IsCode(l)
  BY <1>9 DEF T!IsCode
<1> HIDE DEF l
<1> QED
  BY <1>2, <1>3, <1>7, <1>8, <1>9, <1>10, <1>11, PthSpeaks

LEMMA PthCleanupPushStep == ASSUME T!IInv, NEW t \in T!Tids, T!CleanupPush(t) PROVE T!IInv'
<1> DEFINE th == thread[t]
<1>1. PICK pushed : pushed = <<T!ArgOf(t)>> \o th.pushed
  OBVIOUS
<1>2. PICK x : x = [th EXCEPT !.pc = th.pc + 1, !.pushed = pushed]
  OBVIOUS
<1>3. /\ end = "" /\ th.phase = "running" /\ T!Body(t)[th.pc].do = "push"
      /\ program' = program /\ prompt' = prompt /\ T!mainvars' = T!mainvars
      /\ out' = out /\ end' = end
  BY DEF T!CleanupPush, T!Calls
<1>4. thread' = [thread EXCEPT ![t] = x]
  BY <1>1, <1>2 DEF T!CleanupPush
<1>5. program = "cleanup" /\ ((th.pc = 2 /\ T!ArgOf(t) = 1) \/ (th.pc = 3 /\ T!ArgOf(t) = 2))
  BY <1>3, PthThreadIsAt
<1>6. th \in T!ThreadStates /\ T!InBody(t, th) /\ T!AtCall(t, th)
  BY PthThreadIs
<1>7. (th.pc = 2 => th.pushed = T!Stack(0)) /\ (th.pc = 3 => th.pushed = T!Stack(1))
  BY <1>3, <1>5, <1>6, PthPushedIs
<1>8. /\ pushed \in T!Stacks /\ th.pc + 1 \in 1 .. 5
      /\ (th.pc = 2 /\ pushed = T!Stack(1)) \/ (th.pc = 3 /\ pushed = T!Stack(2))
  <2>1. CASE th.pc = 2
    <3>1. pushed = <<1>> \o T!Stack(0)
      BY <1>1, <1>5, <1>7, <2>1
    <3>2. pushed = T!Stack(1)
      BY <3>1, PthStacksAre
    <3> QED
      BY <2>1, <3>2 DEF T!Stacks
  <2>2. CASE th.pc = 3
    <3>1. pushed = <<2>> \o T!Stack(1)
      BY <1>1, <1>5, <1>7, <2>2
    <3>2. pushed = T!Stack(2)
      BY <3>1, PthStacksAre
    <3> QED
      BY <2>2, <3>2 DEF T!Stacks
  <2> QED
    BY <1>5, <2>1, <2>2
<1>9. x \in T!ThreadStates /\ x.pc = th.pc + 1 /\ x.phase = th.phase /\ x.pushed = pushed
      /\ x.value = th.value /\ x.canceled = th.canceled
  BY <1>2, <1>6, <1>8 DEF T!ThreadStates
<1>10. (th.pc = 2 /\ x.pushed = T!Stack(1)) \/ (th.pc = 3 /\ x.pushed = T!Stack(2))
  BY <1>8, <1>9
<1>11. T!InBody(t, x) /\ T!AtCall(t, x) /\ T!Written(x) = T!Written(th)
  BY <1>3, <1>5, <1>6, <1>9, <1>10, PthPushFits
<1> QED
  BY <1>3, <1>4, <1>9, <1>11, PthQuiet

\* The thread leaves its function.
LEMMA PthLeaveStep ==
  ASSUME T!IInv, NEW t \in T!Tids, NEW phase \in T!Left, NEW value, T!Leave(t, phase, value),
         value = T!Code(t), thread[t].phase = "running",
         program' = program, prompt' = prompt, T!mainvars' = T!mainvars, end = "",
         \/ program = "cleanup" /\ thread[t].pc = 5 /\ (phase # "ended" \/ t = 1)
         \/ /\ program # "cleanup" /\ (t = 3 \/ thread[t].pc = 2)
            /\ (program # "exit" \/ t # 4)
  PROVE  T!IInv'
<1> DEFINE th == thread[t]
<1>1. PICK x : x = [th EXCEPT !.phase = phase, !.value = value]
  OBVIOUS
<1>2. thread' = [thread EXCEPT ![t] = x] /\ out' = out /\ end' = ""
  BY <1>1 DEF T!Leave
<1>3. th \in T!ThreadStates /\ T!InBody(t, th) /\ T!AtCall(t, th) /\ program \in T!Programs
  BY PthThreadIs
<1>4. value \in -1 .. 4 /\ phase \in T!Phases
  BY <1>3, PthCodeIs DEF T!Left, T!Phases
<1>5. x \in T!ThreadStates /\ x.pc = th.pc /\ x.phase = phase /\ x.pushed = th.pushed
      /\ x.value = value /\ x.canceled = th.canceled
  BY <1>1, <1>3, <1>4 DEF T!ThreadStates
<1>6. /\ x.value = T!Code(t) /\ th.phase = "running"
      /\ \/ program = "cleanup" /\ th.pc = 5 /\ (phase # "ended" \/ t = 1)
         \/ program # "cleanup" /\ (t = 3 \/ th.pc = 2) /\ (program # "exit" \/ t # 4)
  BY <1>5
<1>7. T!InBody(t, x) /\ T!AtCall(t, x) /\ T!Written(x) = T!Written(th)
  BY <1>3, <1>5, <1>6, PthLeaveFits
<1>8. x.phase # "none"
  BY <1>5 DEF T!Left
<1> QED
  BY <1>2, <1>5, <1>7, <1>8, PthQuiet

LEMMA PthLeftIs == "unwinding" \in T!Left /\ "ended" \in T!Left
BY DEF T!Left

LEMMA PthReturnFromStep == ASSUME T!IInv, NEW t \in T!Tids, T!ReturnFrom(t) PROVE T!IInv'
<1>1. /\ end = "" /\ thread[t].phase = "running" /\ T!Body(t)[thread[t].pc].do = "return"
      /\ program' = program /\ prompt' = prompt /\ T!mainvars' = T!mainvars
  BY DEF T!ReturnFrom, T!Calls
<1>2. /\ T!ArgOf(t) = T!Code(t) /\ t = 1
      /\ thread[t].pc = IF program = "cleanup" THEN 5 ELSE 2
  BY <1>1, PthThreadIsAt
<1>3. \/ T!Leave(t, "ended", T!Code(t)) \/ T!Leave(t, "unwinding", T!Code(t))
      \/ end' = "crash" /\ thread' = thread /\ out' = out
  BY <1>2 DEF T!ReturnFrom
<1>4. program # "cleanup" => t = 3 \/ thread[t].pc = 2
  BY <1>2
<1>5. program = "cleanup" => thread[t].pc = 5 /\ t = 1
  BY <1>2
<1>6. t # 4
  BY <1>2
<1>7. CASE T!Leave(t, "ended", T!Code(t))
  BY <1>1, <1>4, <1>5, <1>6, <1>7, PthLeaveStep, PthLeftIs
<1>8. CASE T!Leave(t, "unwinding", T!Code(t))
  BY <1>1, <1>4, <1>5, <1>6, <1>8, PthLeaveStep, PthLeftIs
<1>9. CASE end' = "crash" /\ thread' = thread /\ out' = out
  BY <1>1, <1>9, PthCrash
<1> QED
  BY <1>3, <1>7, <1>8, <1>9

LEMMA PthPthreadExitStep == ASSUME T!IInv, NEW t \in T!Tids, T!PthreadExit(t) PROVE T!IInv'
<1>1. /\ end = "" /\ thread[t].phase = "running" /\ T!Body(t)[thread[t].pc].do = "exit"
      /\ program' = program /\ prompt' = prompt /\ T!mainvars' = T!mainvars
      /\ T!Leave(t, "unwinding", T!ArgOf(t))
  BY DEF T!PthreadExit, T!Calls
<1>2. /\ T!ArgOf(t) = T!Code(t) /\ t = 2
      /\ thread[t].pc = IF program = "cleanup" THEN 5 ELSE 2
  BY <1>1, PthThreadIsAt
<1>3. /\ t # 4 /\ "unwinding" # "ended"
      /\ program # "cleanup" => t = 3 \/ thread[t].pc = 2
      /\ program = "cleanup" => thread[t].pc = 5
  BY <1>2
<1> QED
  BY <1>1, <1>2, <1>3, PthLeaveStep, PthLeftIs

LEMMA PthCanceledStep == ASSUME T!IInv, NEW t \in T!Tids, T!Canceled(t) PROVE T!IInv'
<1>1. /\ end = "" /\ thread[t].phase = "running" /\ thread[t].canceled
      /\ program' = program /\ prompt' = prompt /\ T!mainvars' = T!mainvars
      /\ T!Leave(t, "unwinding", T!CANCELED)
  BY DEF T!Canceled, T!Calls
<1>2. program = "exit" /\ t = 3
  BY <1>1, PthThreadIs DEF T!InBody
<1>3. T!Code(t) = T!CANCELED
  BY <1>2 DEF T!Code
<1>4. t # 4 /\ program # "cleanup" /\ t = 3
  BY <1>2
<1> QED
  BY <1>1, <1>3, <1>4, PthLeaveStep, PthLeftIs

LEMMA PthUnwindStep == ASSUME T!IInv, NEW t \in T!Tids, T!Unwind(t) PROVE T!IInv'
<1> DEFINE th == thread[t]
<1>1. /\ end = "" /\ th.phase = "unwinding"
      /\ program' = program /\ prompt' = prompt /\ T!mainvars' = T!mainvars
  BY DEF T!Unwind
<1>2. th \in T!ThreadStates /\ T!InBody(t, th) /\ T!AtCall(t, th)
  BY PthThreadIs
<1>3. CASE th.pushed = <<>>
  <2>1. PICK x : x = [th EXCEPT !.phase = "ended", !.value = th.value]
    OBVIOUS
  <2>2. thread' = [thread EXCEPT ![t] = x] /\ out' = out /\ end' = ""
    BY <1>1, <1>3, <2>1 DEF T!Unwind, T!Leave
  <2>3. x \in T!ThreadStates /\ x.pc = th.pc /\ x.phase = "ended" /\ x.pushed = th.pushed
        /\ x.value = th.value /\ x.canceled = th.canceled
    BY <1>2, <2>1 DEF T!ThreadStates, T!Phases
  <2>4. /\ T!InBody(t, x) /\ T!AtCall(t, x)
        /\ T!Written(x) = T!Written(th)
    BY <1>1, <1>2, <1>3, <2>3, PthEndFits
  <2> QED
    BY <1>1, <2>2, <2>3, <2>4, PthQuiet
<1>4. CASE th.pushed # <<>>
  <2> DEFINE l == T!Line(t, "cleanup", Head(th.pushed), 0)
  <2>1. PICK x : x = [th EXCEPT !.pushed = Tail(th.pushed)]
    OBVIOUS
  <2>2. thread' = [thread EXCEPT ![t] = x] /\ out' = Append(out, l) /\ end' = end
    BY <1>4, <2>1 DEF T!Unwind
  <2>3. /\ Tail(th.pushed) \in T!Stacks
        /\ \/ /\ th.pushed = T!Stack(2) /\ Tail(th.pushed) = T!Stack(1)
              /\ Head(th.pushed) = 2
           \/ /\ th.pushed = T!Stack(1) /\ Tail(th.pushed) = T!Stack(0)
              /\ Head(th.pushed) = 1
    BY <1>2, <1>4, PthPoppedIs
  <2>4. x \in T!ThreadStates /\ x.pc = th.pc /\ x.phase = th.phase
        /\ x.pushed = Tail(th.pushed)
        /\ x.value = th.value /\ x.canceled = th.canceled
    BY <1>2, <2>1, <2>3 DEF T!ThreadStates
  <2>5. \/ th.pushed = T!Stack(2) /\ x.pushed = T!Stack(1)
        \/ th.pushed = T!Stack(1) /\ x.pushed = T!Stack(0)
    BY <2>3, <2>4
  <2>6. /\ T!InBody(t, x) /\ T!AtCall(t, x)
        /\ T!Written(x) = T!Written(th) + 1
        /\ T!Written(th) = IF th.pushed = T!Stack(2) THEN 2 ELSE 3
    BY <1>1, <1>2, <2>4, <2>5, PthPopFits
  <2>7. l \in T!Lines /\ l.by = t /\ l.what = "cleanup"
    <3>1. t \in 0 .. 4 /\ Head(th.pushed) \in 0 .. 4
      BY <2>3, PthTidsAre
    <3>2. "cleanup" \in T!Ways
      BY DEF T!Ways
    <3> QED
      BY <3>1, <3>2, PthLineIs
  <2>8. l = T!AllLines(t)[T!Written(th) + 1]
    <3>1. \/ Head(th.pushed) = 2 /\ T!Written(th) + 1 = 3
          \/ Head(th.pushed) = 1 /\ T!Written(th) + 1 = 4
      BY <2>3, <2>6, PthStacksAre
    <3> QED
      BY <3>1, PthAllLinesAre
  <2>9. ~T!IsCode(l)
    BY <2>7 DEF T!IsCode
  <2> HIDE DEF l
  <2> QED
    BY <1>1, <2>2, <2>4, <2>6, <2>7, <2>8, <2>9, PthSpeaks
<1> QED
  BY <1>3, <1>4

---------------------------------------------------------------------------
\* The steps of main.

\* Main goes on and no thread moves.
LEMMA PthMainStarts ==
  ASSUME T!Started, mpc \in Int, mpc' = mpc + 1, thread' = thread, T!Own' = T!Own, mpc \notin T!Own
  PROVE  T!Started'
<1>1. \A u \in T!Tids : u \in Int
  BY DEF T!Tids
<1>2. \A u \in T!Tids : mpc' =< u => mpc =< u
  BY <1>1
<1>3. \A u \in T!Tids : mpc' > u /\ u \in T!Own => mpc > u
  <2> SUFFICES ASSUME NEW u \in T!Tids, mpc' > u, u \in T!Own PROVE mpc > u
    OBVIOUS
  <2>1. u # mpc
    OBVIOUS
  <2> QED
    BY <1>1, <2>1
<1> QED
  BY <1>2, <1>3 DEF T!Started

LEMMA PthMpcIs == T!IInv => mpc \in 1 .. 13 /\ mpc \in Int /\ T!Started /\ T!InMain
<1>1. T!IInv => mpc \in 1 .. 13
  BY DEF T!IInv, T!TypeOK
<1>2. T!IInv => T!Started /\ T!InMain
  BY DEF T!IInv
<1> QED
  BY <1>1, <1>2

LEMMA PthMainGoes ==
  ASSUME T!IInv, program' = program, thread' = thread, mpc' = mpc + 1,
         T!TypeOK', mpc \notin T!Own, T!InMain', T!InOrder', T!Shown'
  PROVE  T!IInv'
<1>1. \A u \in T!Tids : T!InBody(u, thread[u])' /\ T!AtCall(u, thread[u])'
  BY PthFitsNext DEF T!IInv
<1>2. T!Started'
  <2>1. T!Own' = T!Own
    BY DEF T!Own
  <2>2. mpc \in Int /\ T!Started
    BY PthMpcIs
  <2> QED
    BY <2>1, <2>2, PthMainStarts
<1> QED
  BY <1>1, <1>2 DEF T!IInv

\* Main goes on and nobody writes.
LEMMA PthMainQuiet ==
  ASSUME T!IInv, program' = program, thread' = thread, mpc' = mpc + 1,
         T!TypeOK', out' = out, mpc \notin T!Own, T!InMain'
  PROVE  T!IInv'
<1>1. \A u \in T!Tids : T!Written(thread[u])' = T!Written(thread[u]) /\ T!Joined(u)' = T!Joined(u)
  BY PthWrittenNext DEF T!Joined
<1>2. T!InOrder' /\ T!Shown'
  BY <1>1, PthNoLine
<1> QED
  BY <1>2, PthMainGoes

\* Main goes on and writes.
LEMMA PthMainWrites ==
  ASSUME T!IInv, program' = program, thread' = thread, mpc' = mpc + 1,
         T!TypeOK', NEW l \in T!Lines, out' = Append(out, l), l.by = 0, T!IsCode(l) => T!Ends(l),
         mpc \notin T!Own, T!InMain'
  PROVE  T!IInv'
<1>1. T!InOrder' /\ T!Shown'
  BY PthMainLine
<1> QED
  BY <1>1, PthMainGoes

LEMMA PthLineIn ==
  ASSUME out \in Seq(T!Lines), NEW l \in T!Lines, out' = Append(out, l)
  PROVE  out' \in Seq(T!Lines)
OBVIOUS

LEMMA PthOwnIs ==
  /\ program = "exit" => T!Own = 1 .. 4
  /\ program = "cleanup" => T!Own = 1 .. 2
  /\ program = "identification" => T!Own = {1}
  /\ program = "timedlock" => T!Own = {}
BY DEF T!Own

\* What each call leaves for the next.
LEMMA PthCallsAre ==
  ASSUME T!IInv, NEW do, T!MainCalls(do)
  PROVE  /\ end = "" /\ program' = program /\ prompt' = prompt
         /\ mpc =< Len(T!Main) /\ T!Main[mpc].do = do
         /\ mpc \in 1 .. 13
<1>1. mpc \in 1 .. 13
  BY DEF T!IInv, T!TypeOK
<1>2. end = "" /\ program' = program /\ prompt' = prompt
  BY DEF T!MainCalls
<1>3. mpc =< Len(T!Main) /\ T!Main[mpc].do = do
  BY DEF T!MainCalls
<1> QED
  BY <1>1, <1>2, <1>3

LEMMA PthCodesAre == ASSUME program \in {"exit", "cleanup"}
                     PROVE  T!Code(1) = 1 /\ T!Code(2) = 2 /\ T!Code(3) = T!CANCELED
BY DEF T!Code

\* Main makes a thread.
LEMMA PthCreateStep == ASSUME T!IInv, T!Create PROVE T!IInv'
<1>1. CASE T!Fail("create") /\ UNCHANGED <<tret, locked, thread, out>>
  <2>1. T!MainCalls("create") /\ end' = "exit 1" /\ mpc' = mpc
    BY <1>1 DEF T!Fail
  <2>2. end = "" /\ program' = program /\ prompt' = prompt
    BY <2>1, PthCallsAre
  <2>3. T!mainvars' = T!mainvars
    BY <1>1, <2>1 DEF T!mainvars
  <2> QED
    BY <1>1, <2>1, <2>2, <2>3, PthCrash
<1>2. CASE /\ T!Go("create")
           /\ thread' = [thread EXCEPT ![T!Arg].phase = "running"]
           /\ UNCHANGED <<tret, locked, out>>
  <2>1. T!MainCalls("create") /\ mpc' = mpc + 1 /\ end' = end
    BY <1>2 DEF T!Go
  <2>2. end = "" /\ program' = program /\ prompt' = prompt /\ mpc \in 1 .. 13
    BY <2>1, PthCallsAre
  <2>3. /\ program \in {"exit", "cleanup", "identification"}
        /\ T!Arg = mpc /\ mpc \in T!Own
    <3>1. mpc =< Len(T!Main) /\ T!Main[mpc].do = "create"
      BY <2>1, PthCallsAre
    <3> QED
      BY <3>1, PthMainIsAt
  <2>4. PICK t \in 1 .. 13 : t = mpc
    BY <2>2
  <2>m. mpc' = t + 1
    BY <2>1, <2>4
  <2>5. t \in T!Tids /\ t \in 1 .. 4 /\ (program = "cleanup" => t \in 1 .. 2)
        /\ (program = "identification" => t = 1)
    BY <2>3, <2>4, PthOwnIs DEF T!Tids
  <2> DEFINE th == thread[t]
  <2>6. th \in T!ThreadStates /\ T!InBody(t, th) /\ T!AtCall(t, th)
        /\ thread \in [T!Tids -> T!ThreadStates]
    BY <2>5, PthThreadIs
  <2>7. th.phase = "none"
    <3>1. mpc =< t
      BY <2>4
    <3>2. T!Started
      BY DEF T!IInv
    <3> QED
      BY <2>5, <3>1, <3>2 DEF T!Started
  <2>8. th.pc = 1 /\ th.pushed = T!Stack(0)
    BY <2>6, <2>7 DEF T!InBody
  <2>9. PICK x : x = [th EXCEPT !.phase = "running"]
    OBVIOUS
  <2>10. thread' = [thread EXCEPT ![t] = x] /\ out' = out /\ tret' = tret /\ locked' = locked
    BY <1>2, <2>3, <2>4, <2>9
  <2>11. x \in T!ThreadStates /\ x.pc = th.pc /\ x.phase = "running" /\ x.pushed = th.pushed
         /\ x.value = th.value /\ x.canceled = th.canceled
    BY <2>6, <2>9 DEF T!ThreadStates, T!Phases
  <2>12. T!InBody(t, x)
    BY <2>3, <2>4, <2>6, <2>11 DEF T!InBody, T!Left
  <2>13. T!AtCall(t, x)
    BY <2>8, <2>11 DEF T!AtCall, T!Left
  <2>14. thread' \in [T!Tids -> T!ThreadStates] /\ thread'[t] = x
         /\ \A u \in T!Tids : u # t => thread'[u] = thread[u]
    BY <2>5, <2>6, <2>10, <2>11, PthOthersSame
  <2>15. \A u \in T!Tids : T!InBody(u, thread'[u]) /\ T!AtCall(u, thread'[u])
    BY <2>12, <2>13, <2>14 DEF T!IInv
  <2>16. \A u \in T!Tids : T!InBody(u, thread[u])' /\ T!AtCall(u, thread[u])'
    BY <2>2, <2>15, PthFitsNext
  <2>17. T!Written(x) = T!Written(th)
    <3>1. x.phase \notin T!Left /\ th.phase \notin T!Left
      BY <2>7, <2>11 DEF T!Left
    <3> QED
      BY <2>11, <3>1, PthWrittenSame
  <2>18. \A u \in T!Tids : T!Written(thread[u])' = T!Written(thread[u])
    <3>1. \A u \in T!Tids : T!Written(thread[u])' = T!Written(thread'[u])
      BY <2>2, PthWrittenNext
    <3>2. \A u \in T!Tids : T!Written(thread'[u]) = T!Written(thread[u])
      BY <2>14, <2>17
    <3> QED
      BY <3>1, <3>2
  <2>19. \A u \in T!Tids : T!Joined(u) => T!Joined(u)'
    BY <2>7, <2>14 DEF T!Joined
  <2>20. T!InOrder' /\ T!Shown'
    BY <2>2, <2>10, <2>18, <2>19, PthNoLine
  <2>21. T!Started'
    <3>1. T!Own' = T!Own
      BY <2>2 DEF T!Own
    <3>2. T!Started
      BY DEF T!IInv
    <3>3. \A u \in T!Tids : mpc' =< u => mpc =< u /\ u # t
      BY <2>4, <2>m DEF T!Tids
    <3>4. \A u \in T!Tids : mpc' > u => u = t \/ mpc > u
      BY <2>4, <2>m DEF T!Tids
    <3>5. x.phase # "none"
      BY <2>11
    <3> QED
      BY <2>14, <3>1, <3>2, <3>3, <3>4, <3>5 DEF T!Started
  <2>22. T!InMain'
    <3>1. mpc' \in 2 .. 5
      BY <2>5, <2>m
    <3>2. program = "cleanup" => mpc' \in 2 .. 3
      BY <2>5, <2>m
    <3>3. program = "identification" => mpc' \in 2 .. 2
      BY <2>5, <2>m
    <3>4. program' # "timedlock" /\ program' = program /\ end' = ""
      BY <2>1, <2>2, <2>3
    <3>5. T!ExitAt'
      BY <3>1 DEF T!ExitAt
    <3>6. mpc' \in 2 .. 3 => T!CleanupAt'
      BY DEF T!CleanupAt
    <3>7. mpc' \in 2 .. 2 => T!SleepAt'
      BY DEF T!SleepAt
    <3>8. T!InPlace'
      BY <3>2, <3>3, <3>4, <3>5, <3>6, <3>7 DEF T!InPlace
    <3>9. T!Returned'
      BY <3>4 DEF T!Returned
    <3> QED
      BY <3>8, <3>9 DEF T!InMain
  <2>23. T!TypeOK'
    <3>1. mpc' \in 1 .. 13
      BY <2>5, <2>m
    <3> QED
      BY <2>1, <2>2, <2>10, <2>14, <3>1 DEF T!IInv, T!TypeOK
  <2> QED
    BY <2>16, <2>20, <2>21, <2>22, <2>23 DEF T!IInv
<1> QED
  BY <1>1, <1>2 DEF T!Create

\* The place of main in each program.
LEMMA PthIsPlace ==
  ASSUME end' = "",
         \/ program' = "exit" /\ T!ExitAt'
         \/ program' = "cleanup" /\ T!CleanupAt'
         \/ program' = "identification" /\ T!SleepAt'
         \/ program' = "timedlock" /\ T!LockAt'
  PROVE  T!InMain'
<1>1. T!InPlace'
  BY DEF T!InPlace
<1>2. T!Returned'
  BY DEF T!Returned
<1> QED
  BY <1>1, <1>2 DEF T!InMain

\* What the place of main says of the threads.
LEMMA PthPlaceIs ==
  ASSUME T!IInv
  PROVE  /\ program = "exit" => T!ExitAt
         /\ program = "cleanup" => T!CleanupAt
         /\ program = "identification" => T!SleepAt
         /\ program = "timedlock" => T!LockAt
BY DEF T!IInv, T!InMain, T!InPlace

LEMMA PthExitNext ==
  ASSUME T!ExitAt, thread' = thread,
         \/ mpc = 5 /\ mpc' = 6 /\ T!Joined(1) /\ tret' = 1
         \/ mpc = 6 /\ mpc' = 7
         \/ mpc = 7 /\ mpc' = 8 /\ T!Joined(2) /\ tret' = 2
         \/ mpc = 8 /\ mpc' = 9
         \/ mpc = 10 /\ mpc' = 11 /\ T!Joined(3) /\ tret' = T!CANCELED
         \/ mpc = 11 /\ mpc' = 12
  PROVE  T!ExitAt'
<1>1. \A t : T!Joined(t)' = T!Joined(t)
  BY DEF T!Joined
<1> QED
  BY <1>1 DEF T!ExitAt

LEMMA PthCleanupNext ==
  ASSUME T!CleanupAt, thread' = thread,
         \/ mpc = 3 /\ mpc' = 4 /\ T!Joined(1) /\ tret' = 1
         \/ mpc = 4 /\ mpc' = 5
         \/ mpc = 5 /\ mpc' = 6 /\ T!Joined(2) /\ tret' = 2
         \/ mpc = 6 /\ mpc' = 7
  PROVE  T!CleanupAt'
<1>1. \A t : T!Joined(t)' = T!Joined(t)
  BY DEF T!Joined
<1> QED
  BY <1>1 DEF T!CleanupAt

LEMMA PthJoinStep == ASSUME T!IInv, T!Join PROVE T!IInv'
<1>1. CASE /\ T!MainCalls("join") /\ T!Arg \in T!Detached
           /\ end' \in {"exit 1", "crash"}
           /\ UNCHANGED <<T!mainvars, thread, out>>
  <2>1. end = "" /\ program' = program /\ prompt' = prompt
    BY <1>1, PthCallsAre
  <2>2. T!mainvars' = T!mainvars /\ thread' = thread /\ out' = out /\ end' \in {"crash", "exit 1"}
    BY <1>1
  <2> QED
    BY <2>1, <2>2, PthCrash
<1>2. CASE /\ T!Go("join") /\ T!Arg \notin T!Detached
           /\ thread[T!Arg].phase = "ended"
           /\ tret' = thread[T!Arg].value
           /\ UNCHANGED <<locked, thread, out>>
  <2>1. T!MainCalls("join") /\ mpc' = mpc + 1 /\ end' = end
    BY <1>2 DEF T!Go
  <2>2. end = "" /\ program' = program /\ prompt' = prompt /\ mpc \in 1 .. 13
    BY <2>1, PthCallsAre
  <2>3. \/ program = "exit" /\ mpc = 5 /\ T!Arg = 1
        \/ program = "exit" /\ mpc = 7 /\ T!Arg = 2
        \/ program = "exit" /\ mpc = 10 /\ T!Arg = 3
        \/ program = "cleanup" /\ mpc = 3 /\ T!Arg = 1
        \/ program = "cleanup" /\ mpc = 5 /\ T!Arg = 2
    <3>1. mpc =< Len(T!Main) /\ T!Main[mpc].do = "join"
      BY <2>1, PthCallsAre
    <3>2. T!Arg # 4
      BY <1>2 DEF T!Detached
    <3> QED
      BY <3>1, <3>2, PthMainIsAt
  <2>4. PICK t \in 1 .. 4 : t = T!Arg
    BY <2>3
  <2>5. t \in T!Tids
    BY <2>4, PthTidsAre
  <2>6. T!Joined(t) /\ thread[t].value = T!Code(t)
    <3>1. T!InBody(t, thread[t])
      BY <2>5, PthThreadIs
    <3> QED
      BY <1>2, <2>4, <3>1 DEF T!InBody, T!Joined, T!Left
  <2>7. tret' = T!Code(t) /\ thread' = thread /\ out' = out /\ locked' = locked /\ end' = ""
    BY <1>2, <2>1, <2>2, <2>4, <2>6
  <2>8. T!Code(t) \in -1 .. 4
    BY <2>5, PthThreadIs, PthCodeIs
  <2>9. mpc \notin T!Own
    <3>1. program = "exit" => T!Own = 1 .. 4 /\ mpc \in 5 .. 13
      BY <2>3, PthOwnIs
    <3>2. program = "cleanup" => T!Own = 1 .. 2 /\ mpc \in 3 .. 13
      BY <2>3, PthOwnIs
    <3>3. program = "exit" \/ program = "cleanup"
      BY <2>3
    <3> QED
      BY <3>1, <3>2, <3>3
  <2>10. T!InMain' /\ mpc' \in 1 .. 13
    <3>1. CASE program = "exit" /\ mpc = 5 /\ T!Arg = 1
      <4>1. T!ExitAt
        BY <3>1, PthPlaceIs
      <4>2. t = 1 /\ mpc = 5 /\ mpc' = 6
        BY <2>1, <2>4, <3>1
      <4>3. tret' = 1
        BY <2>7, <3>1, <4>2, PthCodesAre
      <4>4. T!Joined(1)
        BY <2>6, <4>2
      <4>5. T!ExitAt'
        BY <2>7, <4>1, <4>2, <4>3, <4>4, PthExitNext
      <4>6. T!InMain'
        BY <2>2, <2>7, <3>1, <4>5, PthIsPlace
      <4>7. mpc' \in 1 .. 13
        BY <4>2
      <4> QED
        BY <4>6, <4>7
    <3>2. CASE program = "exit" /\ mpc = 7 /\ T!Arg = 2
      <4>1. T!ExitAt
        BY <3>2, PthPlaceIs
      <4>2. t = 2 /\ mpc = 7 /\ mpc' = 8
        BY <2>1, <2>4, <3>2
      <4>3. tret' = 2
        BY <2>7, <3>2, <4>2, PthCodesAre
      <4>4. T!Joined(2)
        BY <2>6, <4>2
      <4>5. T!ExitAt'
        BY <2>7, <4>1, <4>2, <4>3, <4>4, PthExitNext
      <4>6. T!InMain'
        BY <2>2, <2>7, <3>2, <4>5, PthIsPlace
      <4>7. mpc' \in 1 .. 13
        BY <4>2
      <4> QED
        BY <4>6, <4>7
    <3>3. CASE program = "exit" /\ mpc = 10 /\ T!Arg = 3
      <4>1. T!ExitAt
        BY <3>3, PthPlaceIs
      <4>2. t = 3 /\ mpc = 10 /\ mpc' = 11
        BY <2>1, <2>4, <3>3
      <4>3. tret' = T!CANCELED
        BY <2>7, <3>3, <4>2, PthCodesAre
      <4>4. T!Joined(3)
        BY <2>6, <4>2
      <4>5. T!ExitAt'
        BY <2>7, <4>1, <4>2, <4>3, <4>4, PthExitNext
      <4>6. T!InMain'
        BY <2>2, <2>7, <3>3, <4>5, PthIsPlace
      <4>7. mpc' \in 1 .. 13
        BY <4>2
      <4> QED
        BY <4>6, <4>7
    <3>4. CASE program = "cleanup" /\ mpc = 3 /\ T!Arg = 1
      <4>1. T!CleanupAt
        BY <3>4, PthPlaceIs
      <4>2. t = 1 /\ mpc = 3 /\ mpc' = 4
        BY <2>1, <2>4, <3>4
      <4>3. tret' = 1
        BY <2>7, <3>4, <4>2, PthCodesAre
      <4>4. T!Joined(1)
        BY <2>6, <4>2
      <4>5. T!CleanupAt'
        BY <2>7, <4>1, <4>2, <4>3, <4>4, PthCleanupNext
      <4>6. T!InMain'
        BY <2>2, <2>7, <3>4, <4>5, PthIsPlace
      <4>7. mpc' \in 1 .. 13
        BY <4>2
      <4> QED
        BY <4>6, <4>7
    <3>5. CASE program = "cleanup" /\ mpc = 5 /\ T!Arg = 2
      <4>1. T!CleanupAt
        BY <3>5, PthPlaceIs
      <4>2. t = 2 /\ mpc = 5 /\ mpc' = 6
        BY <2>1, <2>4, <3>5
      <4>3. tret' = 2
        BY <2>7, <3>5, <4>2, PthCodesAre
      <4>4. T!Joined(2)
        BY <2>6, <4>2
      <4>5. T!CleanupAt'
        BY <2>7, <4>1, <4>2, <4>3, <4>4, PthCleanupNext
      <4>6. T!InMain'
        BY <2>2, <2>7, <3>5, <4>5, PthIsPlace
      <4>7. mpc' \in 1 .. 13
        BY <4>2
      <4> QED
        BY <4>6, <4>7
    <3> QED
      BY <2>3, <3>1, <3>2, <3>3, <3>4, <3>5
  <2>11. T!TypeOK'
    BY <2>2, <2>7, <2>8, <2>10 DEF T!IInv, T!TypeOK
  <2> QED
    BY <2>1, <2>2, <2>7, <2>9, <2>10, <2>11, PthMainQuiet
<1> QED
  BY <1>1, <1>2 DEF T!Join
\* The place of a print, and what it prints.
LEMMA PthPrintIs ==
  ASSUME T!IInv, T!PrintCode
  PROVE  /\ program \in {"exit", "cleanup"} /\ T!InMain' /\ mpc' \in 1 .. 13
         /\ T!Arg \in 1 .. 3 /\ (program = "cleanup" => T!Arg \in 1 .. 2)
         /\ T!Joined(T!Arg) /\ tret = T!Code(T!Arg) /\ mpc \notin T!Own
<1>1. T!InMain' /\ \/ /\ program = "exit" /\ mpc = 6 /\ mpc' = 7
                      /\ T!Arg = 1 /\ T!Joined(1) /\ tret = T!Code(1)
                   \/ /\ program = "exit" /\ mpc = 8 /\ mpc' = 9
                      /\ T!Arg = 2 /\ T!Joined(2) /\ tret = T!Code(2)
                   \/ /\ program = "exit" /\ mpc = 11 /\ mpc' = 12
                      /\ T!Arg = 3 /\ T!Joined(3) /\ tret = T!Code(3)
                   \/ /\ program = "cleanup" /\ mpc = 4 /\ mpc' = 5
                      /\ T!Arg = 1 /\ T!Joined(1) /\ tret = T!Code(1)
                   \/ /\ program = "cleanup" /\ mpc = 6 /\ mpc' = 7
                      /\ T!Arg = 2 /\ T!Joined(2) /\ tret = T!Code(2)
  <2>1. T!MainCalls("print") /\ mpc' = mpc + 1
    BY DEF T!PrintCode, T!Go
  <2>2. end' = "" /\ program' = program
    BY <2>1, PthCallsAre DEF T!PrintCode, T!Go
  <2>3. thread' = thread /\ tret' = tret
    BY DEF T!PrintCode
  <2>4. CASE program = "exit" /\ mpc = 6 /\ T!Arg = 1
    <3>1. T!ExitAt
      BY <2>4, PthPlaceIs
    <3>2. mpc = 6 /\ mpc' = 7
      BY <2>1, <2>4
    <3>3. T!Joined(1) /\ tret = 1
      BY <3>1, <3>2 DEF T!ExitAt
    <3>4. T!ExitAt'
      BY <2>3, <3>1, <3>2, PthExitNext
    <3>5. T!InMain'
      BY <2>2, <2>3, <2>4, <3>4, PthIsPlace
    <3>6. tret = T!Code(1)
      BY <2>4, <3>3, PthCodesAre
    <3> QED
      BY <2>4, <3>2, <3>3, <3>5, <3>6
  <2>5. CASE program = "exit" /\ mpc = 8 /\ T!Arg = 2
    <3>1. T!ExitAt
      BY <2>5, PthPlaceIs
    <3>2. mpc = 8 /\ mpc' = 9
      BY <2>1, <2>5
    <3>3. T!Joined(2) /\ tret = 2
      BY <3>1, <3>2 DEF T!ExitAt
    <3>4. T!ExitAt'
      BY <2>3, <3>1, <3>2, PthExitNext
    <3>5. T!InMain'
      BY <2>2, <2>3, <2>5, <3>4, PthIsPlace
    <3>6. tret = T!Code(2)
      BY <2>5, <3>3, PthCodesAre
    <3> QED
      BY <2>5, <3>2, <3>3, <3>5, <3>6
  <2>6. CASE program = "exit" /\ mpc = 11 /\ T!Arg = 3
    <3>1. T!ExitAt
      BY <2>6, PthPlaceIs
    <3>2. mpc = 11 /\ mpc' = 12
      BY <2>1, <2>6
    <3>3. T!Joined(3) /\ tret = T!CANCELED
      BY <3>1, <3>2 DEF T!ExitAt
    <3>4. T!ExitAt'
      BY <2>3, <3>1, <3>2, PthExitNext
    <3>5. T!InMain'
      BY <2>2, <2>3, <2>6, <3>4, PthIsPlace
    <3>6. tret = T!Code(3)
      BY <2>6, <3>3, PthCodesAre
    <3> QED
      BY <2>6, <3>2, <3>3, <3>5, <3>6
  <2>7. CASE program = "cleanup" /\ mpc = 4 /\ T!Arg = 1
    <3>1. T!CleanupAt
      BY <2>7, PthPlaceIs
    <3>2. mpc = 4 /\ mpc' = 5
      BY <2>1, <2>7
    <3>3. T!Joined(1) /\ tret = 1
      BY <3>1, <3>2 DEF T!CleanupAt
    <3>4. T!CleanupAt'
      BY <2>3, <3>1, <3>2, PthCleanupNext
    <3>5. T!InMain'
      BY <2>2, <2>3, <2>7, <3>4, PthIsPlace
    <3>6. tret = T!Code(1)
      BY <2>7, <3>3, PthCodesAre
    <3> QED
      BY <2>7, <3>2, <3>3, <3>5, <3>6
  <2>8. CASE program = "cleanup" /\ mpc = 6 /\ T!Arg = 2
    <3>1. T!CleanupAt
      BY <2>8, PthPlaceIs
    <3>2. mpc = 6 /\ mpc' = 7
      BY <2>1, <2>8
    <3>3. T!Joined(2) /\ tret = 2
      BY <3>1, <3>2 DEF T!CleanupAt
    <3>4. T!CleanupAt'
      BY <2>3, <3>1, <3>2, PthCleanupNext
    <3>5. T!InMain'
      BY <2>2, <2>3, <2>8, <3>4, PthIsPlace
    <3>6. tret = T!Code(2)
      BY <2>8, <3>3, PthCodesAre
    <3> QED
      BY <2>8, <3>2, <3>3, <3>5, <3>6
  <2>9. \/ program = "exit" /\ mpc = 6 /\ T!Arg = 1
        \/ program = "exit" /\ mpc = 8 /\ T!Arg = 2
        \/ program = "exit" /\ mpc = 11 /\ T!Arg = 3
        \/ program = "cleanup" /\ mpc = 4 /\ T!Arg = 1
        \/ program = "cleanup" /\ mpc = 6 /\ T!Arg = 2
    <3>1. mpc =< Len(T!Main) /\ T!Main[mpc].do = "print"
      BY <2>1, PthCallsAre
    <3> QED
      BY <3>1, PthMainIsAt
  <2> QED
    BY <2>4, <2>5, <2>6, <2>7, <2>8, <2>9
<1>2. mpc \notin T!Own
  <2>1. program = "exit" => T!Own = 1 .. 4 /\ mpc \in 5 .. 13
    BY <1>1, PthOwnIs
  <2>2. program = "cleanup" => T!Own = 1 .. 2 /\ mpc \in 3 .. 13
    BY <1>1, PthOwnIs
  <2>3. program = "exit" \/ program = "cleanup"
    BY <1>1
  <2> QED
    BY <2>1, <2>2, <2>3
<1>3. mpc' \in 1 .. 13 /\ T!Arg \in 1 .. 3
  BY <1>1
<1>4. program \in {"exit", "cleanup"} /\ T!InMain' /\ T!Joined(T!Arg) /\ tret = T!Code(T!Arg)
  BY <1>1
<1>5. program = "cleanup" => T!Arg \in 1 .. 2
  BY <1>1
<1> QED
  BY <1>2, <1>3, <1>4, <1>5

LEMMA PthMainSays ==
  ASSUME NEW w \in T!Ways, NEW a \in 0 .. 4, NEW r \in -1 .. 4, NEW l, l = T!Line(0, w, a, r)
  PROVE  l.by = 0 /\ l.what = w /\ l.arg = a /\ l.value = r /\ l \in T!Lines
<1>1. l.by = 0 /\ l.what = w /\ l.arg = a /\ l.value = r
  BY DEF T!Line
<1>2. T!Line(0, w, a, r) \in T!Lines
  BY DEF T!Line, T!Lines
<1> QED
  BY <1>1, <1>2

LEMMA PthPrintCodeStep == ASSUME T!IInv, T!PrintCode PROVE T!IInv'
<1> DEFINE l == T!Line(0, "exit code", T!Arg, tret)
<1>1. T!MainCalls("print") /\ mpc' = mpc + 1 /\ end' = end /\ thread' = thread
      /\ tret' = tret /\ locked' = locked /\ out' = Append(out, l)
  BY DEF T!PrintCode, T!Go
<1>2. end = "" /\ program' = program /\ prompt' = prompt
  BY <1>1, PthCallsAre
<1>3. /\ program \in {"exit", "cleanup"} /\ T!InMain' /\ mpc' \in 1 .. 13
      /\ T!Arg \in 1 .. 3 /\ (program = "cleanup" => T!Arg \in 1 .. 2)
      /\ T!Joined(T!Arg) /\ tret = T!Code(T!Arg) /\ mpc \notin T!Own
  BY PthPrintIs
<1>4. l \in T!Lines /\ l.by = 0 /\ l.arg = T!Arg /\ l.value = tret
  <2>1. T!Arg \in 0 .. 4 /\ tret \in -1 .. 4
    <3>1. T!Arg \in 1 .. 3
      BY <1>3
    <3>2. T!Arg \in 0 .. 4
      BY <3>1
    <3>3. tret \in -1 .. 4
      BY DEF T!IInv, T!TypeOK
    <3> QED
      BY <3>2, <3>3
  <2>2. "exit code" \in T!Ways
    BY DEF T!Ways
  <2>3. PICK w \in T!Ways : w = "exit code"
    BY <2>2, Zenon
  <2>4. PICK a \in 0 .. 4 : a = T!Arg
    BY <2>1
  <2>5. PICK r \in -1 .. 4 : r = tret
    BY <2>1
  <2>6. l = T!Line(0, w, a, r)
    BY <2>3, <2>4, <2>5
  <2> HIDE DEF l
  <2>7. l.by = 0 /\ l.arg = a /\ l.value = r /\ l \in T!Lines
    BY <2>6, PthMainSays
  <2> QED
    BY <2>4, <2>5, <2>7
<1>5. T!Ends(l)
  <2>1. T!Arg \in {1, 2, 3} \cap T!Own
    <3>1. program = "exit" => T!Own = 1 .. 4
      BY PthOwnIs
    <3>2. program = "cleanup" => T!Own = 1 .. 2
      BY PthOwnIs
    <3>3. T!Own = 1 .. 4 \/ (T!Own = 1 .. 2 /\ T!Arg \in 1 .. 2)
      BY <1>3, <3>1, <3>2
    <3> QED
      BY <1>3, <3>3
  <2> HIDE DEF l
  <2> QED
    BY <1>3, <1>4, <2>1 DEF T!Ends
<1> HIDE DEF l
<1>6. out' \in Seq(T!Lines)
  <2>1. out \in Seq(T!Lines)
    BY DEF T!IInv, T!TypeOK
  <2> QED
    BY <1>1, <1>4, <2>1, PthLineIn
<1>7. T!TypeOK'
  BY <1>1, <1>2, <1>3, <1>6 DEF T!IInv, T!TypeOK
<1> QED
  BY <1>1, <1>2, <1>3, <1>4, <1>5, <1>7, PthMainWrites

\* Main cancels thread 3.
LEMMA PthCancelStep == ASSUME T!IInv, T!Cancel PROVE T!IInv'
<1> DEFINE th == thread[3]
<1>1. T!MainCalls("cancel") /\ mpc' = mpc + 1 /\ end' = end /\ tret' = tret
      /\ locked' = locked /\ out' = out
      /\ thread' = [thread EXCEPT ![T!Arg].canceled = TRUE]
  BY DEF T!Cancel, T!Go
<1>2. end = "" /\ program' = program /\ prompt' = prompt
  BY <1>1, PthCallsAre
<1>3. program = "exit" /\ mpc = 9 /\ T!Arg = 3
  <2>1. mpc =< Len(T!Main) /\ T!Main[mpc].do = "cancel"
    BY <1>1, PthCallsAre
  <2> QED
    BY <2>1, PthMainIsAt
<1>4. mpc = 9 /\ mpc' = 10
  BY <1>1, <1>3
<1>5. 3 \in T!Tids
  BY PthTidsAre
<1>6. th \in T!ThreadStates /\ T!InBody(3, th) /\ T!AtCall(3, th)
      /\ thread \in [T!Tids -> T!ThreadStates]
  BY <1>5, PthThreadIs
<1>7. PICK x : x = [th EXCEPT !.canceled = TRUE]
  OBVIOUS
<1>8. thread' = [thread EXCEPT ![3] = x]
  BY <1>1, <1>3, <1>7
<1>9. x \in T!ThreadStates /\ x.pc = th.pc /\ x.phase = th.phase /\ x.pushed = th.pushed
      /\ x.value = th.value
  BY <1>6, <1>7 DEF T!ThreadStates
<1>10. T!InBody(3, x)
  BY <1>3, <1>6, <1>9 DEF T!InBody
<1>11. T!AtCall(3, x)
  BY <1>6, <1>9 DEF T!AtCall
<1>12. thread' \in [T!Tids -> T!ThreadStates] /\ thread'[3] = x
       /\ \A u \in T!Tids : u # 3 => thread'[u] = thread[u]
  BY <1>5, <1>6, <1>8, <1>9, PthOthersSame
<1>13. \A u \in T!Tids : T!InBody(u, thread'[u]) /\ T!AtCall(u, thread'[u])
  BY <1>10, <1>11, <1>12 DEF T!IInv
<1>14. \A u \in T!Tids : T!InBody(u, thread[u])' /\ T!AtCall(u, thread[u])'
  BY <1>2, <1>13, PthFitsNext
<1>15. T!Written(x) = T!Written(th)
  BY <1>9, PthWrittenSame
<1>16. \A u \in T!Tids : T!Written(thread[u])' = T!Written(thread[u])
  <2>1. \A u \in T!Tids : T!Written(thread[u])' = T!Written(thread'[u])
    BY <1>2, PthWrittenNext
  <2>2. \A u \in T!Tids : T!Written(thread'[u]) = T!Written(thread[u])
    BY <1>12, <1>15
  <2> QED
    BY <2>1, <2>2
<1>17. \A u \in T!Tids : thread'[u].phase = thread[u].phase
  BY <1>9, <1>12
<1>18. \A u \in T!Tids : T!Joined(u) => T!Joined(u)'
  BY <1>17 DEF T!Joined
<1>19. T!InOrder' /\ T!Shown'
  BY <1>1, <1>2, <1>16, <1>18, PthNoLine
<1>20. T!Started'
  <2>1. T!Own' = T!Own
    BY <1>2 DEF T!Own
  <2>2. \A u \in T!Tids : ~(mpc' =< u) /\ mpc > u
    BY <1>4 DEF T!Tids
  <2>3. T!Started
    BY DEF T!IInv
  <2> QED
    BY <1>17, <2>1, <2>2, <2>3 DEF T!Started
<1>21. T!InMain'
  <2>1. T!ExitAt
    BY <1>3, PthPlaceIs
  <2>2. T!Joined(1)' /\ T!Joined(2)'
    <3>1. T!Joined(1) /\ T!Joined(2)
      BY <1>4, <2>1 DEF T!ExitAt
    <3>2. 1 \in T!Tids /\ 2 \in T!Tids
      BY PthTidsAre
    <3> QED
      BY <1>18, <3>1, <3>2
  <2>3. T!ExitAt'
    BY <1>4, <2>2 DEF T!ExitAt
  <2>4. end' = "" /\ program' = "exit"
    BY <1>1, <1>2, <1>3
  <2> QED
    BY <2>3, <2>4, PthIsPlace
<1>22. T!TypeOK'
  <2>1. mpc' \in 1 .. 13
    BY <1>4
  <2> QED
    BY <1>1, <1>2, <1>12, <2>1 DEF T!IInv, T!TypeOK
<1> QED
  BY <1>14, <1>19, <1>20, <1>21, <1>22 DEF T!IInv

LEMMA PthPrintIdsStep == ASSUME T!IInv, T!PrintIds PROVE T!IInv'
<1> DEFINE l == T!Line(0, "ids", 0, 0)
<1>1. T!MainCalls("printids") /\ mpc' = mpc + 1 /\ end' = end /\ thread' = thread
      /\ tret' = tret /\ locked' = locked /\ out' = Append(out, l)
  BY DEF T!PrintIds, T!Go
<1>2. end = "" /\ program' = program /\ prompt' = prompt
  BY <1>1, PthCallsAre
<1>3. program = "identification" /\ mpc = 2
  <2>1. mpc =< Len(T!Main) /\ T!Main[mpc].do = "printids"
    BY <1>1, PthCallsAre
  <2> QED
    BY <2>1, PthMainIsAt
<1>4. mpc = 2 /\ mpc' = 3 /\ mpc' \in 1 .. 13
  BY <1>1, <1>3
<1>5. l \in T!Lines /\ l.by = 0 /\ ~T!IsCode(l)
  <2>1. PICK w \in T!Ways : w = "ids"
    BY DEF T!Ways
  <2>2. PICK a \in 0 .. 4 : a = 0
    OBVIOUS
  <2>3. PICK v \in -1 .. 4 : v = 0
    OBVIOUS
  <2>4. l = T!Line(0, w, a, v)
    BY <2>1, <2>2, <2>3
  <2> HIDE DEF l
  <2>5. l.by = 0 /\ l.what = w /\ l \in T!Lines
    BY <2>4, PthMainSays
  <2>6. ~T!IsCode(l)
    BY <2>1, <2>5 DEF T!IsCode
  <2> QED
    BY <2>5, <2>6
<1> HIDE DEF l
<1>6. mpc \notin T!Own
  <2>1. T!Own = {1}
    BY <1>3, PthOwnIs
  <2> QED
    BY <1>4, <2>1
<1>7. T!InMain'
  <2>1. T!SleepAt'
    BY <1>4 DEF T!SleepAt
  <2>2. end' = "" /\ program' = "identification"
    BY <1>1, <1>2, <1>3
  <2> QED
    BY <2>1, <2>2, PthIsPlace
<1>8. T!TypeOK'
  <2>1. out \in Seq(T!Lines)
    BY DEF T!IInv, T!TypeOK
  <2>2. out' \in Seq(T!Lines)
    BY <1>1, <1>5, <2>1, PthLineIn
  <2> QED
    BY <1>1, <1>2, <1>4, <2>2 DEF T!IInv, T!TypeOK
<1> QED
  BY <1>1, <1>2, <1>5, <1>6, <1>7, <1>8, PthMainWrites

LEMMA PthLockStep == ASSUME T!IInv, T!Lock PROVE T!IInv'
<1>1. T!MainCalls("lock") /\ mpc' = mpc + 1 /\ end' = end /\ thread' = thread
      /\ tret' = tret /\ locked' = TRUE /\ out' = out
  BY DEF T!Lock, T!Go
<1>2. end = "" /\ program' = program /\ prompt' = prompt
  BY <1>1, PthCallsAre
<1>3. program = "timedlock" /\ mpc = 1
  <2>1. mpc =< Len(T!Main) /\ T!Main[mpc].do = "lock"
    BY <1>1, PthCallsAre
  <2> QED
    BY <2>1, PthMainIsAt
<1>4. mpc' = 2 /\ mpc' \in 1 .. 13
  BY <1>1, <1>3
<1>5. mpc \notin T!Own
  <2>1. T!Own = {}
    BY <1>3, PthOwnIs
  <2> QED
    BY <2>1
<1>6. T!InMain'
  <2>1. T!LockAt'
    BY <1>4 DEF T!LockAt
  <2>2. end' = "" /\ program' = "timedlock"
    BY <1>1, <1>2, <1>3
  <2> QED
    BY <2>1, <2>2, PthIsPlace
<1>7. T!TypeOK'
  BY <1>1, <1>2, <1>4 DEF T!IInv, T!TypeOK
<1> QED
  BY <1>1, <1>2, <1>5, <1>6, <1>7, PthMainQuiet

LEMMA PthTimedlockStep == ASSUME T!IInv, T!Timedlock PROVE T!IInv'
<1>1. PICK r \in 0 .. 1 : r = IF locked THEN 1 ELSE 0
  OBVIOUS
<1> DEFINE l == T!Line(0, "timedlock", 0, r)
<1>2. T!MainCalls("timedlock") /\ mpc' = mpc + 1 /\ end' = end /\ thread' = thread
      /\ tret' = tret /\ locked' = TRUE /\ out' = Append(out, l)
  BY <1>1 DEF T!Timedlock, T!Go
<1>3. end = "" /\ program' = program /\ prompt' = prompt
  BY <1>2, PthCallsAre
<1>4. program = "timedlock" /\ mpc = 2
  <2>1. mpc =< Len(T!Main) /\ T!Main[mpc].do = "timedlock"
    BY <1>2, PthCallsAre
  <2> QED
    BY <2>1, PthMainIsAt
<1>5. mpc' = 3 /\ mpc' \in 1 .. 13
  BY <1>2, <1>4
<1>6. l \in T!Lines /\ l.by = 0 /\ ~T!IsCode(l)
  <2>1. PICK w \in T!Ways : w = "timedlock"
    BY DEF T!Ways
  <2>2. PICK a \in 0 .. 4 : a = 0
    OBVIOUS
  <2>3. PICK v \in -1 .. 4 : v = r
    OBVIOUS
  <2>4. l = T!Line(0, w, a, v)
    BY <2>1, <2>2, <2>3
  <2> HIDE DEF l
  <2>5. l.by = 0 /\ l.what = w /\ l \in T!Lines
    BY <2>4, PthMainSays
  <2>6. ~T!IsCode(l)
    BY <2>1, <2>5 DEF T!IsCode
  <2> QED
    BY <2>5, <2>6
<1> HIDE DEF l
<1>7. mpc \notin T!Own
  <2>1. T!Own = {}
    BY <1>4, PthOwnIs
  <2> QED
    BY <2>1
<1>8. T!InMain'
  <2>1. T!LockAt'
    BY <1>5 DEF T!LockAt
  <2>2. end' = "" /\ program' = "timedlock"
    BY <1>2, <1>3, <1>4
  <2> QED
    BY <2>1, <2>2, PthIsPlace
<1>9. T!TypeOK'
  <2>1. out \in Seq(T!Lines)
    BY DEF T!IInv, T!TypeOK
  <2>2. out' \in Seq(T!Lines)
    BY <1>2, <1>6, <2>1, PthLineIn
  <2> QED
    BY <1>2, <1>3, <1>5, <2>2 DEF T!IInv, T!TypeOK
<1> QED
  BY <1>2, <1>3, <1>6, <1>7, <1>8, <1>9, PthMainWrites

\* When no thread can run, the thread of pthread_identification.c has ended.
LEMMA PthSleepStep == ASSUME T!IInv, T!Sleep PROVE T!IInv'
<1>1. T!MainCalls("sleep") /\ mpc' = mpc + 1 /\ end' = end /\ thread' = thread
      /\ tret' = tret /\ locked' = locked /\ out' = out
      /\ (~prompt \/ \A t \in T!Tids : T!Idle(t))
  BY DEF T!Sleep, T!Go
<1>2. end = "" /\ program' = program /\ prompt' = prompt
  BY <1>1, PthCallsAre
<1>3. program = "identification" /\ mpc = 3
  <2>1. mpc =< Len(T!Main) /\ T!Main[mpc].do = "sleep"
    BY <1>1, PthCallsAre
  <2> QED
    BY <2>1, PthMainIsAt
<1>4. mpc = 3 /\ mpc' = 4 /\ mpc' \in 1 .. 13
  BY <1>1, <1>3
<1>5. T!Own = {1}
  BY <1>3, PthOwnIs
<1>6. 1 \in T!Tids
  BY PthTidsAre
<1>7. thread[1].phase # "none"
  <2>1. T!Started /\ 1 \in T!Own /\ mpc > 1
    BY <1>4, <1>5 DEF T!IInv
  <2> QED
    BY <1>6, <2>1 DEF T!Started
<1>8. T!Idle(1) => T!Joined(1)
  <2>1. thread[1].phase = "running" => T!Body(1)[thread[1].pc].do # "pause"
    BY <1>3, <1>6, PthThreadIsAt
  <2> QED
    BY <1>7, <2>1 DEF T!Idle, T!Joined
<1>9. T!Slept'
  <2>1. T!Slept
    BY <1>1, <1>6, <1>8 DEF T!Slept
  <2> QED
    BY <1>1, <1>2, <2>1 DEF T!Slept, T!Joined
<1>10. T!InMain'
  <2>1. T!SleepAt'
    BY <1>4, <1>9 DEF T!SleepAt
  <2>2. end' = "" /\ program' = "identification"
    BY <1>1, <1>2, <1>3
  <2> QED
    BY <2>1, <2>2, PthIsPlace
<1>11. mpc \notin T!Own
  BY <1>4, <1>5
<1>12. T!TypeOK'
  BY <1>1, <1>2, <1>4 DEF T!IInv, T!TypeOK
<1> QED
  BY <1>1, <1>2, <1>10, <1>11, <1>12, PthMainQuiet

LEMMA PthReturnStep == ASSUME T!IInv, T!Return PROVE T!IInv'
<1>1. end' = "return" /\ program' = program /\ prompt' = prompt /\ T!mainvars' = T!mainvars
      /\ thread' = thread /\ out' = out /\ mpc > Len(T!Main)
  BY DEF T!Return
<1>2. T!TypeOK'
  BY <1>1 DEF T!IInv, T!TypeOK, T!mainvars
<1>3. T!Returned'
  <2>1. T!Main' = T!Main /\ mpc' = mpc
    BY <1>1 DEF T!Main, T!mainvars
  <2> QED
    BY <1>1, <2>1 DEF T!Returned
<1> QED
  BY <1>1, <1>2, <1>3, PthStill

---------------------------------------------------------------------------
\* The invariant.

LEMMA PthInitIInv == T!Init => T!IInv
<1> SUFFICES ASSUME T!Init PROVE T!IInv
  OBVIOUS
<1>1. program \in T!Programs /\ prompt \in BOOLEAN /\ locked = FALSE /\ end = ""
  BY DEF T!Init
<1>m. mpc = 1 /\ tret = 0
  BY DEF T!Init
<1>o. out = <<>>
  BY DEF T!Init
<1>2. PICK th : th = [phase |-> "none", pc |-> 1, value |-> 0,
                      pushed |-> <<>>, canceled |-> FALSE]
  OBVIOUS
<1>3. thread = [t \in T!Tids |-> th]
  BY <1>2 DEF T!Init
<1>4. th.phase = "none" /\ th.pc = 1 /\ th.pushed = <<>> /\ th.canceled = FALSE
  BY <1>2
<1>5. th.pushed = T!Stack(0)
  BY <1>4 DEF T!Stack
<1>6. th \in T!ThreadStates
  <2>1. <<>> \in T!Stacks
    BY DEF T!Stacks, T!Stack
  <2> QED
    BY <1>2, <2>1 DEF T!ThreadStates, T!Phases
<1>7. T!TypeOK
  <2>1. out \in Seq(T!Lines)
    BY <1>o
  <2>2. thread \in [T!Tids -> T!ThreadStates]
    BY <1>3, <1>6
  <2>3. mpc \in 1 .. 13 /\ tret \in -1 .. 4
    BY <1>m
  <2>4. end \in {"", "exit 1", "crash", "return"}
    BY <1>1
  <2> QED
    BY <1>1, <2>1, <2>2, <2>3, <2>4 DEF T!TypeOK
<1>8. \A t \in T!Tids : thread[t] = th
  BY <1>3
<1>9. \A t \in T!Tids : T!InBody(t, th) /\ T!AtCall(t, th)
  <2>1. th.phase \notin T!Left
    BY <1>4 DEF T!Left
  <2>2. th.pc \in 1 .. 2
    BY <1>4
  <2> QED
    BY <1>4, <1>5, <2>1, <2>2 DEF T!InBody, T!AtCall, T!Left
<1>10. T!Started
  BY <1>m, <1>4, <1>8 DEF T!Started, T!Tids
<1>11. T!InMain
  <2>1. T!ExitAt
    BY <1>m DEF T!ExitAt
  <2>2. T!CleanupAt
    BY <1>m DEF T!CleanupAt
  <2>3. T!SleepAt /\ T!LockAt
    BY <1>m DEF T!SleepAt, T!LockAt
  <2>4. T!Returned
    BY <1>1 DEF T!Returned
  <2> QED
    BY <2>1, <2>2, <2>3, <2>4 DEF T!InMain, T!InPlace
<1>12. Len(out) = 0 /\ 1 .. 0 = {}
  BY <1>o
<1>13. T!InOrder
  <2>1. T!Written(th) = 0
    <3>1. th.phase \notin T!Left
      BY <1>4 DEF T!Left
    <3> QED
      BY <1>4, <3>1 DEF T!Written
  <2>2. \A t : T!Count(out, t, 0) = 0
    BY <1>12, PthCountOf, FS_EmptySet
  <2>3. \A t \in T!Tids : T!FirstOf(out, t, 0)
    BY <1>12, <2>2 DEF T!FirstOf
  <2> QED
    BY <1>8, <2>1, <2>3 DEF T!InOrder
<1>14. T!Shown
  BY <1>12 DEF T!Shown, T!Apart
<1> QED
  BY <1>7, <1>8, <1>9, <1>10, <1>11, <1>13, <1>14 DEF T!IInv

LEMMA PthStutterStep == ASSUME T!IInv, UNCHANGED T!vars PROVE T!IInv'
<1>1. program' = program /\ prompt' = prompt /\ T!mainvars' = T!mainvars /\ thread' = thread
      /\ out' = out /\ end' = end
  BY DEF T!vars
<1>2. T!TypeOK'
  BY <1>1 DEF T!IInv, T!TypeOK, T!mainvars
<1>3. T!Returned'
  <2>1. T!Main' = T!Main /\ mpc' = mpc
    BY <1>1 DEF T!Main, T!mainvars
  <2> QED
    BY <1>1, <2>1 DEF T!IInv, T!InMain, T!Returned
<1> QED
  BY <1>1, <1>2, <1>3, PthStill

LEMMA PthNextIInv == T!IInv /\ [T!Next]_(T!vars) => T!IInv'
<1> SUFFICES ASSUME T!IInv, [T!Next]_(T!vars) PROVE T!IInv'
  OBVIOUS
<1>1. CASE T!MainStep
  BY <1>1, PthCreateStep, PthJoinStep, PthPrintCodeStep, PthCancelStep,
     PthPrintIdsStep, PthLockStep, PthTimedlockStep, PthSleepStep, PthReturnStep DEF
     T!MainStep
<1>2. CASE \E t \in T!Tids : T!ThreadStep(t)
  BY <1>2, PthSayStep, PthCleanupPushStep, PthReturnFromStep, PthPthreadExitStep,
     PthCanceledStep, PthUnwindStep DEF T!ThreadStep
<1>3. CASE UNCHANGED T!vars
  BY <1>3, PthStutterStep
<1> QED
  BY <1>1, <1>2, <1>3 DEF T!Next

LEMMA PthCutShortFollows == T!IInv => T!NoneCutShort
<1> SUFFICES ASSUME T!IInv, end = "return"
             PROVE  \/ \A t \in T!Tids : thread[t].phase \in {"none", "ended"}
                    \/ program = "identification" /\ ~prompt
  BY DEF T!NoneCutShort
<1>1. mpc > Len(T!Main) /\ mpc \in 1 .. 13
  BY DEF T!IInv, T!InMain, T!Returned, T!TypeOK
<1>2. \A t \in T!Tids : t \notin T!Own => thread[t].phase = "none"
  BY DEF T!IInv, T!InBody
<1>3. program \in {"exit", "cleanup", "identification", "timedlock"}
  BY DEF T!IInv, T!TypeOK, T!Programs
<1>4. CASE program = "exit"
  <2>1. Len(T!Main) = 13
    BY <1>4, PthMainOfExit
  <2> QED
    BY <1>1, <2>1, <1>4, PthPlaceIs DEF T!ExitAt
<1>5. CASE program = "cleanup"
  <2>1. Len(T!Main) = 6
    BY <1>5, PthMainOfCleanup
  <2>2. mpc >= 6
    BY <1>1, <2>1
  <2>3. T!CleanupAt
    BY <1>5, PthPlaceIs
  <2>4. T!Joined(1) /\ T!Joined(2)
    BY <2>2, <2>3 DEF T!CleanupAt
  <2>5. T!Own = 1 .. 2
    BY <1>5, PthOwnIs
  <2>6. \A t \in T!Tids : t = 1 \/ t = 2 \/ t \notin T!Own
    BY <2>5 DEF T!Tids
  <2> QED
    BY <1>2, <2>4, <2>6 DEF T!Joined
<1>6. CASE program = "identification"
  <2>1. Len(T!Main) = 3
    BY <1>6, PthMainOfOthers
  <2>2. mpc > 3 /\ T!SleepAt
    BY <1>1, <1>6, <2>1, PthPlaceIs
  <2>3. ~prompt \/ T!Joined(1)
    BY <2>2 DEF T!SleepAt, T!Slept
  <2>4. T!Own = {1}
    BY <1>6, PthOwnIs
  <2> QED
    BY <1>2, <1>6, <2>3, <2>4 DEF T!Joined
<1>7. CASE program = "timedlock"
  <2>1. T!Own = {}
    BY <1>7, PthOwnIs
  <2> QED
    BY <1>2, <2>1
<1> QED
  BY <1>3, <1>4, <1>5, <1>6, <1>7

\* A line has its place among those of its thread.
LEMMA PthCountUpTo ==
  ASSUME NEW s, NEW t, NEW k \in Nat, NEW j \in 1 .. k, s[j].by = t
  PROVE  T!Count(s, t, k) \in Nat /\ T!Count(s, t, j) \in 1 .. T!Count(s, t, k)
<1> DEFINE P == {i \in 1 .. j : s[i].by = t}
           Q == {i \in 1 .. k : s[i].by = t}
<1>1. IsFiniteSet(1 .. k)
  BY FS_Interval
<1>2. IsFiniteSet(Q) /\ Q \subseteq 1 .. k
  BY <1>1, FS_Subset
<1>3. P \subseteq Q /\ j \in P
  OBVIOUS
<1>4. IsFiniteSet(P) /\ Cardinality(P) =< Cardinality(Q)
  BY <1>2, <1>3, FS_Subset
<1>5. Cardinality(P) \in Nat /\ Cardinality(Q) \in Nat /\ Cardinality(P) # 0
  BY <1>2, <1>3, <1>4, FS_CardinalityType, FS_EmptySet
<1>6. T!Count(s, t, j) = Cardinality(P) /\ T!Count(s, t, k) = Cardinality(Q)
  BY PthCountOf
<1> HIDE DEF P, Q
<1> QED
  BY <1>4, <1>5, <1>6

\* After the end of a thread is shown, all its lines are there.
LEMMA PthAllShown ==
  ASSUME NEW s, NEW n \in Nat, NEW k \in 1 .. n, NEW t, \A j \in k + 1 .. n : s[j].by # t
  PROVE  T!Count(s, t, k) = T!Count(s, t, n)
<1>1. {i \in 1 .. k : s[i].by = t} = {i \in 1 .. n : s[i].by = t}
  OBVIOUS
<1> QED
  BY <1>1 DEF T!Count

\* What a thread has written when it has ended.
LEMMA PthWrittenOf ==
  ASSUME T!IInv, NEW t \in 1 .. 3, t \in T!Own, T!Joined(t), program \in {"exit", "cleanup"}
  PROVE  LET w == T!Written(thread[t])
         IN  \/ program = "exit" /\ w = 1
             \/ program = "exit" /\ w = 0 /\ t = 3
             \/ program = "cleanup" /\ w = 4
             \/ program = "cleanup" /\ w = 2 /\ t = 1
<1> DEFINE th == thread[t]
<1>1. t \in T!Tids /\ t # 4
  BY DEF T!Tids
<1>2. th \in T!ThreadStates /\ T!AtCall(t, th)
  BY <1>1, PthThreadIs
<1>3. th.phase \in T!Left /\ th.phase = "ended"
  BY DEF T!Joined, T!Left
<1>4. CASE program = "exit"
  <2>1. T!Written(th) = th.pc - 1
    BY <1>4, PthWrittenIs
  <2>2. th.pc \in 1 .. 2 /\ (t # 3 => th.pc = 2)
    BY <1>2, <1>3, <1>4 DEF T!AtCall
  <2> QED
    BY <1>4, <2>1, <2>2
<1>5. CASE program = "cleanup"
  <2>1. th.pc = 5 /\ th.pushed # T!Stack(1) /\ (t # 1 => th.pushed = T!Stack(0))
    BY <1>2, <1>3, <1>5 DEF T!AtCall
  <2>2. th.pushed = T!Stack(0) \/ (th.pushed = T!Stack(2) /\ t = 1)
    BY <1>2, <2>1 DEF T!ThreadStates, T!Stacks
  <2>3. /\ th.pushed = T!Stack(2) => T!Written(th) = 2
        /\ th.pushed = T!Stack(0) => T!Written(th) = 4
    BY <1>3, <1>5, <2>1, PthWrittenLeft
  <2> QED
    BY <1>5, <2>2, <2>3
<1> QED
  BY <1>4, <1>5

\* The lines of OutputOf are the first of AllLines.
LEMMA PthOutputIs ==
  ASSUME NEW t \in 1 .. 3, NEW w,
         \/ program = "exit" /\ w = 1
         \/ program = "exit" /\ w = 0 /\ t = 3
         \/ program = "cleanup" /\ t \in 1 .. 2 /\ w = 4
         \/ program = "cleanup" /\ w = 2 /\ t = 1
  PROVE  \E those \in T!OutputOf(t) : /\ Len(those) = w
                                      /\ \A c \in 1 .. w : those[c] = T!AllLines(t)[c]
<1>1. CASE program = "exit" /\ w = 1
  <2>1. T!Says(t) \in T!OutputOf(t)
    BY <1>1 DEF T!OutputOf
  <2>2. Len(T!Says(t)) = 1 /\ T!Says(t)[1] = T!Line(t, "say", 1, 0)
    BY <1>1 DEF T!Says
  <2>3. \A c \in 1 .. 1 : c = 1
    OBVIOUS
  <2> QED
    BY <1>1, <2>1, <2>2, <2>3, PthAllLinesAre
<1>2. CASE program = "exit" /\ w = 0 /\ t = 3
  <2>1. <<>> \in T!OutputOf(t)
    BY <1>2 DEF T!OutputOf
  <2>2. Len(<<>>) = 0 /\ 1 .. 0 = {}
    OBVIOUS
  <2> QED
    BY <1>2, <2>1, <2>2
<1>3. CASE program = "cleanup" /\ t \in 1 .. 2 /\ w = 4
  <2>1. T!AllLines(t) \in T!OutputOf(t)
    <3>1. t = 1 \/ t = 2
      BY <1>3
    <3> QED
      BY <1>3, <3>1 DEF T!OutputOf
  <2>2. Len(T!AllLines(t)) = 4
    BY DEF T!AllLines
  <2> QED
    BY <1>3, <2>1, <2>2
<1>4. CASE program = "cleanup" /\ w = 2 /\ t = 1
  <2>1. T!Says(t) \in T!OutputOf(t)
    BY <1>4 DEF T!OutputOf
  <2>2. /\ Len(T!Says(t)) = 2 /\ T!Says(t)[1] = T!Line(t, "say", 1, 0)
        /\ T!Says(t)[2] = T!Line(t, "say", 2, 0)
    BY <1>4 DEF T!Says
  <2>3. \A c \in 1 .. 2 : c = 1 \/ c = 2
    OBVIOUS
  <2> QED
    BY <1>4, <2>1, <2>2, <2>3, PthAllLinesAre
<1> QED
  BY <1>1, <1>2, <1>3, <1>4

LEMMA PthJoinsFollow == T!IInv => T!JoinsRight
<1> SUFFICES ASSUME T!IInv PROVE T!JoinsRight
  OBVIOUS
<1> DEFINE n == Len(out)
<1>1. out \in Seq(T!Lines) /\ n \in Nat /\ DOMAIN out = 1 .. n
  <2>1. out \in Seq(T!Lines)
    BY DEF T!IInv, T!TypeOK
  <2> QED
    BY <2>1, LenProperties
<1> SUFFICES ASSUME NEW k \in 1 .. n, T!IsCode(out[k])
             PROVE  LET t == out[k].arg
                    IN  /\ t # 4
                        /\ out[k].value = IF t = 3 THEN T!CANCELED ELSE t
                        /\ \E those \in T!OutputOf(t) : T!Wrote(t, k, those)
                        /\ \A j \in k + 1 .. n : out[j].by # t
  BY <1>1 DEF T!JoinsRight, T!IsCode
<1>2. T!Ends(out[k])
  BY DEF T!IInv, T!Shown
<1>3. PICK t \in 1 .. 3 : t = out[k].arg
  BY <1>2 DEF T!Ends
<1>4. program \in {"exit", "cleanup"} /\ t \in T!Own /\ T!Joined(t) /\ out[k].value = T!Code(t)
  BY <1>2, <1>3 DEF T!Ends
<1>5. t \in T!Tids /\ t # 4
  BY DEF T!Tids
<1>6. out[k].value = IF t = 3 THEN T!CANCELED ELSE t
  BY <1>4 DEF T!Code
<1>7. \A j \in k + 1 .. n : out[j].by # t
  BY <1>3 DEF T!IInv, T!Shown, T!Apart
<1>8. PICK w : w = T!Written(thread[t])
  OBVIOUS
<1>9. T!FirstOf(out, t, w)
  BY <1>4, <1>5, <1>8 DEF T!IInv, T!InOrder
<1>10. T!Count(out, t, k) = w
  <2>1. T!Count(out, t, n) = w
    BY <1>9 DEF T!FirstOf
  <2>2. T!Count(out, t, k) = T!Count(out, t, n)
    BY <1>1, <1>7, PthAllShown
  <2> QED
    BY <2>1, <2>2
<1>11. PICK those \in T!OutputOf(t) : /\ Len(those) = w
                                      /\ \A c \in 1 .. w : those[c] = T!AllLines(t)[c]
  <2>1. \/ program = "exit" /\ w = 1
        \/ program = "exit" /\ w = 0 /\ t = 3
        \/ program = "cleanup" /\ w = 4
        \/ program = "cleanup" /\ w = 2 /\ t = 1
    BY <1>4, <1>5, <1>8, PthWrittenOf
  <2>2. program = "cleanup" => t \in 1 .. 2
    BY <1>4, PthOwnIs
  <2>3. \/ program = "exit" /\ w = 1
        \/ program = "exit" /\ w = 0 /\ t = 3
        \/ program = "cleanup" /\ t \in 1 .. 2 /\ w = 4
        \/ program = "cleanup" /\ w = 2 /\ t = 1
    BY <2>1, <2>2
  <2> QED
    BY <1>5, <2>3, PthOutputIs
<1>12. ASSUME NEW j \in 1 .. k, out[j].by = t
       PROVE  out[j] = those[T!Count(out, t, j)]
  <2>1. k \in Nat /\ j \in 1 .. n
    BY <1>1
  <2>2. T!Count(out, t, j) \in 1 .. w
    BY <1>10, <1>12, <2>1, PthCountUpTo
  <2>3. out[j] = T!AllLines(t)[T!Count(out, t, j)]
    BY <1>9, <1>12, <2>1 DEF T!FirstOf
  <2> QED
    BY <1>11, <2>2, <2>3
<1>13. T!Wrote(t, k, those)
  BY <1>10, <1>11, <1>12 DEF T!Wrote
<1> QED
  BY <1>3, <1>5, <1>6, <1>7, <1>11, <1>13

---------------------------------------------------------------------------
(* The composition: only one of the programs runs, and it does what its    *)
(* own module says.                                                        *)

\* The operators of N and NP are the same.
LEMMA NiceInit == N!Init => NP!Init
  BY DEF
     N!Init, N!Clamp, N!Procs, NP!Init, NP!Clamp, NP!Procs

LEMMA NiceNext == N!Next => NP!Next
  BY DEF
     N!Next, N!ParentStep, N!ChildStep, N!SetEnd, N!Fork, N!Refused, N!Nice,
     N!Count, N!Over, N!Checktime, N!GetPriority, N!Set, N!SetPriority,
     N!Renice, N!Running, N!Looping, N!Wrap, N!Tick, N!Ended, N!Goto, N!Clamp,
     N!Sec, N!Usec, N!Procs, N!Ends, N!clock, N!vars, NP!Next, NP!ParentStep,
     NP!ChildStep, NP!SetEnd, NP!Fork, NP!Refused, NP!Nice, NP!Count, NP!Over,
     NP!Checktime, NP!GetPriority, NP!Set, NP!SetPriority, NP!Renice,
     NP!Running, NP!Looping, NP!Wrap, NP!Tick, NP!Ended, NP!Goto, NP!Clamp,
     NP!Sec, NP!Usec, NP!Procs, NP!Ends, NP!clock, NP!vars

LEMMA NiceProps == /\ NP!EndsOnTime => N!EndsOnTime
                   /\ NP!NiceShown => N!NiceShown
  BY DEF N!EndsOnTime, N!NiceShown, N!Asked, N!Reniced, N!Refused, N!Clamp, N!Procs,
         NP!EndsOnTime, NP!NiceShown, NP!Asked, NP!Reniced, NP!Refused, NP!Clamp, NP!Procs

LEMMA ChldStart == Init /\ IsChld => H!Init
  BY DEF Init, IsChld, T!Init, T!Programs, N!Init, C!Init, C!Programs, S!Init, S!Programs

LEMMA ThreadsStart == Init /\ IsThreads => T!Init
  BY DEF Init, IsThreads, T!Programs, H!Init, N!Init, C!Init, C!Programs, S!Init, S!Programs

LEMMA NiceStart == Init /\ IsNice => NP!Init
<1>1. Init /\ IsNice => N!Init
  BY DEF Init, IsNice, H!Init, T!Init, T!Programs, C!Init, C!Programs, S!Init, S!Programs
<1> QED
  BY <1>1, NiceInit

LEMMA CommandStart == Init /\ IsCommand => C!Init
  BY DEF Init, IsCommand, H!Init, T!Init, T!Programs, N!Init, C!Programs, S!Init, S!Programs

LEMMA AccountStart == Init /\ IsAccount => A!Init
  BY DEF Init, IsAccount, H!Init, T!Init, T!Programs, N!Init, C!Init, C!Programs, S!Init,
     S!Programs

LEMMA StreamsStart == Init /\ IsStreams => S!Init
  BY DEF Init, IsStreams, H!Init, T!Init, T!Programs, N!Init, C!Init, C!Programs, S!Programs

\* The programs are different.
LEMMA OneProgram ==
  /\ IsChld => ~IsThreads /\ ~IsNice /\ ~IsCommand /\ ~IsAccount /\ ~IsStreams
  /\ IsThreads => ~IsChld /\ ~IsNice /\ ~IsCommand /\ ~IsAccount /\ ~IsStreams
  /\ IsNice => ~IsChld /\ ~IsThreads /\ ~IsCommand /\ ~IsAccount /\ ~IsStreams
  /\ IsCommand => ~IsChld /\ ~IsThreads /\ ~IsNice /\ ~IsAccount /\ ~IsStreams
  /\ IsAccount => ~IsChld /\ ~IsThreads /\ ~IsNice /\ ~IsCommand /\ ~IsStreams
  /\ IsStreams => ~IsChld /\ ~IsThreads /\ ~IsNice /\ ~IsCommand /\ ~IsAccount
BY DEF IsChld, IsThreads, IsNice, IsCommand, IsAccount, IsStreams,
       T!Programs, C!Programs, S!Programs

\* Every step of the composition that is one of sigchld.c or waitid.c.
LEMMA ChldStep == ASSUME IsChld, [Next]_vars PROVE [H!Next]_(H!vars)
<1>1. Next => H!Next \/ UNCHANGED vars
  BY OneProgram DEF Next, MainStep, HandlerStep, OtherStep, Tick, Environment, Terminated,
     Chld, Thr, Nice, Cmd, Acct, Str, H!Next
<1>2. UNCHANGED vars => UNCHANGED H!vars
  BY DEF vars, chldvars, H!vars, H!kernel, H!handler, H!verdicts
<1> QED
  BY <1>1, <1>2

\* Every step of the composition that is one of a program of threads/.
LEMMA ThreadsStep == ASSUME IsThreads, [Next]_vars PROVE [T!Next]_(T!vars)
<1>1. Next => T!MainStep \/ (\E t \in T!Tids : T!ThreadStep(t)) \/ UNCHANGED vars
  BY OneProgram DEF Next, MainStep, HandlerStep, OtherStep, Tick, Environment, Terminated,
     Chld, Thr, Nice, Cmd, Acct, Str
<1>2. UNCHANGED vars => UNCHANGED T!vars
  BY DEF vars, thrvars, T!vars, T!mainvars
<1> QED
  BY <1>1, <1>2 DEF T!Next

\* Every step of the composition that is one of nice_influence.c or setpriority.c.
LEMMA NiceStep == ASSUME IsNice, [Next]_vars PROVE [NP!Next]_(NP!vars)
<1>1. Next => N!Next \/ UNCHANGED vars
  BY OneProgram DEF Next, MainStep, HandlerStep, OtherStep, Tick, Environment, Terminated,
     Chld, Thr, Nice, Cmd, Acct, Str, N!Next
<1>2. UNCHANGED vars => UNCHANGED NP!vars
  BY DEF vars, nicevars, NP!vars, NP!clock
<1> QED
  BY <1>1, <1>2, NiceNext

\* Every step of the composition that is one of a program that runs commands.
LEMMA CommandStep == ASSUME IsCommand, [Next]_vars PROVE [C!Next]_(C!vars)
<1>1. Next => C!MainStep \/ C!ChildStep \/ UNCHANGED vars
  BY OneProgram DEF Next, MainStep, HandlerStep, OtherStep, Tick, Environment, Terminated,
     Chld, Thr, Nice, Cmd, Acct, Str
<1>2. UNCHANGED vars => UNCHANGED C!vars
  BY DEF vars, cmdvars, C!vars
<1> QED
  BY <1>1, <1>2 DEF C!Next

\* Every step of the composition that is one of the accounting programs.
LEMMA AccountStep == ASSUME IsAccount, [Next]_vars PROVE [A!Next]_(A!vars)
<1>1. Next => A!ChainStep \/ A!Show \/ A!ShowFails \/ A!Tick \/ UNCHANGED vars
  BY OneProgram DEF Next, MainStep, HandlerStep, OtherStep, Tick, Environment, Terminated,
     Chld, Thr, Nice, Cmd, Acct, Str
<1>2. UNCHANGED vars => UNCHANGED A!vars
  BY DEF vars, acctvars, A!vars, A!conf
<1> QED
  BY <1>1, <1>2 DEF A!Next

\* Every step of the composition that is one of exit.c or fdopen.c.
StrNext == S!MainStep \/ S!OtherAppends \/ S!Kill

LEMMA StreamsStep ==
  ASSUME IsStreams, [Next]_vars PROVE [StrNext]_<<program, mpc, S!streams>>
<1>1. Next => StrNext \/ UNCHANGED vars
  BY OneProgram DEF Next, MainStep, HandlerStep, OtherStep, Tick, Environment, Terminated,
     Chld, Thr, Nice, Cmd, Acct, Str, StrNext
<1>2. UNCHANGED vars => UNCHANGED <<program, mpc, S!streams>>
  BY DEF vars, strvars, S!streams
<1> QED
  BY <1>1, <1>2

\* No step exchanges the program.
LEMMA SameProgram == ASSUME [Next]_vars PROVE program' = program
<1>1. H!Next => program' = program
  BY DEF H!Next, H!MainStep, H!HandlerStep, H!Terminated, H!SetIgnore, H!ForkKid,
     H!WaitKid, H!WaitEnd, H!SetDefault, H!ForkLast, H!Waitid, H!SetHandler,
     H!WaitLast, H!Deliver, H!HandlerWait, H!Return, H!ChildEnd, H!kernel, H!vars
<1>2. T!MainStep \/ (\E t \in T!Tids : T!ThreadStep(t)) => program' = program
  BY DEF T!MainStep, T!Create, T!Join, T!PrintCode, T!Cancel, T!PrintIds, T!Lock,
     T!Timedlock, T!Sleep, T!Return, T!Go, T!Fail, T!MainCalls,
     T!ThreadStep, T!Say, T!CleanupPush, T!ReturnFrom, T!PthreadExit, T!Canceled,
     T!Unwind, T!Calls
<1>3. NP!Next => program' = program
  BY DEF NP!Next, NP!ParentStep, NP!ChildStep, NP!SetEnd, NP!Fork, NP!Nice, NP!Count,
     NP!Checktime, NP!GetPriority, NP!Set, NP!SetPriority, NP!Renice, NP!Tick, NP!Goto, NP!vars
<1>4. C!MainStep \/ C!ChildStep => program' = program
  BY DEF C!MainStep, C!Fork, C!Return, C!Waitpid, C!WaitFails, C!PrintStatus, C!TimesFail, C!MainGoto,
     C!ChildStep, C!ExecShell, C!ExecProgram, C!Exec, C!CommandEnds, C!Ends
<1>5. S!MainStep \/ S!OtherAppends \/ S!Kill => program' = program
  BY DEF S!MainStep, S!RunHandler, S!Flush, S!Fopen, S!Fprintf, S!End, S!Open, S!Tell, S!TellFails,
     S!Fdopen, S!Write, S!OtherAppends, S!Kill
<1>6. CASE IsChld
  <2>1. [H!Next]_(H!vars)
    BY <1>6, ChldStep
  <2> QED
    BY <2>1, <1>1 DEF H!vars, H!kernel
<1>7. CASE IsNice
  <2>1. [NP!Next]_(NP!vars)
    BY <1>7, NiceStep
  <2> QED
    BY <2>1, <1>3 DEF NP!vars
<1>8. CASE ~IsChld /\ ~IsNice
  <2>1. Next => UNCHANGED program
    BY <1>2, <1>4, <1>5, <1>8 DEF Next, MainStep, HandlerStep, OtherStep, Tick,
       Environment, Terminated, Chld, Thr, Nice, Cmd, Acct, Str, vars
  <2> QED
    BY <2>1 DEF vars
<1> QED
  BY <1>6, <1>7, <1>8

---------------------------------------------------------------------------
\* A behaviour of the composition in which sigchld.c or waitid.c runs is one of
\* SigChld, and so it is for NiceInfluence, Commands and Accounting.
LEMMA ChldImplements == Spec => [](~IsChld) \/ (H!Spec /\ []IsChld)
<1>1. ~IsChld /\ [Next]_vars => ~IsChld'
  BY SameProgram DEF IsChld
<1>2. IsChld /\ [Next]_vars => IsChld' /\ [H!Next]_(H!vars)
  BY SameProgram, ChldStep DEF IsChld
<1> QED
  BY <1>1, <1>2, ChldStart, PTL DEF Spec, H!Spec

LEMMA NiceImplements == Spec => [](~IsNice) \/ (NP!Spec /\ []IsNice)
<1>1. ~IsNice /\ [Next]_vars => ~IsNice'
  BY SameProgram DEF IsNice
<1>2. IsNice /\ [Next]_vars => IsNice' /\ [NP!Next]_(NP!vars)
  BY SameProgram, NiceStep DEF IsNice
<1> QED
  BY <1>1, <1>2, NiceStart, PTL DEF Spec, NP!Spec

LEMMA CommandImplements == Spec => [](~IsCommand) \/ (C!Spec /\ []IsCommand)
<1>1. ~IsCommand /\ [Next]_vars => ~IsCommand'
  BY SameProgram DEF IsCommand
<1>2. IsCommand /\ [Next]_vars => IsCommand' /\ [C!Next]_(C!vars)
  BY SameProgram, CommandStep DEF IsCommand
<1> QED
  BY <1>1, <1>2, CommandStart, PTL DEF Spec, C!Spec

LEMMA AccountImplements == Spec => [](~IsAccount) \/ (A!Spec /\ []IsAccount)
<1>1. ~IsAccount /\ [Next]_vars => ~IsAccount'
  BY SameProgram DEF IsAccount
<1>2. IsAccount /\ [Next]_vars => IsAccount' /\ [A!Next]_(A!vars)
  BY SameProgram, AccountStep DEF IsAccount
<1> QED
  BY <1>1, <1>2, AccountStart, PTL DEF Spec, A!Spec

\* Both lines that sigchld.c prints are right, and so is waitid.c (sigchld.c:61-73,
\* 98-107, waitid.c:28-37), for any number of children.
THEOREM VerdictsRight == Spec => []ChldVerdictsRight
<1>1. H!Spec => []H!IInv
  BY SizesAssumption, ChldInductive
<1>2. H!IInv => ChldVerdictsRight
  BY DEF ChldVerdictsRight, H!IInv
<1>3. ~IsChld => ChldVerdictsRight
  BY DEF ChldVerdictsRight
<1> QED
  BY <1>1, <1>2, <1>3, ChldImplements, PTL

\* The sizes that Processes assumes of N are those of NP.
LEMMA SameSizes == NP!Sizes
  BY NiceSizes DEF N!Sizes, NP!Sizes

\* Nobody stops before the deadline of nice_influence.c, and who looks at the
\* time in every tick stops at it (nice_influence.c:25).
THEOREM DeadlineKept == Spec => []EndsOnTime
<1>1. NP!Spec => []NP!EndsOnTime
  BY SameSizes, NP!Deadline
<1>2. NP!EndsOnTime => EndsOnTime
  BY NiceProps DEF EndsOnTime
<1>3. ~IsNice => EndsOnTime
  BY DEF EndsOnTime
<1> QED
  BY <1>1, <1>2, <1>3, NiceImplements, PTL

\* The nice values that nice_influence.c prints are the kernel's (61-65).  The one
\* that setpriority.c asks for is what the kernel then has, cut off at 19 (18-22,
\* 31-35), and the last one that it prints is the kernel's (38-42); nothing is said
\* of the time after line 12 or 25, in which somebody else may set another one.
THEOREM ShownRight == Spec => []NiceShown
<1>1. NP!Spec => []NP!NiceShown
  BY SameSizes, NP!Shown
<1>2. NP!NiceShown => NiceShown
  BY NiceProps DEF NiceShown
<1>3. ~IsNice => NiceShown
  BY DEF NiceShown
<1> QED
  BY <1>1, <1>2, <1>3, NiceImplements, PTL

\* Each line of pr_exit tells how its command ended (system.c:40, 48, 59-71,
\* process_times.c:34-45).
THEOREM StatusToldRight == Spec => []StatusTold
<1>1. C!Spec => []C!IInv
  BY CommandSizes, CmdInductive
<1>2. C!IInv => StatusTold
  BY DEF StatusTold, C!IInv
<1>3. ~IsCommand => StatusTold
  BY DEF StatusTold
<1> QED
  BY <1>1, <1>2, <1>3, CommandImplements, PTL

\* There is one accounting record for each process, and on an idle machine they come
\* in the order of the sleeps (test_process_account.c:15-43,
\* show_process_account.c:57-68).
THEOREM RecordsShown == Spec => []RecordsRight
<1>1. A!Spec => []A!IInv
  BY AcctInductive
<1>2. A!IInv => RecordsRight
  BY AcctRecordsFollow DEF RecordsRight
<1>3. ~IsAccount => RecordsRight
  BY DEF RecordsRight
<1> QED
  BY <1>1, <1>2, <1>3, AccountImplements, PTL

\* The inductive invariant of exit.c and fdopen.c: what has been printed is in one
\* place, in the order of the calls, and others' records stay in the file until
\* something is written over its beginning (exit.c:14-45, fdopen.c:27-60).
StreamsKept == IsStreams => S!IInv

THEOREM StreamsInductive == Spec => []StreamsKept
<1>1. Init => StreamsKept
  BY StreamsStart, StrInitIInv DEF StreamsKept
<1>2. StreamsKept /\ [Next]_vars => StreamsKept'
  <2> SUFFICES ASSUME StreamsKept, [Next]_vars, IsStreams' PROVE S!IInv'
    BY DEF StreamsKept
  <2>1. IsStreams
    BY SameProgram DEF IsStreams
  <2>2. S!IInv /\ [S!MainStep \/ S!OtherAppends \/ S!Kill]_<<program, mpc, S!streams>>
    BY <2>1, StreamsStep DEF StreamsKept, StrNext
  <2> QED
    BY <2>2, StrNextIInv
<1> QED
  BY <1>1, <1>2, PTL DEF Spec

\* Who ends through exit has shown what main and the handlers print, and who ends
\* through _exit has lost what was in the buffers (exit.c:25-45).
THEOREM ExitShownRight == Spec => []ExitShown
<1>1. StreamsKept => ExitShown
  BY DEF StreamsKept, ExitShown, S!IInv
<1> QED
  BY <1>1, StreamsInductive, PTL

\* The write of fdopen.c goes where the line before it says, whatever others write
\* (fdopen.c:50-54).
THEOREM WriteGoesAsTold == Spec => []WriteAsTold
<1>1. StreamsKept => WriteAsTold
  BY StrWriteFollows DEF StreamsKept, WriteAsTold
<1> QED
  BY <1>1, StreamsInductive, PTL

\* The inductive invariant of the programs of threads/: where main and each thread are,
\* and that the lines of a thread are the first of those that it may write.
ThreadsKept == IsThreads => T!IInv

THEOREM ThreadsInductive == Spec => []ThreadsKept
<1>1. Init => ThreadsKept
  BY ThreadsStart, PthInitIInv DEF ThreadsKept
<1>2. ThreadsKept /\ [Next]_vars => ThreadsKept'
  <2> SUFFICES ASSUME ThreadsKept, [Next]_vars, IsThreads' PROVE T!IInv'
    BY DEF ThreadsKept
  <2>1. IsThreads
    BY SameProgram DEF IsThreads, T!Programs
  <2>2. T!IInv /\ [T!Next]_(T!vars)
    BY <2>1, ThreadsStep DEF ThreadsKept
  <2> QED
    BY <2>2, PthNextIInv
<1> QED
  BY <1>1, <1>2, PTL DEF Spec

\* What main prints of a thread is what the thread ended with, and all that the thread
\* wrote comes before (pthread_exit.c:66-87, pthread_cleanup.c:52-61).
THEOREM JoinsAreRight == Spec => []JoinsRight
<1>1. ThreadsKept => JoinsRight
  BY PthJoinsFollow DEF ThreadsKept, JoinsRight
<1> QED
  BY <1>1, ThreadsInductive, PTL

\* The return of main cuts no thread short, but for one that it waits for by sleeping,
\* on a busy machine (pthread_identification.c:36).
THEOREM NobodyCutShort == Spec => []NoneCutShort
<1>1. ThreadsKept => NoneCutShort
  BY PthCutShortFollows DEF ThreadsKept, NoneCutShort
<1> QED
  BY <1>1, ThreadsInductive, PTL
=============================================================================
