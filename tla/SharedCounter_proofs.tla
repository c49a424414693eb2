------------------------ MODULE SharedCounter_proofs ------------------------
(***************************************************************************)
(* Proofs about SharedCounter, for every number of iterations.             *)
(***************************************************************************)
EXTENDS SharedCounter, TLAPS

\* The inductive invariant holds before main has done anything.
LEMMA InitIInv == Init => IInv
BY NLoopAssumption
   DEF Init, IInv, TypeOK, MutualExclusion, SemHeld, PtrInStep, PrintsCounted,
       LoopBounds, NobodyBeforeFork, Boots, Pcs, Procs, InCS, Taken

\* The steps of main, the kills and the stuttering keep the invariant.
LEMMA MainIInv ==
  ASSUME IInv, MainStep \/ KillMain \/ Terminated \/ UNCHANGED vars
         \/ \E p \in Procs : Kill(p)
  PROVE  IInv'
<1> USE NLoopAssumption
        DEF IInv, TypeOK, MutualExclusion, SemHeld, PtrInStep, PrintsCounted,
            LoopBounds, NobodyBeforeFork, Boots, Pcs, Procs, InCS, Taken
<1>1. CASE SemOpen
  BY <1>1 DEF SemOpen
<1>2. CASE SemUnlink
  BY <1>2 DEF SemUnlink
<1>3. CASE Fork
  BY <1>3 DEF Fork
<1>4. CASE KillMain
  BY <1>4 DEF KillMain
<1>5. CASE Terminated \/ UNCHANGED vars
  BY <1>5 DEF Terminated, vars
<1>6. CASE \E p \in Procs : Kill(p)
  BY <1>6 DEF Kill, setup
<1> QED
  BY <1>1, <1>2, <1>3, <1>4, <1>5, <1>6 DEF MainStep

\* A step of one of the processes keeps the invariant.
LEMMA StepIInv ==
  ASSUME IInv, NEW p \in Procs, Step(p)
  PROVE  IInv'
<1> USE NLoopAssumption
        DEF IInv, TypeOK, MutualExclusion, SemHeld, PtrInStep, PrintsCounted,
            LoopBounds, NobodyBeforeFork, Boots, Pcs, Procs, InCS, Taken,
            setup, Goto, Looping
<1>1. CASE SemWait(p)
  BY <1>1 DEF SemWait
<1>2. CASE Load(p)
  BY <1>2 DEF Load
<1>3. CASE Store(p)
  BY <1>3 DEF Store
<1>4. CASE Printf(p)
  BY <1>4 DEF Printf
<1>5. CASE SemPost(p)
  <2>1. TypeOK'
    BY <1>5 DEF SemPost
  <2>2. MutualExclusion' /\ SemHeld' /\ LoopBounds' /\ NobodyBeforeFork'
    BY <1>5 DEF SemPost
  <2>3. PtrInStep'
    BY <1>5 DEF SemPost
  <2>4. PrintsCounted'
    BY <1>5 DEF SemPost
  <2> QED
    BY <2>1, <2>2, <2>3, <2>4
<1>6. CASE Exit(p)
  BY <1>6 DEF Exit
<1> QED
  BY <1>1, <1>2, <1>3, <1>4, <1>5, <1>6 DEF Step

\* The inductive invariant holds in every reachable state.
THEOREM Inductive == Spec => []IInv
<1>1. IInv /\ [Next]_vars => IInv'
  BY MainIInv, StepIInv DEF Next
<1> QED
  BY InitIInv, <1>1, PTL DEF Spec

\* Every variable has its type, and the semaphore of mmap.c:35 stays at most 1.
THEOREM TypeCorrect == Spec => []TypeOK
<1>1. IInv => TypeOK
  BY DEF IInv
<1> QED
  BY Inductive, <1>1, PTL

\* Parent and child are never both between sem_wait and sem_post.
THEOREM Exclusion == Spec => []MutualExclusion
<1>1. IInv => MutualExclusion
  BY DEF IInv
<1> QED
  BY Inductive, <1>1, PTL

\* When both have run to their end, no increment has been lost.
THEOREM NoLostIncrement == Spec => []FinalCount
<1>1. IInv => FinalCount
  BY NLoopAssumption
     DEF IInv, TypeOK, PtrInStep, PrintsCounted, LoopBounds, FinalCount, Procs,
         Taken, Pcs
<1> QED
  BY Inductive, <1>1, PTL

\* Initially nothing is printed and nothing is taken.
LEMMA InitAtomic == Init => Counter!Init
BY DEF Init, Counter!Init, Taken, Procs

\* Printf takes the next number; every other step of a process is a stutter.
LEMMA StepAtomic ==
  ASSUME IInv, NEW p \in Procs, Step(p)
  PROVE  [Counter!Next]_Counter!absvars
<1> USE DEF IInv, TypeOK, Procs, Goto, setup, Taken, Counter!absvars
<1>1. CASE Printf(p)
  <2>1. Counter!Take(p)
    BY <1>1 DEF Printf, PtrInStep, LoopBounds, InCS, Counter!Take
  <2> QED
    BY <2>1 DEF Counter!Next
<1>2. CASE SemPost(p)
  BY <1>2 DEF SemPost
<1>3. CASE SemWait(p) \/ Load(p) \/ Store(p) \/ Exit(p)
  BY <1>3 DEF SemWait, Load, Store, Exit
<1> QED
  BY <1>1, <1>2, <1>3 DEF Step

\* The fork and everything before it, and every kill, is a stutter.
LEMMA MainAtomic ==
  ASSUME IInv, MainStep \/ KillMain \/ Terminated \/ UNCHANGED vars
         \/ \E p \in Procs : Kill(p)
  PROVE  UNCHANGED Counter!absvars
<1> USE DEF IInv, NobodyBeforeFork, Taken, Counter!absvars
<1>1. CASE Fork
  BY <1>1 DEF Fork, Procs
<1>2. CASE SemOpen \/ SemUnlink \/ KillMain \/ \E p \in Procs : Kill(p)
  BY <1>2 DEF SemOpen, SemUnlink, KillMain, Kill
<1>3. CASE Terminated \/ UNCHANGED vars
  BY <1>3 DEF Terminated, vars
<1> QED
  BY <1>1, <1>2, <1>3 DEF MainStep

\* What is printed is printed as if every process took the next number in one
\* indivisible step: the program implements AtomicCounter.
THEOREM Refinement == Spec => Atomic
<1>1. IInv /\ [Next]_vars => [Counter!Next]_Counter!absvars
  BY StepAtomic, MainAtomic DEF Next
<1> QED
  BY InitAtomic, Inductive, <1>1, PTL DEF Spec, Atomic, Counter!Spec
=============================================================================
