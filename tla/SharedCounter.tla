--------------------------- MODULE SharedCounter ---------------------------
(***************************************************************************)
(* advanced_io/mmap.c: a parent and its child each add one, nloop times,   *)
(* to an integer in an anonymous shared mapping, and print the value it    *)
(* had.  A POSIX semaphore, opened by name and unlinked at once, guards    *)
(* the increment.  Loading the integer, storing it and printing are        *)
(* separate steps, because they are separate in each process.              *)
(*                                                                         *)
(* External: sem_open, sem_wait, sem_post and sem_unlink, and a signal     *)
(* that kills a process at any point (the program catches none).           *)
(***************************************************************************)
EXTENDS Naturals, Sequences

CONSTANT NLoop     \* argv[1]: the iterations of each process

ASSUME NLoopAssumption == NLoop \in Nat

Procs == {"parent", "child"}

VARIABLES
  boot,     \* where main is before fork, "forked" after it
  name,     \* does the name "/mysem" exist in the system?
  sem,      \* the value of the semaphore
  ptr,      \* the shared integer that ptr points to
  pc,       \* pc[p]: where p is in its loop
  i,        \* i[p]: p's loop counter
  reg,      \* reg[p]: the value p last loaded from *ptr
  printed,  \* what was written to the unbuffered standard output
  killed    \* the processes a signal has killed

setup == <<boot, name>>
vars == <<boot, name, sem, ptr, pc, i, reg, printed, killed>>

Boots == {"sem_open", "sem_unlink", "fork", "forked", "exit1", "killed"}
Pcs   == {"unborn", "loop", "load", "store", "print", "post", "exit"}

\* The steps between sem_wait and sem_post.
InCS(p) == pc[p] \in {"load", "store", "print", "post"}

\* A stale "/mysem" may be there: an earlier run was killed before it unlinked.
Init == /\ boot = "sem_open"
        /\ name \in BOOLEAN
        /\ sem = 0
        /\ ptr = 0
        /\ pc = [p \in Procs |-> "unborn"]
        /\ i = [p \in Procs |-> 0]
        /\ reg = [p \in Procs |-> 0]
        /\ printed = <<>>
        /\ killed = {}

---------------------------------------------------------------------------
\* main, before the fork; exit1 is exit(1), killed by a signal.

\* sem_open(SEM_NAME, O_CREAT | O_EXCL, 0644, 1): fails if the name exists.
SemOpen == /\ boot = "sem_open"
           /\ \/ /\ name
                 /\ boot' = "exit1"
                 /\ UNCHANGED <<name, sem>>
              \/ /\ ~name
                 /\ boot' = "sem_unlink"
                 /\ name' = TRUE
                 /\ sem' = 1
           /\ UNCHANGED <<ptr, pc, i, reg, printed, killed>>

SemUnlink == /\ boot = "sem_unlink"
             /\ boot' = "fork"
             /\ name' = FALSE
             /\ UNCHANGED <<sem, ptr, pc, i, reg, printed, killed>>

\* fork() may fail, and then main exits.
Fork == /\ boot = "fork"
        /\ \/ /\ boot' = "exit1"
              /\ pc' = pc
           \/ /\ boot' = "forked"
              /\ pc' = [p \in Procs |-> "loop"]
        /\ UNCHANGED <<name, sem, ptr, i, reg, printed, killed>>

---------------------------------------------------------------------------
\* The loop that parent and child both run.

Goto(p, from, to) == /\ p \notin killed
                     /\ pc[p] = from
                     /\ pc' = [pc EXCEPT ![p] = to]

\* Mutant: one iteration too many.
LoopingPast(p) == i[p] =< NLoop

\* The test of the for loop.
Looping(p) == i[p] < NLoop

\* Mutant: the increment is not guarded.
NoSemWait(p) == /\ Looping(p)
                /\ Goto(p, "loop", "load")
                /\ UNCHANGED <<setup, sem, ptr, i, reg, printed, killed>>

\* sem_wait blocks while the semaphore is 0.
SemWait(p) == /\ Looping(p)
              /\ Goto(p, "loop", "load")
              /\ sem > 0
              /\ sem' = sem - 1
              /\ UNCHANGED <<setup, ptr, i, reg, printed, killed>>

\* (*ptr)++ is a load and a store; its value is what was loaded.
Load(p) == /\ Goto(p, "load", "store")
           /\ reg' = [reg EXCEPT ![p] = ptr]
           /\ UNCHANGED <<setup, sem, ptr, i, printed, killed>>

Store(p) == /\ Goto(p, "store", "print")
            /\ ptr' = reg[p] + 1
            /\ UNCHANGED <<setup, sem, i, reg, printed, killed>>

\* Mutant: ++(*ptr), the value after the increment.
PrintAfter(p) == /\ Goto(p, "print", "post")
                 /\ printed' = Append(printed, [by |-> p, val |-> ptr])
                 /\ UNCHANGED <<setup, sem, ptr, i, reg, killed>>

\* Standard output is unbuffered, so that printf is one write.
Printf(p) == /\ Goto(p, "print", "post")
             /\ printed' = Append(printed, [by |-> p, val |-> reg[p]])
             /\ UNCHANGED <<setup, sem, ptr, i, reg, killed>>

\* Mutant: the last iteration leaves the loop with the semaphore taken.
BreakBeforePost(p) == /\ Goto(p, "post", "loop")
                      /\ sem' = IF i[p] + 1 = NLoop THEN sem ELSE sem + 1
                      /\ i' = [i EXCEPT ![p] = @ + 1]
                      /\ UNCHANGED <<setup, ptr, reg, printed, killed>>

SemPost(p) == /\ Goto(p, "post", "loop")
              /\ sem' = sem + 1
              /\ i' = [i EXCEPT ![p] = @ + 1]
              /\ UNCHANGED <<setup, ptr, reg, printed, killed>>

\* The loop ends and main returns; nobody waits for the other process.
Exit(p) == /\ ~Looping(p)
           /\ Goto(p, "loop", "exit")
           /\ UNCHANGED <<setup, sem, ptr, i, reg, printed, killed>>

---------------------------------------------------------------------------
\* External: a signal kills one of the processes, wherever it is.

KillMain == /\ boot \in {"sem_open", "sem_unlink", "fork"}
            /\ boot' = "killed"
            /\ UNCHANGED <<name, sem, ptr, pc, i, reg, printed, killed>>

Kill(p) == /\ boot = "forked"
           /\ pc[p] # "exit"
           /\ p \notin killed
           /\ killed' = killed \cup {p}
           /\ UNCHANGED <<setup, sem, ptr, pc, i, reg, printed>>

---------------------------------------------------------------------------
\* Every process has ended.
Done == \/ boot \in {"exit1", "killed"}
        \/ boot = "forked" /\ \A p \in Procs : pc[p] = "exit" \/ p \in killed

\* A process was killed while it held the semaphore, which nobody will post.
Orphaned == \E p \in killed : InCS(p)

\* Nothing more happens: everybody has ended, or waits for a killed process.
Terminated == /\ Done \/ Orphaned
              /\ UNCHANGED vars

MainStep == SemOpen \/ SemUnlink \/ Fork

Step(p) == \/ SemWait(p) \/ Load(p) \/ Store(p) \/ Printf(p) \/ SemPost(p)
           \/ Exit(p)

Next == \/ MainStep
        \/ \E p \in Procs : Step(p) \/ Kill(p)
        \/ KillMain
        \/ Terminated

Spec == Init /\ [][Next]_vars

\* The scheduler runs every process that can run.
FairSpec == Spec /\ WF_vars(MainStep) /\ \A p \in Procs : WF_vars(Step(p))

---------------------------------------------------------------------------
(* Properties *)

\* The numbers p has taken: a completed Printf counts before i is incremented.
Taken(p) == IF pc[p] = "post" THEN i[p] + 1 ELSE i[p]

\* Every variable has its type; the semaphore is never above the value 1 that
\* sem_open gave it (mmap.c:35).
TypeOK == /\ boot \in Boots
          /\ name \in BOOLEAN
          /\ sem \in {0, 1}
          /\ ptr \in Nat
          /\ pc \in [Procs -> Pcs]
          /\ i \in [Procs -> Nat]
          /\ reg \in [Procs -> Nat]
          /\ printed \in Seq([by : Procs, val : Nat])
          /\ killed \subseteq Procs

\* Parent and child are never both between sem_wait and sem_post
\* (mmap.c:51-56, 63-68), not even when one of them has been killed there.
MutualExclusion == \A p, q \in Procs : InCS(p) /\ InCS(q) => p = q

\* When both processes have run to their end, the shared integer has been
\* incremented once for each iteration of each: no increment of mmap.c:55,67
\* was lost.
FinalCount == (\A p \in Procs : pc[p] = "exit") =>
                 ptr = 2 * NLoop /\ Len(printed) = 2 * NLoop

\* The numbers come out as if each process took the next one in one step: what
\* is printed at mmap.c:55,67 is 0, 1, 2, ... without a gap or a repetition,
\* wherever a process is killed.
Counter == INSTANCE AtomicCounter
             WITH out <- printed, taken <- [p \in Procs |-> Taken(p)]
Atomic == Counter!Spec

\* The inductive invariant.  The semaphore is taken whenever somebody is in the
\* critical section; the integer is the count of what was printed, except
\* between a store and its print; the loop counters account for every print.
SemHeld == \A p \in Procs : InCS(p) => sem = 0

PtrInStep == /\ (\A p \in Procs : pc[p] # "print") => ptr = Len(printed)
             /\ \A p \in Procs : pc[p] = "store" => reg[p] = ptr
             /\ \A p \in Procs : pc[p] = "print" => /\ reg[p] = Len(printed)
                                                   /\ ptr = Len(printed) + 1

PrintsCounted == Len(printed) = Taken("parent") + Taken("child")

LoopBounds == \A p \in Procs : /\ i[p] =< NLoop
                               /\ InCS(p) => i[p] < NLoop
                               /\ pc[p] = "exit" => i[p] = NLoop

NobodyBeforeFork == boot # "forked" => /\ pc = [p \in Procs |-> "unborn"]
                                       /\ i = [p \in Procs |-> 0]

IInv == /\ TypeOK /\ MutualExclusion /\ SemHeld /\ PtrInStep
        /\ PrintsCounted /\ LoopBounds /\ NobodyBeforeFork

\* Both processes end, unless one was killed between sem_wait and sem_post
\* (mmap.c:51-56, 63-68).
EventuallyDone == <>(Done \/ Orphaned)
=============================================================================
