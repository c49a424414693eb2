----------------------------- MODULE FileLocks -----------------------------
(***************************************************************************)
(* The programs that lock a file, on the same file: some runs of           *)
(* record_lock.c (RecordLock) and one run of mandatory_lock.c              *)
(* (MandatoryLock).  They share the kernel's table of locks, and nothing   *)
(* else.                                                                   *)
(***************************************************************************)
EXTENDS FcntlLocks, Naturals

CONSTANTS Runs, Parent, Child

Users == Runs \cup {Parent, Child}

ASSUME UsersAssumption == /\ Parent \notin Runs /\ Child \notin Runs
                          /\ Parent # Child

VARIABLES locks,
          arg, pc, refused, said, killed,                    \* RecordLock
          mandatory, sgid, ppc, cpc, pipe, verdict, dead     \* MandatoryLock

record == <<arg, pc, refused, said, killed>>
pair   == <<mandatory, sgid, ppc, cpc, pipe, verdict, dead>>
vars   == <<locks, record, pair>>

R == INSTANCE RecordLock
M == INSTANCE MandatoryLock

Init == locks = NoLocks(Users) /\ R!InitRuns /\ M!InitPair

RecordStep == R!RunStep /\ UNCHANGED pair
PairStep   == M!Next /\ UNCHANGED record

Terminated == R!AllEnded /\ M!AllEnded /\ UNCHANGED vars

Next == RecordStep \/ PairStep \/ Terminated

Spec == Init /\ [][Next]_vars

\* The scheduler runs every process that can run, and F_SETLKW does not pass
\* over a process for which nothing conflicts any more.  Nothing makes it fail
\* for a process that waits.
FairSpec == /\ Spec
            /\ \A p \in Runs : WF_vars(R!Step(p) /\ UNCHANGED pair)
            /\ WF_vars(M!ParentStep /\ UNCHANGED record)
            /\ WF_vars(M!ChildStep /\ UNCHANGED record)

---------------------------------------------------------------------------
(* Properties *)

\* Every variable has its type.
TypeOK == R!TypeOK /\ M!TypeOK

\* Those that have locked the first byte, as they believe, and how.
Believes(p, type) ==
  \/ p \in Runs \ refused /\ R!Holding(p) /\ arg[p] = type
  \/ p = Parent /\ M!ParentHolds /\ type = "F_WRLCK"

\* Who has written "get write lock", or tells its child that the file is
\* locked, is alone with the file (record_lock.c:78-85, mandatory_lock.c:62-72)
\* unless the kernel refused the lock, which record_lock.c:78 does not notice.
Exclusive == \A p, q \in Users : \A type \in LockTypes :
               Believes(p, "F_WRLCK") /\ Believes(q, type) => p = q

\* While nobody has killed the parent, the child's read lock is refused, and
\* its verdict is right, whatever the other programs do with their locks
\* (mandatory_lock.c:91-106).
VerdictRight == M!VerdictRight

\* Every process ends: nobody waits in F_SETLKW for ever (record_lock.c:78),
\* for those that hold the lock let go of it in the end, by Unlock, by ending or
\* by being killed; and nobody in read or waitpid (mandatory_lock.c:69, 137),
\* except a child whose parent ended before it told it.
AllEnd == <>[](R!AllEnded /\ M!AllEnded)

---------------------------------------------------------------------------
(* The inductive invariant behind Exclusive and VerdictRight *)

\* The kernel's table excludes: who has a write lock on a byte is alone with it.
NoConflict == \A p, q \in Users : \A b \in Bytes :
                locks[p][b] = "F_WRLCK" /\ p # q => locks[q][b] = "F_UNLCK"

\* A run of record_lock that asks for a lock, or believes to have it, has an
\* argument; and if the kernel did not refuse it, it has the lock.
RunsHold == \A p \in Runs :
  /\ pc[p] = "setlkw" \/ R!Holding(p) => arg[p] \in LockTypes
  /\ R!Holding(p) /\ p \notin refused => locks[p][0] = arg[p]

\* So has the parent of mandatory_lock, on the whole file, until it ends.
ParentHolds == M!ParentHolds => \A b \in Bytes : locks[Parent][b] = "F_WRLCK"

\* The parent does one thing after the other, and its child waits for the byte.
BeforeFork == ppc \in {"open", "write", "fchmod", "pipe", "fork"}

Steps == /\ BeforeFork => cpc = "none"
         /\ ppc \in {"setlk", "tell"} => cpc \in {"wait", "ended"}
         /\ BeforeFork \/ ppc \in {"setlk", "tell"} => pipe = 0
         /\ ppc \in {"pipe", "fork", "setlk", "tell", "waitpid"} => sgid

\* While nobody has killed the parent, it waits for a child that was told.
Told == cpc \in {"setfl", "setlk", "read"} \/ (cpc = "wait" /\ pipe > 0)

ParentStays == Parent \notin dead /\ Told => ppc = "waitpid"

IInv == /\ TypeOK /\ NoConflict /\ RunsHold /\ ParentHolds
        /\ Steps /\ ParentStays /\ VerdictRight
=============================================================================
