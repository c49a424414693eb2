----------------------------- MODULE RecordLock -----------------------------
(***************************************************************************)
(* advanced_io/record_lock.c: each run of the program, Runs of them at the *)
(* same time, takes a read or a write lock on the first byte of the file,  *)
(* sleeps, unlocks, and prints when it got and when it released the lock.  *)
(*                                                                         *)
(* Lines 71-74 set l_start and l_len of `lock' where those of `unlock' are *)
(* meant: the range that line 85 unlocks is not initialised, and any.      *)
(***************************************************************************)
EXTENDS FcntlLocks

CONSTANTS Users,   \* the processes that have the file open
          Runs     \* those of them that run this program

VARIABLES
  locks,     \* the locks on the file, of all Users
  arg,       \* arg[p]: the lock type that argv[2] of p asks for, if any
  pc,        \* where p is
  refused,   \* those whose F_SETLKW failed, which line 78 does not notice
  said,      \* said[p]: the last line that p printed
  killed     \* those killed by a signal

vars == <<locks, arg, pc, refused, said, killed>>

Pcs == {"open", "setlkw", "print get", "sleep", "setlk", "print release",
        "return", "ended"}

InitRuns == /\ arg \in [Runs -> LockTypes \cup {"usage"}]
            /\ pc = [p \in Runs |-> "open"]
            /\ refused = {}
            /\ said = [p \in Runs |-> "nothing"]
            /\ killed = {}

Init == locks = NoLocks(Users) /\ InitRuns

Goto(p, from, to) == pc[p] = from /\ pc' = [pc EXCEPT ![p] = to]

\* open may fail; a wrong argv[2] is noticed after it.
Open(p) == /\ \/ arg[p] \in LockTypes /\ Goto(p, "open", "setlkw")
              \/ Goto(p, "open", "ended")
           /\ UNCHANGED <<locks, arg, refused, said, killed>>

\* Mutant: F_SETLK for F_SETLKW, whose failure nobody notices either.
SetLk(p) == /\ Goto(p, "setlkw", "print get")
            /\ locks' = IF Conflict(locks, p, arg[p], FirstByte) THEN locks
                        ELSE SetRange(locks, p, arg[p], FirstByte)
            /\ UNCHANGED <<arg, refused, said, killed>>

\* F_SETLKW waits while there is a conflict.
SetLkw(p) == /\ ~Conflict(locks, p, arg[p], FirstByte)
             /\ Goto(p, "setlkw", "print get")
             /\ locks' = SetRange(locks, p, arg[p], FirstByte)
             /\ UNCHANGED <<arg, refused, said, killed>>

\* It may also fail with ENOLCK, which the program does not test.
SetLkwFails(p) == /\ Goto(p, "setlkw", "print get")
                  /\ refused' = refused \cup {p}
                  /\ UNCHANGED <<locks, arg, said, killed>>

PrintGet(p) == /\ Goto(p, "print get", "sleep")
               /\ said' = [said EXCEPT ![p] = "get"]
               /\ UNCHANGED <<locks, arg, refused, killed>>

Wake(p) == /\ Goto(p, "sleep", "setlk")
           /\ UNCHANGED <<locks, arg, refused, said, killed>>

\* fcntl(fd, F_SETLK, &unlock): any range, and none if the kernel rejects it.
Unlock(p) == /\ Goto(p, "setlk", "print release")
             /\ \E range \in SUBSET Bytes :
                  locks' = SetRange(locks, p, "F_UNLCK", range)
             /\ UNCHANGED <<arg, refused, said, killed>>

PrintRelease(p) == /\ Goto(p, "print release", "return")
                   /\ said' = [said EXCEPT ![p] = "release"]
                   /\ UNCHANGED <<locks, arg, refused, killed>>

Return(p) == /\ Goto(p, "return", "ended")
             /\ locks' = Drop(locks, p)
             /\ UNCHANGED <<arg, refused, said, killed>>

\* External: a signal kills p, wherever it is.
Kill(p) == /\ pc[p] # "ended"
           /\ pc' = [pc EXCEPT ![p] = "ended"]
           /\ killed' = killed \cup {p}
           /\ locks' = Drop(locks, p)
           /\ UNCHANGED <<arg, refused, said>>

Step(p) == \/ Open(p) \/ SetLkw(p) \/ PrintGet(p) \/ Wake(p) \/ Unlock(p)
           \/ PrintRelease(p) \/ Return(p)

AllEnded == \A p \in Runs : pc[p] = "ended"

Terminated == AllEnded /\ UNCHANGED vars

RunStep == \E p \in Runs : Step(p) \/ SetLkwFails(p) \/ Kill(p)

Next == RunStep \/ Terminated

Spec == Init /\ [][Next]_vars

---------------------------------------------------------------------------
(* Properties *)

\* Every variable has its type.
TypeOK == /\ locks \in LockTable(Users)
          /\ arg \in [Runs -> LockTypes \cup {"usage"}]
          /\ pc \in [Runs -> Pcs]
          /\ refused \subseteq Runs
          /\ said \in [Runs -> {"nothing", "get", "release"}]
          /\ killed \subseteq Runs

\* From F_SETLKW to the unlocking (record_lock.c:78-85).
Holding(p) == pc[p] \in {"print get", "sleep", "setlk"}

\* What p's own lines say of it (record_lock.c:81-82 and 88-89): that it has
\* released its lock, once it has printed "release".
ReleasedWhenSaid == \A p \in Runs : said[p] = "release" =>
                      \A b \in Bytes : locks[p][b] = "F_UNLCK"
=============================================================================
