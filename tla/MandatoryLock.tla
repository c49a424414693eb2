--------------------------- MODULE MandatoryLock ---------------------------
(***************************************************************************)
(* advanced_io/mandatory_lock.c: the parent locks the whole file and tells *)
(* its child through a pipe.  The child, which expects that it is refused  *)
(* a read lock, reads the file to see whether the lock is mandatory.       *)
(*                                                                         *)
(* External: the kernel's pipe, and whether it has mandatory locking for   *)
(* the file system, which not every kernel has.                            *)
(***************************************************************************)
EXTENDS FcntlLocks, Naturals

CONSTANTS Users,           \* the processes that have the file open
          Parent, Child    \* two of them

VARIABLES
  locks,      \* the locks on the file, of all Users
  mandatory,  \* does the kernel have mandatory locking?
  sgid,       \* has the file set-group-ID on and group-execute off?
  ppc, cpc,   \* where parent and child are
  pipe,       \* the bytes in the pipe fd1
  verdict,    \* what the child printed
  dead        \* those killed by a signal

vars == <<locks, mandatory, sgid, ppc, cpc, pipe, verdict, dead>>

ParentPcs == {"open", "write", "fchmod", "pipe", "fork", "setlk", "tell",
              "waitpid", "ended"}
ChildPcs  == {"none", "wait", "setfl", "setlk", "read", "ended"}
Verdicts  == {"none", "parent error", "lock succeeded", "mandatory", "advisory"}

InitPair == /\ mandatory \in BOOLEAN
            /\ sgid = FALSE
            /\ ppc = "open" /\ cpc = "none"
            /\ pipe = 0
            /\ verdict = "none"
            /\ dead = {}

Init == locks = NoLocks(Users) /\ InitPair

---------------------------------------------------------------------------
\* The parent.  Where a call fails, it exits.

GotoParent(from, to) == ppc = from /\ ppc' = to

EndParent == ppc' = "ended" /\ locks' = Drop(locks, Parent)

\* open and write; TELL_WAIT makes the pipes.
Prepare == /\ \/ GotoParent("open", "write") \/ GotoParent("open", "ended")
              \/ GotoParent("write", "fchmod") \/ GotoParent("write", "ended")
              \/ GotoParent("pipe", "fork") \/ GotoParent("pipe", "ended")
           /\ UNCHANGED <<locks, mandatory, sgid, cpc, pipe, verdict, dead>>

Fchmod == /\ \/ GotoParent("fchmod", "pipe") /\ sgid' = TRUE
             \/ GotoParent("fchmod", "ended") /\ sgid' = sgid
          /\ UNCHANGED <<locks, mandatory, cpc, pipe, verdict, dead>>

Fork == /\ \/ GotoParent("fork", "setlk") /\ cpc' = "wait"
           \/ GotoParent("fork", "ended") /\ cpc' = cpc
        /\ UNCHANGED <<locks, mandatory, sgid, pipe, verdict, dead>>

\* F_SETLK with F_WRLCK on the whole file does not wait.  It may also fail with
\* ENOLCK.
Lock == /\ \/ /\ ~Conflict(locks, Parent, "F_WRLCK", WholeFile)
              /\ GotoParent("setlk", "tell")
              /\ locks' = SetRange(locks, Parent, "F_WRLCK", WholeFile)
           \/ /\ ppc = "setlk" /\ EndParent
        /\ UNCHANGED <<mandatory, sgid, cpc, pipe, verdict, dead>>

\* Mutant: the byte goes into the other pipe.
TellOther == /\ GotoParent("tell", "waitpid")
             /\ UNCHANGED <<locks, mandatory, sgid, cpc, pipe, verdict, dead>>

TellChild == /\ GotoParent("tell", "waitpid")
             /\ pipe' = pipe + 1
             /\ UNCHANGED <<locks, mandatory, sgid, cpc, verdict, dead>>

\* waitpid returns when the child has ended; the parent returns from main.
Waitpid == /\ ppc = "waitpid" /\ cpc = "ended"
           /\ EndParent
           /\ UNCHANGED <<mandatory, sgid, cpc, pipe, verdict, dead>>

---------------------------------------------------------------------------
\* The child

GotoChild(from, to) == cpc = from /\ cpc' = to

\* The processes that have the writing end fd1[1] of the pipe open: nobody
\* closes it before it ends, and so the child has it itself.
Writers == {p \in {Parent, Child} : IF p = Parent THEN ppc # "ended"
                                                  ELSE cpc # "ended"}

\* Mutant: the child does not wait.
NoWaitParent == /\ GotoChild("wait", "setfl")
                /\ UNCHANGED <<locks, mandatory, sgid, ppc, pipe, verdict, dead>>

\* read(fd1[0], &ch, 1) returns n: a byte, or 0 when nobody can write one.
WaitParent == /\ pipe > 0 \/ Writers = {}
              /\ IF pipe > 0 THEN /\ GotoChild("wait", "setfl")
                                  /\ pipe' = pipe - 1
                                  /\ verdict' = verdict
                             ELSE /\ GotoChild("wait", "ended")
                                  /\ pipe' = pipe
                                  /\ verdict' = "parent error"
              /\ UNCHANGED <<locks, mandatory, sgid, ppc, dead>>

\* F_GETFL, F_SETFL
SetNonblock == /\ GotoChild("setfl", "setlk")
               /\ UNCHANGED <<locks, mandatory, sgid, ppc, pipe, verdict, dead>>

\* F_SETLK with F_RDLCK, which may also fail with ENOLCK: a child that gets the
\* lock exits and loses it.
TryLock ==
  /\ \/ GotoChild("setlk", "read") /\ verdict' = verdict
     \/ ~Conflict(locks, Child, "F_RDLCK", WholeFile)
        /\ GotoChild("setlk", "ended") /\ verdict' = "lock succeeded"
  /\ UNCHANGED <<locks, mandatory, sgid, ppc, pipe, dead>>

\* lseek, and a read that a mandatory lock makes fail with EAGAIN.
ReadRefused == mandatory /\ sgid /\ Conflict(locks, Child, "F_RDLCK", WholeFile)

Read == /\ GotoChild("read", "ended")
        /\ verdict' = IF ReadRefused THEN "mandatory" ELSE "advisory"
        /\ UNCHANGED <<locks, mandatory, sgid, ppc, pipe, dead>>

---------------------------------------------------------------------------
\* External: a signal kills one of them.

KillParent == /\ ppc # "ended" /\ EndParent
              /\ dead' = dead \cup {Parent}
              /\ UNCHANGED <<mandatory, sgid, cpc, pipe, verdict>>

KillChild == /\ cpc \notin {"none", "ended"} /\ cpc' = "ended"
             /\ dead' = dead \cup {Child}
             /\ UNCHANGED <<locks, mandatory, sgid, ppc, pipe, verdict>>

ParentStep == Prepare \/ Fchmod \/ Fork \/ Lock \/ TellChild \/ Waitpid
ChildStep  == WaitParent \/ SetNonblock \/ TryLock \/ Read

\* The parent has ended without telling the child, which waits for ever: it
\* holds open the pipe on which it waits for end of file.
Abandoned == ppc = "ended" /\ cpc = "wait" /\ pipe = 0

AllEnded == ppc = "ended" /\ (cpc \in {"none", "ended"} \/ Abandoned)

Next == ParentStep \/ ChildStep \/ KillParent \/ KillChild

---------------------------------------------------------------------------
(* Properties *)

\* Every variable has its type; at most one byte is in the pipe.
TypeOK == /\ locks \in LockTable(Users)
          /\ mandatory \in BOOLEAN /\ sgid \in BOOLEAN
          /\ ppc \in ParentPcs /\ cpc \in ChildPcs
          /\ pipe \in {0, 1} /\ verdict \in Verdicts
          /\ dead \subseteq {Parent, Child}

\* From the write lock to the end of the parent (mandatory_lock.c:62-72).
ParentHolds == ppc \in {"tell", "waitpid"}

\* While nobody has killed the parent, the child's read lock is refused
\* (mandatory_lock.c:91-94) and its verdict is right (102-106).
VerdictRight == Parent \notin dead =>
  /\ verdict # "lock succeeded"
  /\ verdict = "mandatory" => mandatory
  /\ verdict = "advisory"  => ~mandatory
=============================================================================
