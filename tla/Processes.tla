----------------------------- MODULE Processes -----------------------------
(***************************************************************************)
(* One run of any of the programs about processes and threads, of *)
(* SigChld, Threads, NiceInfluence, Commands, Accounting and Streams.  The *)
(* value of program tells which; the variables of the other modules are    *)
(* not used, and those with the same name are one variable here.           *)
(***************************************************************************)
EXTENDS Integers, Sequences

CONSTANTS NKids,                                 \* SigChld
          Ticks, Interval, CountMax, Nices, Adjs, \* NiceInfluence, Accounting
          MaxCommands, Codes, Sigs               \* Commands

\* sigchld waits for a child in its first part, and time has ticks.
ASSUME SizesAssumption == NKids \in Nat \ {0} /\ Ticks \in Nat \ {0}

VARIABLES
  program, prompt, now, mpc, pc, count, shown,                  \* several
  discards, eager, sig, hpc, saved, kid, verdict1, verdict2,    \* SigChld
  tret, locked, thread, out, end,                               \* Threads
  root, adj, deadline, fresh, exitAt, nv,                       \* NiceInfluence
  total, ignored, other, child, status, how, lines,             \* Commands
  cores, flagged, wake, acct,                                   \* Accounting
  tty, full, nr, obuf, fbuf, file, handlers, append, told, others   \* Streams

chldvars == <<discards, eager, sig, hpc, saved, kid, verdict1, verdict2>>
thrvars  == <<tret, locked, thread, out, end>>
nicevars == <<root, adj, deadline, fresh, exitAt, nv>>
cmdvars  == <<total, ignored, other, child, status, how, lines>>
acctvars == <<cores, flagged, wake, acct>>
strvars  == <<tty, full, nr, obuf, fbuf, file, handlers, append, told, others>>
vars == <<program, prompt, now, mpc, pc, count, shown,
          chldvars, thrvars, nicevars, cmdvars, acctvars, strvars>>

H == INSTANCE SigChld
T == INSTANCE Threads
N == INSTANCE NiceInfluence
C == INSTANCE Commands
A == INSTANCE Accounting
S == INSTANCE Streams

ASSUME NiceSizes == N!Sizes
ASSUME CommandSizes == C!Sizes

IsChld    == program \in {"sigchld", "waitid"}
IsThreads == program \in T!Programs
IsNice    == program \in {"nice_influence", "setpriority"}
IsCommand == program \in C!Programs
IsAccount == program = "accounting"
IsStreams == program \in S!Programs

Unused(v) == v = 0

NoChld == /\ Unused(discards) /\ Unused(eager) /\ Unused(sig) /\ Unused(hpc)
          /\ Unused(saved) /\ Unused(kid) /\ Unused(verdict1) /\ Unused(verdict2)
NoThreads == /\ Unused(tret) /\ Unused(locked) /\ Unused(thread) /\ Unused(out)
             /\ Unused(end)
NoNice == /\ Unused(root) /\ Unused(adj) /\ Unused(deadline) /\ Unused(fresh)
          /\ Unused(exitAt) /\ Unused(nv)
NoCommand == /\ Unused(total) /\ Unused(ignored) /\ Unused(other) /\ Unused(child)
             /\ Unused(status) /\ Unused(how) /\ Unused(lines)
NoAccount == Unused(cores) /\ Unused(flagged) /\ Unused(wake) /\ Unused(acct)
NoStreams == /\ Unused(tty) /\ Unused(full) /\ Unused(nr) /\ Unused(obuf)
             /\ Unused(fbuf) /\ Unused(file) /\ Unused(handlers)
             /\ Unused(append) /\ Unused(told) /\ Unused(others)

Init ==
  \/ /\ H!Init
     /\ NoThreads /\ NoNice /\ NoCommand /\ NoAccount /\ NoStreams
     /\ Unused(prompt) /\ Unused(now) /\ Unused(pc) /\ Unused(shown)
  \/ /\ T!Init
     /\ NoChld /\ NoNice /\ NoCommand /\ NoAccount /\ NoStreams
     /\ Unused(now) /\ Unused(pc) /\ Unused(count) /\ Unused(shown)
  \/ /\ N!Init
     /\ NoChld /\ NoThreads /\ NoCommand /\ NoAccount /\ NoStreams
     /\ Unused(mpc)
  \/ /\ C!Init
     /\ NoChld /\ NoThreads /\ NoNice /\ NoAccount /\ NoStreams
     /\ Unused(prompt) /\ Unused(now) /\ Unused(pc) /\ Unused(count) /\ Unused(shown)
  \/ /\ program = "accounting" /\ A!Init
     /\ NoChld /\ NoThreads /\ NoNice /\ NoCommand /\ NoStreams
     /\ Unused(count)
  \/ /\ S!Init
     /\ NoChld /\ NoThreads /\ NoNice /\ NoCommand /\ NoAccount
     /\ Unused(prompt) /\ Unused(now) /\ Unused(pc) /\ Unused(count)

---------------------------------------------------------------------------
\* A step of one of the programs.
Chld(Step) == /\ IsChld /\ Step
              /\ UNCHANGED <<thrvars, nicevars, cmdvars, acctvars, strvars,
                             prompt, now, pc, shown>>
Thr(Step)  == /\ IsThreads /\ Step
              /\ UNCHANGED <<chldvars, nicevars, cmdvars, acctvars, strvars,
                             now, pc, count, shown>>
Nice(Step) == /\ IsNice /\ Step
              /\ UNCHANGED <<chldvars, thrvars, cmdvars, acctvars, strvars,
                             mpc>>
Cmd(Step)  == /\ IsCommand /\ Step
              /\ UNCHANGED <<chldvars, thrvars, nicevars, acctvars, strvars,
                             prompt, now, pc, count, shown>>
Acct(Step) == /\ IsAccount /\ Step
              /\ UNCHANGED <<chldvars, thrvars, nicevars, cmdvars, strvars,
                             program, count>>
Str(Step)  == /\ IsStreams /\ Step
              /\ UNCHANGED <<chldvars, thrvars, nicevars, cmdvars, acctvars,
                             prompt, now, pc, count>>

MainStep == \/ Chld(H!MainStep) \/ Thr(T!MainStep) \/ Nice(N!ParentStep)
            \/ Cmd(C!MainStep) \/ Acct(A!Show) \/ Str(S!MainStep)

HandlerStep == Chld(H!HandlerStep)

\* A child, or a thread.
OtherStep(k) == \/ k \in H!Kids /\ Chld(H!ChildEnd(k))
                \/ k \in T!Tids /\ Thr(T!ThreadStep(k))
                \/ k = 1 /\ Nice(N!ChildStep)
                \/ k = 1 /\ Cmd(C!ChildStep)
                \/ k = 1 /\ Acct(A!ChainStep)

Tick == Nice(N!Tick) \/ Acct(A!Tick)

\* What others do, and a file that cannot be read.
Environment == \/ Nice(N!Renice) \/ Str(S!OtherAppends) \/ Str(S!Kill)
               \/ Acct(A!ShowFails)

Others == 1 .. (IF NKids > 3 THEN NKids + 1 ELSE 4)

Ended == CASE IsChld    -> mpc \in H!Ends /\ \A k \in H!Kids : kid[k] # "running"
           [] IsThreads -> T!Ended
           [] IsNice    -> N!Ended
           [] IsCommand -> C!Ended
           [] IsAccount -> A!Ended
           [] IsStreams -> S!Ended

Terminated == Ended /\ UNCHANGED vars

Next == \/ MainStep \/ HandlerStep \/ (\E k \in Others : OtherStep(k))
        \/ Tick \/ Environment \/ Terminated

Spec == Init /\ [][Next]_vars

\* The scheduler runs every process and thread, and time passes.
FairSpec == /\ Spec /\ WF_vars(MainStep) /\ WF_vars(HandlerStep) /\ WF_vars(Tick)
            /\ \A k \in Others : WF_vars(OtherStep(k))

---------------------------------------------------------------------------
(* Properties: those of the modules, of the program that runs. *)

\* Both lines that sigchld.c and waitid.c print are right, see SigChld.
ChldVerdictsRight == IsChld => H!IgnoreVerdictRight /\ H!HandlerVerdictRight

\* What main prints of its threads is right, see Threads.
JoinsRight == IsThreads => T!JoinsRight

\* The end of main cuts no thread short, see Threads.
NoneCutShort == IsThreads => T!NoneCutShort

\* The processes of nice_influence.c stop at the deadline, see NiceInfluence.
EndsOnTime == IsNice => N!EndsOnTime

\* The nice values that are printed are the kernel's, see NiceInfluence.
NiceShown == IsNice => N!NiceShown

\* Each command is reported as it ended, see Commands.
StatusTold == IsCommand => C!StatusTold

\* The accounting records come in the order of the sleeps, see Accounting.
RecordsRight == IsAccount => A!RecordsRight

\* What exit.c printed and wrote is there or lost with the way it ended, see
\* Streams.
ExitShown == IsStreams => S!ExitShown

\* The write of fdopen.c goes where the line before it says, see Streams.
WriteAsTold == IsStreams => S!WriteAsTold

\* Every program ends, and without an error where nothing has failed; but a
\* process of nice_influence.c may miss its deadline for ever if it is late.
EveryProgramEnds ==
  <>[](\/ Ended /\ (IsChld => mpc # "wait error")
       \/ IsNice /\ ~prompt)
=============================================================================
