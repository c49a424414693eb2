------------------------------ MODULE Commands ------------------------------
(***************************************************************************)
(* Programs of process_control/ that run commands and wait for them:       *)
(* system.c, with a system() of its own, process_times.c and               *)
(* system_error/test.c, with that of the C library, execl.c and            *)
(* exec_interpreter.c.  The first two tell how each command ended, from    *)
(* the status of wait, as exit_status.c does for a status in argv[1].      *)
(*                                                                         *)
(* A program inherits the disposition of SIGCHLD, and maybe a child of the *)
(* program that ran in its process before, which has ended.                *)
(***************************************************************************)
EXTENDS Integers, Sequences

CONSTANTS
  MaxCommands,  \* bound: the commands in argv of process_times.c
  Codes, Sigs   \* what commands exit with, or are killed by

VARIABLES
  program,
  total,     \* how many commands it runs
  ignored,   \* does it inherit SIGCHLD ignored?
  other,     \* status of an inherited child that nobody has waited for, or 0
  mpc,       \* where main is
  child,     \* the state of the command's process
  status,    \* what wait has stored, or system has returned
  how,       \* how each command ended
  lines      \* what pr_exit has printed

vars == <<program, total, ignored, other, mpc, child, status, how, lines>>

\* How many commands a program runs: those in main, those of argv, or one.
Runs(p) == CASE p = "system"        -> {3}
             [] p = "process_times" -> 0 .. MaxCommands
             [] OTHER               -> {1}

Programs == {"system", "process_times", "test", "execl", "exec_interpreter"}
Systems  == {"system", "process_times", "test"}
Tells    == program \in {"system", "process_times"}

Exited(code)  == [by |-> "exit", n |-> code % 256]
Killed(signo) == [by |-> "signal", n |-> signo]
NoLine        == [by |-> "", n |-> 0]

\* The status of a process that has ended: the low byte of its exit code in the
\* high byte, or the signal; 128 stands for a core file.
StatusOf(end) == IF end.by = "exit" THEN {end.n * 256} ELSE {end.n, end.n + 128}

\* WIFEXITED, WIFSIGNALED and WIFSTOPPED.  Other statuses get no line.
PrExit(s) == CASE s % 128 = 0             -> [by |-> "exit", n |-> (s \div 256) % 256]
               [] s % 128 \in 1 .. 126    -> [by |-> "signal", n |-> s % 128]
               [] s % 256 = 127           -> [by |-> "stop", n |-> (s \div 256) % 256]
               [] s % 256 = 255           -> NoLine

Init == /\ program \in Programs /\ total \in Runs(program)
        /\ ignored \in BOOLEAN
        /\ other \in {0} \cup {Exited(c).n * 256 : c \in Codes}
        /\ mpc = "next" /\ child = "none" /\ status = 0
        /\ how = <<>> /\ lines = <<>>

MainGoto(from, to) == /\ mpc = from /\ mpc' = to
                      /\ UNCHANGED <<program, total, ignored>>

---------------------------------------------------------------------------
\* The loop over argv, or the commands in main one by one.  times() may fail.
Fork == /\ Len(how) < total
        /\ \/ MainGoto("next", "wait") /\ child' = "forked"
           \/ MainGoto("next", "exit 1") /\ UNCHANGED child
        /\ UNCHANGED <<other, status, how, lines>>

\* The end of main.
Return == /\ Len(how) = total
          /\ MainGoto("next", "exit 0")
          /\ UNCHANGED <<other, child, status, how, lines>>

\* Mutant: wait() for waitpid(pid): it may find the inherited child.
WaitAny == \/ /\ child = "zombie"
              /\ MainGoto("wait", "print")
              /\ child' = "none"
              /\ UNCHANGED <<other, status, how, lines>>
           \/ /\ other # 0
              /\ MainGoto("wait", "print")
              /\ status' = other /\ other' = 0
              /\ UNCHANGED <<child, how, lines>>

\* waitpid(pid) waits for the command, and fails if its status is thrown away.
WaitFails == child = "gone" /\ MainGoto("wait", "exit 1")

Waitpid == /\ \/ child = "zombie" /\ MainGoto("wait", "print")
              \/ WaitFails
           /\ child' = "none"
           /\ UNCHANGED <<other, status, how, lines>>

\* process_times.c asks for the time again and for the clock's ticks before it
\* prints the line: either call may fail.
TimesFail == /\ program = "process_times" /\ MainGoto("print", "exit 1")
             /\ UNCHANGED lines

PrintStatus == /\ \/ /\ MainGoto("print", "next")
                     /\ lines' = IF Tells THEN Append(lines, PrExit(status)) ELSE lines
                  \/ TimesFail
               /\ UNCHANGED <<other, child, status, how>>

---------------------------------------------------------------------------
\* The command ends so: the kernel keeps the status for wait, unless SIGCHLD is
\* ignored.
Ends(end) == /\ how' = Append(how, end)
             /\ \/ ignored /\ child' = "gone" /\ UNCHANGED status
                \/ ~ignored /\ child' = "zombie" /\ status' \in StatusOf(end)
             /\ UNCHANGED <<program, total, ignored, other, mpc, lines>>

Exec(failure) == /\ child = "forked"
                 /\ \/ /\ child' = "running"
                       /\ UNCHANGED <<program, total, ignored, other, mpc, status,
                                      how, lines>>
                    \/ Ends(Exited(failure))

\* system() runs bash, and _exit(127) if it cannot; the others run one program,
\* and exit(1).
ExecShell   == program \in Systems /\ Exec(127)
ExecProgram == program \notin Systems /\ Exec(1)

\* External: the command exits with a code, or a signal kills it.
CommandEnds == /\ child = "running"
               /\ \/ \E code \in Codes : Ends(Exited(code))
                  \/ \E signo \in Sigs : Ends(Killed(signo))

Ended == mpc \in {"exit 0", "exit 1"}

MainStep  == Fork \/ Return \/ Waitpid \/ PrintStatus
ChildStep == ExecShell \/ ExecProgram \/ CommandEnds

Next == MainStep \/ ChildStep \/ (Ended /\ UNCHANGED vars)

Spec == Init /\ [][Next]_vars

\* Both run when they can, and every command ends.
FairSpec == Spec /\ WF_vars(MainStep) /\ WF_vars(ChildStep)

---------------------------------------------------------------------------
(* Properties *)

\* Each line tells how its command ended, one line for each command and none of
\* an inherited child (system.c:40, 48, 59-71, process_times.c:34-45).  main
\* exits 0 after all of them.  It exits 1 with at most the last line missing, and
\* after the last command only if wait was not told of it (SIGCHLD ignored) or
\* process_times.c failed between the command's end and its line (39-42, 53-56).
StatusTold ==
  /\ \A k \in DOMAIN lines : k \in DOMAIN how /\ lines[k] = how[k]
  /\ Tells /\ mpc = "next" => Len(lines) = Len(how)
  /\ mpc = "exit 0" => Len(how) = total
  /\ Tells /\ mpc = "exit 1" => Len(how) <= Len(lines) + 1
  /\ mpc = "exit 1" => \/ Len(how) < total
                       \/ ignored
                       \/ program = "process_times"

\* main ends: it waits for every command, and for no other process.
MainEnds == <>Ended

---------------------------------------------------------------------------
(* The inductive invariant behind StatusTold *)

\* What the values of the constants must be like.
Sizes == MaxCommands \in Nat /\ Codes \subseteq Nat /\ Sigs \subseteq 1 .. 126

Outcomes == [by : {"exit"}, n : 0 .. 255] \cup [by : {"signal"}, n : 1 .. 126]

\* Every variable has its type.
TypeOK == /\ program \in Programs /\ total \in Nat /\ ignored \in BOOLEAN /\ other \in Nat
          /\ mpc \in {"next", "wait", "print", "exit 0", "exit 1"}
          /\ child \in {"none", "forked", "running", "zombie", "gone"}
          /\ status \in Nat /\ how \in Seq(Outcomes) /\ lines \in Seq(Outcomes)

\* main waits while there is a process; it is the one that has not been told of.
Waiting == /\ mpc = "wait" <=> child # "none"
           /\ child = "gone" => ignored
           /\ child \in {"forked", "running"} => Len(how) < total

\* The commands that have ended and have no line yet: at most the last one.
NoLineYet == \/ child \in {"zombie", "gone"} \/ mpc = "print"
             \/ mpc = "exit 1" /\ Len(how) > Len(lines)
LineForEach ==
  Tells => IF NoLineYet THEN Len(how) = Len(lines) + 1 ELSE Len(how) = Len(lines)

\* No line, and no other status, comes between the end and the line of a command.
StatusIsLast == child = "zombie" \/ mpc = "print" =>
                  how # <<>> /\ status \in StatusOf(how[Len(how)])

IInv == TypeOK /\ Waiting /\ LineForEach /\ StatusIsLast /\ StatusTold
=============================================================================
