# Verification of apue-code

The repository is a collection of small C programs written along with a reading
of "Advanced Programming in the UNIX Environment". There is no library that ties
them together: each file under `src/` is a program (or an experiment) with its
own `main`. What they have in common is the kernel: locks, signals, queues,
semaphores, pipes, processes. Many of them are concurrent (a parent and a child,
a thread, a handler that interrupts `main`), and many print a *verdict* about the
system they run on. The project models those, and asks three questions of them:
is what they do with shared state right, is what they print true, and do they end.

## 1. Inventory

| component | state | operations | hard behaviours | what makes it correct |
|---|---|---|---|---|
| `advanced_io/mmap.c` | shared integer, named semaphore, two loop counters | `sem_open`, `sem_unlink`, `fork`, the loop `sem_wait`, `(*ptr)++`, `printf`, `sem_post` | interleaving of two processes; a signal in the critical section; a stale name | exclusion, no lost increment, the numbers printed are 0, 1, 2, ..., both end |
| `interprocess_communication/sv_msq.c` | System V queue that outlives the process, `main`, the thread `thr_func` | `msgget`, `msgsnd`, `msgrcv`, `IPC_RMID`, `pthread_create`, `pthread_join` | removal while the thread waits, prints or has not started; full queue; killed process; two processes with one key | messages in order, none lost but by the removal, all received ones printed, no queue left by a normal end, `main` and thread end |
| `signals/sig_queued.c` | `sigcount`, `waitflag`, `sigflag`, masks, nested handlers | `sig_quit`, `sig_usr`, `TELL_WAIT`, `WAIT_CHILD`, `TELL_PARENT`, `sleep` | `sigsuspend` that unblocks the signal whose handler calls it; a wake-up lost before `sigsuspend`; sleeping as synchronisation | no signal counted twice, one waiter, the verdict |
| `signals/sigaction_semantics.c`, `signals/signal_semantics.c` | `need_sleep`, `left_to_sleep`, dispositions, pipes | the three questions, one child for each | a signal that meets the default action; a read that is ready before it is interrupted; interrupted `sleep` in a handler | each printed answer agrees with the kernel's semantics |
| `signals/sigsetjmp.c` | `jmpbuf`, `canjump`, masks, alarm | `sigsetjmp`, `sig_usr1`, `sig_alrm`, `siglongjmp`, `pause` | a signal before `sigsetjmp` or after the return of `main`; nested handlers | the masks that are printed; jumps only where they are defined |
| `signals/sigchld.c`, `process_environment/waitid.c` | children, `SIGCHLD` disposition, `count` | `Signal`, `fork`, `wait`, `waitid(WNOWAIT)`, `sig_chld` | children end in any order, before or after the wait; `main` and handler wait for the same child | both verdicts |
| `advanced_io/record_lock.c`, `advanced_io/mandatory_lock.c` | the kernel's lock table of a file, a pipe | `F_SETLK`, `F_SETLKW`, `TELL_CHILD`, `WAIT_PARENT`, `waitpid` | several processes on one byte; killed holders; an uninitialised range | a writer is alone; verdict on mandatory locks; everybody ends |
| `file_io/copy.c`, `file_io/dev_fd.c`, `advanced_io/nonblock_io.c`, `advanced_io/asynchronous_io.c` | buffer, offset, descriptors, the `aiocb` | `open`, `read`, `write`, `aio_write`, `aio_suspend` | short reads and writes, `EAGAIN`, full sink, one file under both names | bytes in order, exit status 0 means copied |
| `signals/sig_mask.c`, `signals/sigpending.c` | mask, pending set, disposition of `SIGQUIT` | `sigprocmask`, `sleep`, `sigpending`, `sig_quit` | a signal that is delivered inside the `sigprocmask` that restores the mask; an inherited mask | what is shown as pending is caught before "unblocked", at most one is caught |
| `threads/` | threads, cleanup handlers, a mutex | `pthread_create`, `_exit`, `_cancel`, `_join`, `_detach`, `_cleanup_push`, `_mutex_timedlock` | cancellation against end; join of a detached thread and return between push and pop, both undefined; waiting by `sleep` | the exit codes and the lines before them, no thread cut short, `main` ends |
| `process_control/nice_influence.c`, `setpriority.c` | two counters, a deadline, nice values | `fork`, `nice`, `gettimeofday`, `getpriority`, `setpriority` | a deadline test on seconds and microseconds apart; `-1` as a value; somebody else who renices | nobody stops early, nobody who looks often enough is late, a value shown is the kernel's unless somebody reniced since |
| `process_control/system.c`, `process_times.c`, `system_error/test.c`, `execl.c`, `exec_interpreter.c` | a child, its status, `SIGCHLD` as inherited | `fork`, `exec`, `waitpid`, `pr_exit` | `ECHILD`, an inherited child, a command that cannot be run or is killed | each command is reported as it ended |
| `process_control/test_process_account.c`, `show_process_account.c` | a chain of five processes, the kernel's records | `fork`, `sleep`, `abort`, `exec`, `kill`, `_exit` | order of ends, fixed by sleeping | order of the lines, one for each process, `X` only for those that are killed |
| `files_and_directories/` | names, inodes, modes; `unlink.c` with its descriptor and two signals | `open`, `unlink`, `pause`, `rename`, `link`, `symlink`, `chmod`, `access`, `stat` | other programs on the same directory during the pause; a signal just before `pause` | which file is removed and until when it is there, modes shown, two signals end it |
| `process_environment/exit.c`, `standard_io_library/fdopen.c` | stream buffers, exit handlers, `O_APPEND` | `fopen`, `fprintf`, `atexit`, `exit`, `_exit`, `fdopen`, `write` | buffers that are lost, a full disk, other writers of the file | what is shown and written after each way to end |
| `process_environment/rlimit.c`, `setjmp.c`; `FILE.c`, `mem_stream.c`, `stream_stat.c`, `tmpnam.c`; `socket/`; `file_io/file_status_flags.c`; `echoall.c`, `interpreter`, `show_id.c`, `exit_status.c` | none of their own | one call, and a message | | not modelled, see section 5 |

The components interact only through the kernel. Two of them can meet on the
same object: the locking programs on a file, which `FileLocks` composes, the
processes of `sv_msq` on a key (`MsgQueue`), and the programs of
`files_and_directories` on a directory (`Files`). The programs about signals and
about processes share no state, but the same kernel: `PosixSignals`.

## 2. Modules

| module | models | uses |
|---|---|---|
| `AtomicCounter` | what `mmap.c` promises: each process takes the next number in one step | |
| `SharedCounter` | `mmap.c`, load and store apart | refines `AtomicCounter` |
| `MCSharedCounter`, `SharedCounter_proofs` | its instance for TLC, its theorems | |
| `LineQueue` | what `sv_msq.c` promises of its lines: first in, first out, the last ones possibly lost | |
| `MsgQueue` | `sv_msq.c`: several processes of two threads, and the queue | refines `LineQueue` |
| `MCMsgQueue`, `MsgQueue_proofs` | its instance for TLC, its theorems | |
| `PosixSignals` | external: pending signals, mask and dispositions of a process | |
| `SigQueued` | `sig_queued.c` | `PosixSignals` |
| `SigSemantics` | `sigaction_semantics.c` and `signal_semantics.c` | `PosixSignals` |
| `SigJump` | `sigsetjmp.c` | `PosixSignals` |
| `SigPending` | `sigpending.c` and `sig_mask.c` | `PosixSignals` |
| `MCSignals` | one run of any program of the last four modules | instances of them |
| `Signals_proofs` | the theorems of `SigQueued`, `SigSemantics`, `SigJump` and `SigPending`, and of the composition | |
| `SigChld` | `sigchld.c` and `waitid.c` | `PosixSignals` |
| `Threads` | the four programs of `threads/` | |
| `NiceInfluence`, `NiceInfluence_proofs` | `nice_influence.c` and `setpriority.c`, and their theorems | |
| `Commands` | the programs that run commands | |
| `Accounting` | `test_process_account.c` and `show_process_account.c` | |
| `Streams` | `exit.c` and `fdopen.c` | |
| `Processes` | one run of any program of `SigChld`, `Threads`, `NiceInfluence`, `Commands`, `Accounting` and `Streams` | instances of them |
| `MCProcesses` | for TLC: the sets of `Processes` that a configuration cannot write | `Processes` |
| `Processes_proofs` | the theorems of `SigChld`, `Threads`, `Commands`, `Accounting` and `Streams`, and of the composition | |
| `FileStat` | what `file_stat.c` and `file_type.c` print, as functions | |
| `Files`, `Files_proofs` | `unlink.c` while others change the directory, and its theorems | `PosixSignals`, `FileStat` |
| `FcntlLocks` | external: the record locks of one file | |
| `RecordLock` | any number of runs of `record_lock.c` | `FcntlLocks` |
| `MandatoryLock` | parent and child of `mandatory_lock.c` | `FcntlLocks` |
| `FileLocks`, `FileLocks_proofs` | the composition of the last two on one file, and its theorems | instances of both |
| `StreamCopy`, `StreamCopy_proofs` | the four copying programs, and their theorems | |

`MCSignals` and `Processes` put programs side by side that never meet, so that
one run of TLC covers them and one fairness condition holds of all: `program`
says which one runs, variables of the others are 0 and never change, and
variables with the same name are one variable. Each property there is the one of
its module for the program that runs. The liveness properties of the modules
(`ParentEnds`, `SignalEnds`, `ProgramEnds`, `MainEnds`, `AlwaysEnds`, `AllEnd`)
are all in `EveryProgramEnds`, which names the exceptions.

How to read them against the code:

* A `pc` variable names the call that comes next. One action is one system call
  with everything the program does up to the next one that another actor could
  notice; a call that can fail has a disjunct for the failure, which leads where
  the code goes, mostly to `exit(1)`.
* Messages on standard output are state only where a property is about them
  (`printed`, `said`, `verdict`, `log`, `restart`). The wording is left out.
* A process that catches a signal takes a step only when no signal is
  deliverable to it (`InMain`, `InHandler`), because the kernel delivers before
  it returns to the program. Handlers that interrupt handlers are the sequence
  `stack`, the innermost first; each frame holds the mask that its return
  restores.
* Time. `sig_queued`, `sigaction_semantics`, `signal_semantics`,
  `pthread_identification` and `test_process_account` synchronise with `sleep`. With `prompt = TRUE` time passes only while everybody waits, as
  on an idle machine; with `prompt = FALSE` a sleep may end at any time, as on
  a busy one. Properties that need the idle machine say so.
* A signal that kills a process may come at any step where that matters for
  what is left behind.
* Undefined behaviour is a choice: `record_lock.c:85` unlocks a range that was
  never set, which is any range (`Unlock`); a jump through a `jmpbuf` that was
  not set ends the behaviour in `"undefined"` (`SigJump`); the join of a
  detached thread fails or crashes, a return between push and pop runs the
  handlers, does not, or crashes (`Threads`).

`sig_queued.c` and `sigsetjmp.c` assign to `act.act_flags`, which is not a
member of `struct sigaction`, under `#ifdef SA_RESTART`; they compile only where
`SA_RESTART` is not defined, so their handlers are modelled without flags.

## 3. What is checked

Each run uses all of the behaviours of its module; deadlock is checked
everywhere, and a `Terminated` action (or a disjunct `Ended /\ UNCHANGED vars`)
says exactly where the system may stop.

| run | what it shows |
|---|---|
| `shared_counter` | Under the semaphore no increment of `mmap.c:55,67` is lost (`FinalCount`), nobody else is in the critical section (`MutualExclusion`), the numbers come out as from `AtomicCounter` (`Atomic`, a refinement) wherever a process is killed, and both processes end unless one was killed with the semaphore taken (`EventuallyDone`). |
| `message_queue` | What a process sent is what its thread got, then what is queued, then what was destroyed, in that order (`Accounted`): nobody ever receives the message of another process. Whoever ends by itself has printed what it got (`ReceivedIsPrinted`). A queue is left only by those who were killed, whose thread could not start, or whose `msgsnd` failed; these two do leave it, unless an `ipcrm` removed it (`QueueLeft`). The whole implements `LineQueue` (`Fifo`). Nobody waits for ever (`EveryRunEnds`). |
| `message_queue_einval` | Violation, see disagreement 1. |
| `signals` | `sig_queued.c`: nested `SIGQUIT` handlers count no signal twice (`CountBound`), one of them waits (`OneWaiter`), until the child has told (`WaitEndsOnTell`); on an idle machine all four are counted (`AllCounted`). `sigaction_semantics.c`, `signal_semantics.c`, under sigaction, BSD and System V semantics: the printed answers on reset and blocking are right and "not restarted" is never wrong (`AnswersRight`), no experiment disturbs the next (`QuestionsApart`), the parent is killed only in the window of `signal_semantics.c:19-23`, and there only under System V semantics on a busy machine (`KilledInWindow`). `sigsetjmp.c`: the masks printed for both options (`MasksShown`), one jump when the mask is not saved, and an undefined one only where the test that the code meant would have prevented it (`JumpsOnce`). `sigpending.c`, `sig_mask.c`: what is shown as pending is caught in time and once (`PendingShown`). All of them end (`EveryProgramEnds`). |
| `sig_queued_verdict` | Violation, see disagreement 2. |
| `sig_semantics_restart` | Violation, see disagreement 3. |
| `file_locks` | Two runs of `record_lock` and one of `mandatory_lock` on one file: a writer is alone (`Exclusive`), the verdict is right (`VerdictRight`), all end (`AllEnd`) but a child whose parent ended before it told it. |
| `record_lock_release` | Violation, see disagreement 4. |
| `processes` | Both verdicts of `sigchld.c` and that of `waitid.c` are right on all four kinds of kernel and in every order of the children's ends (`ChldVerdictsRight`). What `main` prints of its threads is what they ended with, after all that they wrote (`JoinsRight`), and its return cuts none short (`NoneCutShort`). Nobody stops before the deadline, and nobody who looks at the time in each tick after it (`EndsOnTime`); a nice value that is printed is the kernel's, or the kernel's before it was cut off, unless somebody reniced since it was read (`NiceShown`). Each command has one line, which tells how it ended; exit status 1 may cost the last line (`StatusTold`). No process has two accounting lines, on an idle machine they have the order of the sleeps, and only the two processes that are killed by a signal can be marked `X` (`RecordsRight`); that they are, and the flag `D`, is not checked. What is shown and in the file after `exit`, `_exit` and a full disk (`ExitShown`); a write past a stream does what `F_GETFL` said (`WriteAsTold`). All of them end (`EveryProgramEnds`). |
| `files` | `unlink.c` removes the file it opened, unless the name led elsewhere meanwhile (`UnlinkTold`); the file is there until the process ends, and then gone if nobody gave it a name (`KeptThenFreed`); what `chmod`, `access`, `file_stat` and `file_type` print of a name agrees (`ModesTold`); two signals that are not lost end the program (`TwoSignalsEnd`). |
| `file_stat_ls` | Violation, see disagreement 5. |
| `stream_copy` | No byte is out of place (`NothingMisplaced`), exit status 0 means what it should (`SuccessMeansCopied`), and only `nonblock_io` may spin, on a sink that is full for good (`EndsOrSpins`). |

### Bounds

| run | bound | why it is enough |
|---|---|---|
| `shared_counter` | `NLoop = 3` | a first, a last and a middle iteration; every interleaving of load and store needs one iteration of each process. The theorems have no bound. |
| `message_queue` | 2 processes, `MaxLines = 3`, `Capacity = 2` | one more line than the queue holds, so that `msgsnd` blocks; a second process that meets the queue that the first left. The theorems have no bound. |
| `signals`, `sig_queued_verdict`, `sig_semantics_restart` | `MaxSent = 3` for the signals that other processes send | one before the handler or the jump is there, one during a handler, one after; all other numbers are the program's own (4 signals, `sleep(5)`, 4 reads). The theorems have no bound. |
| `file_locks` | two runs | reader with reader, reader with writer, writer with writer, each against the lock of the whole file; two bytes tell apart the ranges that the code names and those that an uninitialised range may be. The theorems have no bound. |
| `record_lock_release` | one run | one process is enough |
| `processes` | `NKids = 3` | the program's own; the theorems have no bound |
| | `Ticks = 3`, `Interval = 1`, `CountMax = 5` | a deadline in the next second, with ticks before and after it in the same second; a counter that may wrap before the deadline or not. Past the deadline by a second only the microseconds matter (`Wrap`). The theorems have no bound. |
| | `Nices = {-3, 17}`, `Adjs = {-2, 2}` | the value -1 is reached, and the limit of 19; lower and higher values are asked for |
| | `MaxCommands = 2`, exit codes 0, 44 and 300, signals 2 and 9 | a command after one that failed; a code that does not fit into a byte. The theorems have no bound. |
| | `MaxOthers = 2` records of others in `fdopen` | one before the stream is opened and one before the write |
| `files` | `MaxRuns = 3`, `MaxSent = 3` | another file is moved away from "a", put there, and its mode changed; one signal is lost and two are not. The theorems have no bound. |
| `file_stat_ls` | `MaxRuns = 1`, `MaxSent = 0` | one file is enough |
| `stream_copy` | input 6, buffer 3, room 4 | two full buffers and partial ones, a sink that fills up in the middle of a buffer. The theorems have no bound. |

`Seq`-valued histories are bounded by these constants; no other counter is.

### Fairness

Every fair specification has weak fairness on the steps of each process or
thread: the scheduler runs what can run, and a blocking call returns when its
condition holds. Nothing is assumed of a signal that kills, of `ipcrm`, of a
call that fails, nor of who renices, renames or appends. Where a call can be
refused at any time, the refusal is an action of its own outside the fair step
(`SetLkwFails`, `MsgSndFails`, `AioSuspendFails`, `ShowFails`): a blocked
`F_SETLKW` or `msgsnd` returns because the holders release or the receiver reads,
or it does not return. Where the failure is a disjunct of a fair step, either the same
step can succeed instead, or the state leaves no other outcome (a queue that is
gone, no child left to wait for). Clock ticks and a sink that drains are weakly
fair. In `Files` the two signals that `unlink.c` asks for
are sent in the end (`WF_vars(Send)`); the other signal programs end without.
`AllEnd` of `FileLocks` needs no strong fairness, although a writer may be
passed over by readers: there are finitely many runs, and each run of
`record_lock` asks for its lock once and gives it up when it ends, so that nobody
is in the way any number of times. The question of lines 13-15, whether readers
that keep coming can starve a writer, is not answered by that: with an unbounded
supply of readers weak fairness would let them.

### Disagreements found

1. **`sv_msq.c:36`** (`RemovalIsNormalEnd`). The thread takes only `EIDRM` for
   the normal end. It gets that if it waits in `msgrcv` when `main` removes the
   queue; if it is printing, or has not called `msgrcv` yet, the next call fails
   with `EINVAL`, and the process exits 1 after a run without a fault.
2. **`sig_queued.c:59`** (`NotQueued`). The comment at lines 41-42 says that
   rapid signals are delivered once. The child sends them a second apart and
   `sigsuspend(&zeromask)` lets each one through, so that the program prints
   "Signal is queued" on a kernel that never queues one.
3. **`sigaction_semantics.c:155`** (`RestartedIsRight`). The child writes its
   byte right after the signal. A parent that does not run in between reads the
   byte, and "restart" is printed for a handler without `SA_RESTART`. The note at
   301-304 records that as a property of Linux.
4. **`record_lock.c:73`** (`ReleasedWhenSaid`). Lines 73-74 set `lock` where
   `unlock` is meant; "release" may be printed by a process that keeps its lock.
5. **`file_stat.c:85`** (`ListedAsLs`). Lines 51 and 68 test for either bit, line
   85 for both, so that lines 88-91 are never reached: a file that others may
   execute is listed without the `x` that ls(1) of line 7 prints; a fifo has `f`
   for `p` (37).

Other properties name an exception that the code has:

* `SuccessMeansCopied`: a copy of a file to itself empties it and exits 0
  (`copy.c:39`).
* `EndsOrSpins`: `nonblock_io.c:37` takes every error for `EAGAIN`.
* `Exclusive`: a run whose `F_SETLKW` was refused, which `record_lock.c:78` does
  not notice; `VerdictRight`: a parent that was killed.
* `AllEnd` of `FileLocks`: the child of a parent that ended before it told it.
* `EndsOnTime` and `EveryProgramEnds`: a process that does not look at the time
  in every tick may miss the deadline any number of times, since
  `nice_influence.c:25` also compares the microseconds.
* `NiceShown`: `setpriority.c:22,35` print the value that was asked for, of which
  the kernel's is what the limit of 19 leaves; and between reading the value and
  setting it, root may renice, which the value read does not show.
* `StatusTold`: `process_times.c:39-42` may exit after a command has ended and
  before its line; `waitpid` fails if `SIGCHLD` is ignored.
* `QueueLeft`: `sv_msq.c:86-89` exits without removing the queue if `msgsnd` fails.
* `AllCounted`: on a busy machine `sig_queued.c:55` may sleep too short.
* `UnlinkTold`: `unlink.c:65` prints "success" whatever `unlink` returned.
* `ExitShown`: after `_exit`, `exit.c` has printed "write success" of a line that
  is lost.
* `JoinsRight` and `NoneCutShort`: the undefined join of a detached thread
  (`pthread_exit.c:89`), and the sleep of `pthread_identification.c:36` on a
  busy machine.

## 4. What is proved

The theorems hold for every value of the constants. `SharedCounter` assumes
`NLoop \in Nat`; `MsgQueue` assumes `MsgQueueAssumption` (`MaxLines \in Nat`,
`Capacity` a positive natural, `NoProc` not a process; `Procs` may be infinite);
`FileLocks` assumes that parent, child and runs are different processes;
`StreamCopy` assumes `StreamCopyAssumption` (sizes are naturals, the buffer and
the sink have room for a byte); `Files` assumes that the numbers of other
programs and of signals are naturals. The modules of `Processes` and `MCSignals`
are only instantiated, so that their theorems have the assumption in the
statement: `NKids \in Nat \ {0}` for `SigChld`, `Sizes` for `NiceInfluence` and
for `Commands`, `MaxSent \in Nat` for `SigJump` and `SigPending`; `SigQueued` has
no constant. The compositions assume the same of theirs.

**`SharedCounter_proofs`.** `MutualExclusion` and `FinalCount` are not inductive:
the first does not say that the semaphore is 0 while somebody is inside, the
second speaks only of the end. `IInv` adds

* `SemHeld`: whoever is in the critical section holds the semaphore;
* `PtrInStep`: `ptr` is the number of lines printed, but between a store and its
  print; a register loaded is still current at the store;
* `PrintsCounted` and `LoopBounds`: the two counters account for every print;
* `NobodyBeforeFork`: no process runs before the semaphore exists.

`Inductive` proves `Spec => []IInv`, one case for each action; `TypeCorrect`,
`Exclusion` and `NoLostIncrement` follow. `Refinement` proves
`Spec => Counter!Spec` with the map `out <- printed`, `taken <- Taken`: `Printf`
is the abstract step, since `PtrInStep` makes the printed register equal to
`Len(printed)`; every other step is a stutter.

**`MsgQueue_proofs`.** `Accounted` alone is not inductive either: a message sent
straight to a waiting receiver overtakes nothing only if the queue is empty
(`WaitsOnEmpty`), and the queue that `msgget` makes must find empty histories
(`BeforeQueue`) and nothing destroyed (`Undropped`). `ReceivedIsPrinted` needs the message in the
thread's hand (`InHand`) and that a process ends so only when the thread is over
(`ThreadOver`). `QueueLeft` needs `QueueOrRemoved`, `AfterRmid` and
`EndedWithout`. `RoomForLine` and `BeforeThread` close the argument. `Inductive`
proves the conjunction, action by action and conjunct by conjunct; the lemmas
before it state what each group of conjuncts looks like after a step, and what
`Append` and concatenation preserve. `Refinement` proves `Spec => Lines!Spec`, the first-in-first-out
promise of `LineQueue`: an accepted line is one that `msgsnd` took, a delivered
one is one that is printed; `Accounted` and `InHand` make the printed line the
next one.

**`FileLocks_proofs`.** `Exclusive` speaks of what the programs believe,
`VerdictRight` of one line at the end. `IInv` adds `NoConflict` (the kernel's
table excludes), `RunsHold` and `ParentHolds` (who believes to have a lock has
it until `record_lock.c:85` unlocks, unless the kernel refused it, which line 78
does not notice),
`Steps` (where parent and child may be together) and `ParentStays` (a child that
was told finds the parent in `waitpid`, with its lock). Granting and releasing
are two lemmas about the table, whatever the range.

**`StreamCopy_proofs`.** `NothingMisplaced` is nearly inductive; it needs
`Unread` and `Shorter` for the truncation at `copy.c:39`. `SuccessMeansCopied`
needs `BufferEmpty` and `AtTheEnd`: a program reaches its end only with an empty
buffer and all of the input read. `OwnWay` keeps the four programs apart. The
lemmas before them say what prefix and rest of a sequence of bytes are.

**`NiceInfluence_proofs`.** `EndsOnTime` says that an exit comes exactly at the
deadline. That it is not earlier follows from the lemmas on seconds and
microseconds; that it is not later needs `OnSchedule`: while a process that looks
at each tick runs, the time is not past the deadline, and if it is there, the
process has yet to look. `InProgram` and `BeforeFork` say where the processes
are; `ChildShown` carries the nice value from `nice` to its line. `NiceShown`
follows from what each place of `setpriority.c` has asked for.

**`Processes_proofs`**, `SigChld`. The verdicts depend on what each part leaves
behind: `NoHandlerYet` (no signal is pending before the handler is established),
`FirstPart` (`count` is positive as soon as a child was waited for, and none can
be if the kernel discards), `SecondPart` (one child, which is a zombie when the
handler is established), `AtLastWait` (the handler has the child exactly if the
kernel is eager). `ChldHandlerFindsChild` follows: the handler's `wait` never
fails.

**`Processes_proofs`**, `Commands`. `Decoded` is the arithmetic of `WIFEXITED`,
`WEXITSTATUS`, `WIFSIGNALED` and `WTERMSIG`: a status tells the end that it was
made from. `Waiting`, `LineForEach` and `StatusIsLast` say that between the end
of a command and its line nothing else ends and no other status is stored.

**`Processes_proofs`**, `Accounting`. That the records come in the order of the
sleeps is a fact about time: on an idle machine everything but the sleeps happens
at time 0 (`OnTime`), so that a process ends exactly when the sleep it asked for
does, unless its `fork` failed (`Broken`); no two sleep equally long, and so
`InOrder` holds. `OneRecord` and `Printed` give the rest: a record for each process
that has ended, and the lines are the records so far.

**`Processes_proofs`**, `Streams`. `Atexit` gives, for every place of `exit.c`, the
handlers that are left and the text so far, which is in `shown` or in `obuf`
(`Buffered`): with n handlers called, the first 4 - n of those registered, and n
lines after what `main` said. For `fdopen.c`, `Untouched` (the file has just the
records of others) holds until the write, and after it `NoneLost` or the record
at the beginning (`Fdopened`); others append all the while.

**`Processes_proofs`**, `Threads`. `JoinsRight` looks back over the whole output.
`Written` says, from where a thread is, how many of the lines that it may write it
has written, and `InOrder` that these are the first ones of its lines, whatever
the others have written in between. `InBody` and `AtCall` give the handlers that are
pushed at each call and the value that a thread leaves with; `InPlace` gives, from
the place of `main`, which threads it has joined and what the last join has
stored. A thread that has been joined writes no more (`Apart`), so that what was
there when its line was printed is all (`AllShown`). `NoneCutShort` needs `Slept`:
if no thread can run when the sleep of `pthread_identification.c` ends, its thread
has ended, since it never pauses.

**`Processes_proofs`**, the composition. `Processes` runs one of many programs.
The lemmas show that no step exchanges the program and that every step of
a program is one of its module, so that the theorems above carry over:
`VerdictsRight`, `DeadlineKept`, `ShownRight`, `StatusToldRight`, `RecordsShown`,
`ExitShownRight`, `WriteGoesAsTold`, `JoinsAreRight`, `NobodyCutShort`.

**`Files_proofs`.** `UnlinkTold` and `KeptThenFreed` speak of the step from
`open` to `unlink`, with any number of other programs in between. `IInv` says
what the directory owes to the open file meanwhile: `OpenIsKept` (it is there,
whatever its names), `StillHere` ("a" leads to it as long as nobody has moved
that name), `OnlyName` (while `alone` holds it has no other name, and after the
unlink none comes back); `NamesLead` keeps directory and inodes together and
`Progress` orders what `main` has done. All programs that change names do it
through `Leaves`: the lemma `LeavesIInv` says what the new directory must be like
for the invariant to hold, so that `rename`, `link`, `linkat` and `symlink` only
have to show that. `ModesTold` needs `ToldModes` and the two listings as
functions of the mode (`ModesAsListed`).

**`Signals_proofs`**, `SigQueued`. None of the four invariants is inductive: they
speak of handlers that interrupt handlers, and everything depends on which of
them can. `Nested` answers that: at most three, the outermost one a `sig_quit`
that waits for the child or will, above it at most one `sig_quit` and one
`sig_usr`, which return at once; it gives the mask at each moment, which
`sigsuspend(&zeromask)` and every return change. `Waits` and `Tells` are about
the wake-up: `waitflag` is 0 exactly from the first handler on, and `sigflag` is
set, or the wait over, only if the SIGUSR2 of the child has been delivered.
`Counted` balances what is sent with what is counted, about to be counted and
pending: never more, and the same on an idle machine. That needs the time:
`ChildTime` says at which second the child is where, `Fresh` that each SIGQUIT
finds the one before delivered, `MainTime` that the parent does not wake up
before.

**`Signals_proofs`**, `SigSemantics`. `AnswersRight` speaks of answers that are
computed many steps after the signals that decide them, so `IInv` follows each
question from `Signal` to its answer. `Masked` gives the mask from the innermost
handler, `Quiet` says that between the questions nothing is pending and no
handler runs (`QuestionsApart` follows), and `Children` says which child there is
and how far it has come. `First`, `Second` and `Third` say, for each question, what can be
pending, what is installed for it and which handlers run. The second question is
the hard one: `SleepsToEnd` shows that `left` is 0 if the signal is blocked;
`SleepInterrupted` lists, for System V semantics on an idle machine, the stages
of the interrupted sleep against those of the child (`ToSleep` at second 0,
`Asleep` until second 2, then `Interrupted`, with the two or three seconds that
are left in one frame or another until `left` has them). `Compared` keeps what
that leaves. `KilledInWindow` rests on one clause of `Second`: a SIGUSR2 that is
pending finds the handler installed, unless the machine is busy, the semantics are
those of System V, and the innermost handler is a `sig_usr2` that has not called
`signal` yet (`InWindow`).

**`Signals_proofs`**, `SigJump` and `SigPending`. The mask that a line shows is
that of the handlers that run, so `IInv` of `SigJump` says which these are
(`IsUsr`, `IsAlrm`: never another order), which mask they leave (`Masked`), that
the alarm goes off while `sig_usr1` waits for it, neither before nor after
(`AlarmOnTime`), and which line was the last (`LastShown`). `NoEnding` and
`Canjump` account for the jump. `SigPending` needs `Masked`, `Catches` (one
SIGQUIT is caught, since the handler resets the action before it returns) and
`ShownIsKept` (what was shown as pending is pending until it is caught).

**`Signals_proofs`**, the composition: as in `Processes_proofs`, `SameProgram` and
one lemma for each module (`QueueStep`, `SemStep`, `JumpStep`, `PendStep`) make a behaviour
of `MCSignals` one of the module whose program runs, and the theorems carry over.

**Only model-checked:** all liveness properties, which need fairness and
`ENABLED`, out of the prover's reach, and the fairness of the refinements (there is
none in the abstract specifications). Every invariant of the passing runs is
proved. What a recursive definition computes for every input would need
induction over data and is not proved; no module has one.

## 5. Not modelled, and why

* `exit_status.c`, `echoall.c`, `show_id.c`, `interpreter`: no state. What
  `exit_status.c` prints for a number is `PrExit` of `Commands`.
* `rlimit.c`, `file_status_flags.c`, `FILE.c`, `stream_stat.c`, `tmpnam.c`,
  `mem_stream.c`, `socket/`: print what one call returns, which is the kernel's
  or the library's, and nothing later depends on it.
* `setjmp.c`: the values of its locals after `longjmp` depend on the optimiser;
  a model would only repeat the rule of the language.
* Process accounting, partly: `compt2ulong`, the elapsed times and the
  characters transferred are printed and nothing depends on them.
* Times and ids that are printed; scheduling by nice value.
* Within modelled files: the wording of messages, `getline`'s and `malloc`'s
  bookkeeping, file names, sizes and owners; `lock_reg` (`record_lock.c:18-39`)
  and `TELL_CHILD`/`WAIT_PARENT` of `sig_queued.c`, which nothing calls.

## 6. Plan

Done, the most important behaviour first:

1. `SharedCounter` with `AtomicCounter`; `MsgQueue` with `LineQueue`; invariants
   and refinements checked and proved.
2. `PosixSignals`, `SigQueued`, `SigSemantics`, `SigJump`, `SigPending`,
   composed in `MCSignals`; proofs of all four modules, carried over to the
   composition.
3. `FcntlLocks`, `RecordLock`, `MandatoryLock`, composed in `FileLocks`;
   `StreamCopy`; proofs of both.
4. `SigChld`, `Threads`, `NiceInfluence`, `Commands`, `Accounting`, `Streams`,
   composed in `Processes`; proofs of all six, carried over to the composition.
5. `FileStat`, `Files`; proofs of the invariants of `Files`.

Left:

1. `compt2ulong`: an operator on 16-bit words against the value it stands for.
2. `mem_stream.c`, once what the C library does with its buffer is pinned down.
