------------------------------ MODULE Threads ------------------------------
(***************************************************************************)
(* threads/: pthread_exit.c, pthread_cleanup.c, pthread_identification.c   *)
(* and pthread_mutex_timedlock.c.  Each is a main that creates threads,    *)
(* joins or cancels them and prints what they ended with.  The variable    *)
(* program says which one runs; main and the threads of a program are      *)
(* sequences of calls.                                                     *)
(*                                                                         *)
(* With prompt = TRUE the sleep of main ends when no thread can run, as on *)
(* an idle machine; with prompt = FALSE it may end at any time.  The exit  *)
(* or return of main ends every thread.                                    *)
(***************************************************************************)
EXTENDS Integers, Sequences, FiniteSets

VARIABLES
  program, prompt,
  mpc,      \* the call of main that comes next
  tret,     \* what the last pthread_join has stored
  locked,   \* is the mutex of pthread_mutex_timedlock.c locked?
  thread,   \* thread[t]: the state of thread t
  out,      \* the lines on standard output
  end       \* how the process ended, "" if it has not

mainvars == <<mpc, tret, locked>>
vars == <<program, prompt, mainvars, thread, out, end>>

Programs == {"exit", "cleanup", "identification", "timedlock"}
Tids     == 1 .. 4
CANCELED == -1               \* PTHREAD_CANCELED
Detached == {4}              \* created with PTHREAD_CREATE_DETACHED

Call(do, arg) == [do |-> do, arg |-> arg]

\* pthread_exit.c
MainExit == <<Call("create", 1), Call("create", 2), Call("create", 3), Call("create", 4),
              Call("join", 1), Call("print", 1), Call("join", 2), Call("print", 2),
              Call("cancel", 3), Call("join", 3), Call("print", 3),
              Call("join", 4), Call("print", 4)>>

ThrExit == <<<<Call("say", 1), Call("return", 1)>>,
             <<Call("say", 1), Call("exit", 2)>>,
             <<Call("say", 1), Call("pause", 0), Call("exit", 3)>>,
             <<Call("say", 1), Call("pause", 0), Call("exit", 4)>>>>

\* pthread_cleanup.c: arg is not NULL, so that both leave before they pop.
MainCleanup == <<Call("create", 1), Call("create", 2),
                 Call("join", 1), Call("print", 1), Call("join", 2), Call("print", 2)>>

ThrCleanup == <<<<Call("say", 1), Call("push", 1), Call("push", 2), Call("say", 2),
                  Call("return", 1)>>,
                <<Call("say", 1), Call("push", 1), Call("push", 2), Call("say", 2),
                  Call("exit", 2)>>>>

\* pthread_identification.c
MainIdentification == <<Call("create", 1), Call("printids", 0), Call("sleep", 2)>>

ThrIdentification == <<<<Call("say", 1), Call("return", 0)>>>>

\* pthread_mutex_timedlock.c
MainTimedlock == <<Call("lock", 0), Call("timedlock", 5)>>

Main == CASE program = "exit"           -> MainExit
          [] program = "cleanup"        -> MainCleanup
          [] program = "identification" -> MainIdentification
          [] program = "timedlock"      -> MainTimedlock

Body(t) == CASE program = "exit"           -> ThrExit[t]
             [] program = "cleanup"        -> ThrCleanup[t]
             [] program = "identification" -> ThrIdentification[t]

Line(by, what, arg, value) == [by |-> by, what |-> what, arg |-> arg, value |-> value]

Init == /\ program \in Programs /\ prompt \in BOOLEAN
        /\ mpc = 1 /\ tret = 0 /\ locked = FALSE
        /\ thread = [t \in Tids |-> [phase |-> "none", pc |-> 1, value |-> 0,
                                     pushed |-> <<>>, canceled |-> FALSE]]
        /\ out = <<>> /\ end = ""

---------------------------------------------------------------------------
\* main

MainCalls(do) == /\ end = "" /\ mpc =< Len(Main) /\ Main[mpc].do = do
                 /\ UNCHANGED <<program, prompt>>
Arg == Main[mpc].arg
Go(do) == MainCalls(do) /\ mpc' = mpc + 1 /\ UNCHANGED end
Fail(do) == MainCalls(do) /\ end' = "exit 1" /\ UNCHANGED mpc

Create == \/ /\ Go("create")
             /\ thread' = [thread EXCEPT ![Arg].phase = "running"]
             /\ UNCHANGED <<tret, locked, out>>
          \/ Fail("create") /\ UNCHANGED <<tret, locked, thread, out>>

\* Mutant: main does not wait for the thread.
JoinNoWait == \/ /\ Go("join") /\ tret' = thread[Arg].value
                 /\ UNCHANGED <<locked, thread, out>>

\* pthread_join waits for the end of the thread.  That of a detached thread is
\* undefined; thread 4 still runs, so that it fails, or the process crashes.
Join == \/ /\ Go("join") /\ Arg \notin Detached
           /\ thread[Arg].phase = "ended"
           /\ tret' = thread[Arg].value
           /\ UNCHANGED <<locked, thread, out>>
        \/ /\ MainCalls("join") /\ Arg \in Detached
           /\ end' \in {"exit 1", "crash"}
           /\ UNCHANGED <<mainvars, thread, out>>

PrintCode == /\ Go("print")
             /\ out' = Append(out, Line(0, "exit code", Arg, tret))
             /\ UNCHANGED <<tret, locked, thread>>

Cancel == /\ Go("cancel")
          /\ thread' = [thread EXCEPT ![Arg].canceled = TRUE]
          /\ UNCHANGED <<tret, locked, out>>

PrintIds == /\ Go("printids")
            /\ out' = Append(out, Line(0, "ids", 0, 0))
            /\ UNCHANGED <<tret, locked, thread>>

Lock == /\ Go("lock") /\ ~locked
        /\ locked' = TRUE
        /\ UNCHANGED <<tret, thread, out>>

\* Mutant: pthread_mutex_lock, which waits for ever.
TimedlockForever == /\ Go("timedlock") /\ ~locked
                    /\ locked' = TRUE
                    /\ UNCHANGED <<tret, thread, out>>

\* The mutex is free, or it is still locked after five seconds.
Timedlock == /\ Go("timedlock")
             /\ locked' = TRUE
             /\ out' = Append(out, Line(0, "timedlock", 0, IF locked THEN 1 ELSE 0))
             /\ UNCHANGED <<tret, thread>>

\* No thread can take a step.
Idle(t) == \/ thread[t].phase \in {"none", "ended"}
           \/ /\ thread[t].phase = "running" /\ ~thread[t].canceled
              /\ Body(t)[thread[t].pc].do = "pause"

\* Mutant: main does not sleep.
NoSleep == Go("sleep") /\ UNCHANGED <<tret, locked, thread, out>>

Sleep == /\ Go("sleep")
         /\ prompt => \A t \in Tids : Idle(t)
         /\ UNCHANGED <<tret, locked, thread, out>>

Return == /\ end = "" /\ mpc > Len(Main)
          /\ end' = "return"
          /\ UNCHANGED <<program, prompt, mainvars, thread, out>>

---------------------------------------------------------------------------
\* The threads

Calls(t, do) == /\ end = "" /\ thread[t].phase = "running"
                /\ Body(t)[thread[t].pc].do = do
                /\ UNCHANGED <<program, prompt, mainvars>>
ArgOf(t) == Body(t)[thread[t].pc].arg

Say(t) == /\ Calls(t, "say")
          /\ thread' = [thread EXCEPT ![t].pc = @ + 1]
          /\ out' = Append(out, Line(t, "say", ArgOf(t), 0))
          /\ UNCHANGED end

CleanupPush(t) == /\ Calls(t, "push")
                  /\ thread' = [thread EXCEPT ![t].pc = @ + 1,
                                              ![t].pushed = <<ArgOf(t)>> \o @]
                  /\ UNCHANGED <<out, end>>

Leave(t, phase, value) ==
  /\ thread' = [thread EXCEPT ![t].phase = phase, ![t].value = value]
  /\ UNCHANGED <<out, end>>

\* To return between push and pop is undefined: the handlers do not run, or do,
\* or the process crashes.
ReturnFrom(t) == /\ Calls(t, "return")
                 /\ \/ Leave(t, "ended", ArgOf(t))
                    \/ thread[t].pushed # <<>> /\ Leave(t, "unwinding", ArgOf(t))
                    \/ /\ thread[t].pushed # <<>>
                       /\ end' = "crash"
                       /\ UNCHANGED <<thread, out>>

PthreadExit(t) == Calls(t, "exit") /\ Leave(t, "unwinding", ArgOf(t))

\* A canceled thread ends in pause; it may do so in printf, too.
Canceled(t) == /\ thread[t].canceled
               /\ Calls(t, "pause") \/ Calls(t, "say")
               /\ Leave(t, "unwinding", CANCELED)

\* The handlers that are pushed run, the last one first.
Unwind(t) ==
  /\ end = "" /\ thread[t].phase = "unwinding"
  /\ \/ /\ thread[t].pushed = <<>>
        /\ Leave(t, "ended", thread[t].value)
     \/ /\ thread[t].pushed # <<>>
        /\ thread' = [thread EXCEPT ![t].pushed = Tail(@)]
        /\ out' = Append(out, Line(t, "cleanup", Head(thread[t].pushed), 0))
        /\ UNCHANGED end
  /\ UNCHANGED <<program, prompt, mainvars>>

---------------------------------------------------------------------------
MainStep == \/ Create \/ Join \/ PrintCode \/ Cancel \/ PrintIds
            \/ Lock \/ Timedlock \/ Sleep \/ Return

ThreadStep(t) == \/ Say(t) \/ CleanupPush(t) \/ ReturnFrom(t) \/ PthreadExit(t)
                 \/ Canceled(t) \/ Unwind(t)

Ended == end # ""

Next == MainStep \/ (\E t \in Tids : ThreadStep(t)) \/ (Ended /\ UNCHANGED vars)

Spec == Init /\ [][Next]_vars

\* The scheduler runs every thread that can run.
FairSpec == Spec /\ WF_vars(MainStep) /\ \A t \in Tids : WF_vars(ThreadStep(t))

---------------------------------------------------------------------------
(* Properties *)

\* What main prints of thread t is what t ended with, and all that t wrote
\* comes before: the handlers that pthread_exit runs, the last one first, and
\* for thread 3 its line unless the cancellation came first
\* (pthread_exit.c:66-87, pthread_cleanup.c:31, 52-61).  Thread 4, which is
\* detached, gets no such line (pthread_exit.c:89-93).
Says(t)     == IF program = "exit" THEN <<Line(t, "say", 1, 0)>>
               ELSE <<Line(t, "say", 1, 0), Line(t, "say", 2, 0)>>
AllLines(t) == <<Line(t, "say", 1, 0), Line(t, "say", 2, 0),
                 Line(t, "cleanup", 2, 0), Line(t, "cleanup", 1, 0)>>
OutputOf(t) == CASE program = "exit" /\ t = 3    -> {<<>>, Says(t)}
                 [] program = "exit" /\ t # 3    -> {Says(t)}
                 [] program = "cleanup" /\ t = 1 -> {Says(t), AllLines(t)}
                 [] program = "cleanup" /\ t = 2 -> {AllLines(t)}

\* How many of the first k lines of s are those of t, and whether they are these.
Count(s, t, k) == Cardinality({i \in 1 .. k : s[i].by = t})
Wrote(t, k, lines) ==
  /\ Count(out, t, k) = Len(lines)
  /\ \A j \in 1 .. k : out[j].by = t => out[j] = lines[Count(out, t, j)]

JoinsRight ==
  \A k \in DOMAIN out : out[k].what = "exit code" =>
    LET t == out[k].arg
    IN  /\ t # 4
        /\ out[k].value = IF t = 3 THEN CANCELED ELSE t
        /\ \E lines \in OutputOf(t) : Wrote(t, k, lines)
        /\ \A j \in k + 1 .. Len(out) : out[j].by # t

\* The return of main cuts no thread short, but for one that it waits for by
\* sleeping, on a busy machine (pthread_identification.c:36).
NoneCutShort ==
  end = "return" => \/ \A t \in Tids : thread[t].phase \in {"none", "ended"}
                    \/ program = "identification" /\ ~prompt

\* main ends: the thread that pauses is canceled before it is joined
\* (pthread_exit.c:78-82), and the second lock gives up
\* (pthread_mutex_timedlock.c:24).
MainEnds == <>Ended
---------------------------------------------------------------------------
(* The inductive invariant *)

Ways    == {"say", "cleanup", "exit code", "ids", "timedlock"}
Lines   == [by : 0 .. 4, what : Ways, arg : 0 .. 4, value : -1 .. 4]
Phases  == {"none", "running", "unwinding", "ended"}
Left    == {"unwinding", "ended"}
Stack(n) == IF n = 0 THEN <<>> ELSE IF n = 1 THEN <<1>> ELSE <<2, 1>>
Stacks  == {Stack(0), Stack(1), Stack(2)}
ThreadStates == [phase : Phases, pc : 1 .. 5, value : -1 .. 4, pushed : Stacks,
                 canceled : BOOLEAN]
TypeOK == /\ program \in Programs /\ prompt \in BOOLEAN
          /\ mpc \in 1 .. 13 /\ tret \in -1 .. 4 /\ locked \in BOOLEAN
          /\ thread \in [Tids -> ThreadStates]
          /\ out \in Seq(Lines)
          /\ end \in {"", "exit 1", "crash", "return"}

\* The threads of the program, where each is and what it ends with.
Code(t) == CASE program = "identification" -> 0
             [] program # "identification" /\ t = 3 -> CANCELED
             [] program # "identification" /\ t # 3 -> t
Own == CASE program = "exit"           -> 1 .. 4
         [] program = "cleanup"        -> 1 .. 2
         [] program = "identification" -> {1}
         [] program = "timedlock"      -> {}
InBody(t, th) == /\ th.phase = "none" => th.pc = 1 /\ th.pushed = Stack(0)
                 /\ th.phase # "none" => t \in Own
                 /\ th.phase \in Left => th.value = Code(t)
                 /\ th.canceled => program = "exit" /\ t = 3
AtCall(t, th) ==
  /\ program # "cleanup" => /\ th.pushed = Stack(0) /\ th.pc \in 1 .. 2
                            /\ th.phase \in Left /\ t # 3 => th.pc = 2
                            /\ program = "exit" /\ t = 4 => th.phase \notin Left
  /\ program = "cleanup" =>
       /\ th.phase = "running" => /\ th.pc =< 2 => th.pushed = Stack(0)
                                  /\ th.pc = 3  => th.pushed = Stack(1)
                                  /\ th.pc >= 4 => th.pushed = Stack(2)
       /\ th.phase \in Left => th.pc = 5
       /\ th.phase = "ended" /\ t # 1 => th.pushed = Stack(0)
       /\ th.phase = "ended" => th.pushed # Stack(1)

\* What main has waited for.
Joined(t) == thread[t].phase = "ended"
Started == \A t \in Tids : /\ mpc =< t => thread[t].phase = "none"
                           /\ mpc > t /\ t \in Own => thread[t].phase # "none"
ExitAt ==
  /\ mpc \in 1 .. 12
  /\ (mpc >= 6 => Joined(1)) /\ (mpc >= 8 => Joined(2)) /\ (mpc >= 11 => Joined(3))
  /\ (mpc = 6 => tret = 1) /\ (mpc = 8 => tret = 2) /\ (mpc = 11 => tret = CANCELED)
CleanupAt == /\ mpc \in 1 .. 7
             /\ (mpc >= 4 => Joined(1)) /\ (mpc >= 6 => Joined(2))
             /\ (mpc = 4 => tret = 1) /\ (mpc = 6 => tret = 2)
Slept   == ~prompt \/ Joined(1)
SleepAt == mpc \in 1 .. 4 /\ (mpc = 4 => Slept)
LockAt  == mpc \in 1 .. 3
InPlace == /\ program = "exit" => ExitAt
           /\ program = "cleanup" => CleanupAt
           /\ program = "identification" => SleepAt
           /\ program = "timedlock" => LockAt
Returned == end = "return" => mpc > Len(Main)
InMain == InPlace /\ Returned

\* The lines of a thread are the first of those that it may write.
Written(th) ==
  IF program # "cleanup" THEN th.pc - 1
  ELSE (IF th.pc = 1 THEN 0 ELSE IF th.pc = 5 THEN 2 ELSE 1)
       + (IF th.phase \in Left THEN 2 - Len(th.pushed) ELSE 0)
FirstOf(s, t, w) ==
  /\ Count(s, t, Len(s)) = w
  /\ \A j \in 1 .. Len(s) : s[j].by = t => s[j] = AllLines(t)[Count(s, t, j)]
InOrder == program \in {"exit", "cleanup"} => \A t \in Tids : FirstOf(out, t, Written(thread[t]))

\* Nothing comes from a thread whose end has been shown.
IsCode(l) == l.what = "exit code"
Ends(l) == /\ program \in {"exit", "cleanup"} /\ l.arg \in {1, 2, 3} \cap Own
           /\ Joined(l.arg) /\ l.value = Code(l.arg)
Apart(s) == \A k \in 1 .. Len(s) : IsCode(s[k]) =>
              \A j \in k + 1 .. Len(s) : s[j].by # s[k].arg
Shown == (\A k \in 1 .. Len(out) : IsCode(out[k]) => Ends(out[k])) /\ Apart(out)

IInv == /\ TypeOK /\ (\A t \in Tids : InBody(t, thread[t]) /\ AtCall(t, thread[t]))
        /\ Started /\ InMain /\ InOrder /\ Shown
=============================================================================
