------------------------------ MODULE MsgQueue ------------------------------
(***************************************************************************)
(* interprocess_communication/sv_msq.c: main reads lines and sends them    *)
(* through a System V message queue to a thread that prints them; at the   *)
(* end of the input it removes the queue and joins the thread.             *)
(*                                                                         *)
(* Several processes run the program with the same path and project id.    *)
(* The queue outlives the process that made it, so a later process may     *)
(* meet the one that a killed process left.  A message is named by the     *)
(* process that sends it and its place in that process's input.            *)
(*                                                                         *)
(* External: the queue, standard input, a signal that kills a process, and *)
(* an administrator who removes a queue with ipcrm.                        *)
(***************************************************************************)
EXTENDS Naturals, Sequences

CONSTANTS
  Procs,     \* the processes that run the program
  MaxLines,  \* bound: the lines one process finds on standard input
  Capacity,  \* how many messages the queue holds
  NoProc     \* not a process: the key has no queue

ASSUME MsgQueueAssumption == /\ MaxLines \in Nat
                             /\ Capacity \in Nat \ {0}
                             /\ NoProc \notin Procs

VARIABLES
  owner,    \* whose msgget created the queue of the key, NoProc if none
  msgs,     \* the messages in that queue
  mpc,      \* mpc[p]: where p's main is
  cpc,      \* cpc[p]: where p's thread thr_func is
  sent,     \* sent[p]: what p's main has sent
  got,      \* got[p]: what msgrcv has returned to p's thread
  printed,  \* printed[p]: what p's thread has printed
  dropped,  \* dropped[p]: what was destroyed with p's queue
  end,      \* end[p]: how process p ended, "" if it has not
  ipcrmed   \* the processes whose queue the administrator removed

queue == <<owner, msgs>>
threads == <<mpc, cpc>>
history == <<sent, got, printed, dropped>>
vars == <<queue, threads, history, end, ipcrmed>>

MainPcs   == {"msgget", "create", "fgets", "msgsnd", "rmid", "join", "done"}
ThreadPcs == {"none", "malloc", "msgrcv", "blocked", "eidrm", "print", "over"}
Endings   == {"", "return", "msgget", "create", "nomem", "msgsnd", "rmid",
              "msgrcv", "killed"}

Message(p, n) == [from |-> p, line |-> n]
Messages == [from : Procs, line : 1 .. MaxLines]

Alive(p) == end[p] = ""

\* msqid names a queue that still exists.
Exists(p) == owner = p
InQueue(p) == IF Exists(p) THEN msgs ELSE <<>>

Init == /\ owner = NoProc
        /\ msgs = <<>>
        /\ mpc = [p \in Procs |-> "msgget"]
        /\ cpc = [p \in Procs |-> "none"]
        /\ sent = [p \in Procs |-> <<>>]
        /\ got = [p \in Procs |-> <<>>]
        /\ printed = [p \in Procs |-> <<>>]
        /\ dropped = [p \in Procs |-> <<>>]
        /\ end = [p \in Procs |-> ""]
        /\ ipcrmed = {}

---------------------------------------------------------------------------
\* exit(1), or the return of main: both threads of p are gone.
Ends(p, how) == end' = [end EXCEPT ![p] = how]

MainGoto(p, from, to) == /\ Alive(p)
                         /\ mpc[p] = from
                         /\ mpc' = [mpc EXCEPT ![p] = to]

ThreadGoto(p, from, to) == /\ Alive(p)
                           /\ cpc[p] = from
                           /\ cpc' = [cpc EXCEPT ![p] = to]

\* Mutant: IPC_CREAT without IPC_EXCL takes over the queue that is there.
MsgGetNoExcl(p) == /\ MainGoto(p, "msgget", "create")
                   /\ owner' = p
                   /\ UNCHANGED <<msgs, cpc, history, end, ipcrmed>>

\* msgget(key, IPC_CREAT | IPC_EXCL): fails while the key has a queue, and for
\* want of memory or of an id.
MsgGet(p) == \/ /\ owner = NoProc
                /\ MainGoto(p, "msgget", "create")
                /\ owner' = p
                /\ msgs' = <<>>
                /\ UNCHANGED <<cpc, history, end, ipcrmed>>
             \/ /\ MainGoto(p, "msgget", "done")
                /\ Ends(p, "msgget")
                /\ UNCHANGED <<queue, cpc, history, ipcrmed>>

\* pthread_create may fail; the program exits and the queue remains.
Create(p) == \/ /\ MainGoto(p, "create", "fgets")
                /\ cpc' = [cpc EXCEPT ![p] = "malloc"]
                /\ UNCHANGED <<queue, history, end, ipcrmed>>
             \/ /\ MainGoto(p, "create", "done")
                /\ Ends(p, "create")
                /\ UNCHANGED <<queue, cpc, history, ipcrmed>>

\* The next line of the input, or its end.
Fgets(p) == /\ \/ /\ Len(sent[p]) < MaxLines
                  /\ MainGoto(p, "fgets", "msgsnd")
               \/ MainGoto(p, "fgets", "rmid")
            /\ UNCHANGED <<queue, cpc, history, end, ipcrmed>>

\* The kernel hands the message to a receiver that waits, or queues it.
Send(p, m) == \/ /\ cpc[p] = "blocked"
                 /\ cpc' = [cpc EXCEPT ![p] = "print"]
                 /\ got' = [got EXCEPT ![p] = Append(@, m)]
                 /\ UNCHANGED queue
              \/ /\ cpc[p] # "blocked"
                 /\ Len(msgs) < Capacity
                 /\ msgs' = Append(msgs, m)
                 /\ UNCHANGED <<owner, cpc, got>>

\* msgsnd blocks while the queue is full and fails once it has been removed.
MsgSnd(p) == \/ /\ Exists(p)
                /\ MainGoto(p, "msgsnd", "fgets")
                /\ LET m == Message(p, Len(sent[p]) + 1)
                   IN  Send(p, m) /\ sent' = [sent EXCEPT ![p] = Append(@, m)]
                /\ UNCHANGED <<printed, dropped, end, ipcrmed>>
             \/ /\ ~Exists(p)
                /\ MainGoto(p, "msgsnd", "done")
                /\ Ends(p, "msgsnd")
                /\ UNCHANGED <<queue, cpc, history, ipcrmed>>

\* msgsnd may also fail while the queue is there, whether it is full or not:
\* ENOMEM, or EINVAL for a line longer than the kernel's msgmax.  The program
\* exits and the queue remains.
MsgSndFails(p) == /\ Exists(p)
                  /\ MainGoto(p, "msgsnd", "done")
                  /\ Ends(p, "msgsnd")
                  /\ UNCHANGED <<queue, cpc, history, ipcrmed>>

\* The removal of p's queue destroys what is in it and wakes its receiver.
Remove(p) == /\ owner' = NoProc
             /\ msgs' = <<>>
             /\ dropped' = [dropped EXCEPT ![p] = msgs]
             /\ cpc' = [cpc EXCEPT ![p] = IF @ = "blocked" THEN "eidrm" ELSE @]

\* Mutant: main returns at once, without IPC_RMID.
ReturnNoRmid(p) == /\ MainGoto(p, "rmid", "done")
                   /\ Ends(p, "return")
                   /\ UNCHANGED <<queue, cpc, history, ipcrmed>>

\* Mutant: main joins the thread without IPC_RMID.
NoRmid(p) == /\ MainGoto(p, "rmid", "join")
             /\ UNCHANGED <<queue, cpc, history, end, ipcrmed>>

\* msgctl(msqid, IPC_RMID)
Rmid(p) == \/ /\ Exists(p)
              /\ MainGoto(p, "rmid", "join")
              /\ Remove(p)
              /\ UNCHANGED <<sent, got, printed, end, ipcrmed>>
           \/ /\ ~Exists(p)
              /\ MainGoto(p, "rmid", "done")
              /\ Ends(p, "rmid")
              /\ UNCHANGED <<queue, cpc, history, ipcrmed>>

\* Mutant: main does not wait for the thread.
NoJoin(p) == /\ MainGoto(p, "join", "done")
             /\ Ends(p, "return")
             /\ UNCHANGED <<queue, cpc, history, ipcrmed>>

\* pthread_join, and main returns 0.
Join(p) == /\ cpc[p] = "over"
           /\ MainGoto(p, "join", "done")
           /\ Ends(p, "return")
           /\ UNCHANGED <<queue, cpc, history, ipcrmed>>

---------------------------------------------------------------------------
\* The thread thr_func.

\* The thread's buffer, or exit(1) if there is no memory for it.
Malloc(p) == \/ /\ ThreadGoto(p, "malloc", "msgrcv")
                /\ UNCHANGED <<queue, mpc, history, end, ipcrmed>>
             \/ /\ ThreadGoto(p, "malloc", "over")
                /\ Ends(p, "nomem")
                /\ UNCHANGED <<queue, mpc, history, ipcrmed>>

\* msgrcv takes the oldest message, waits if there is none, and fails with
\* EINVAL (not EIDRM) if the queue was removed before the call: exit(1).  Its
\* other errors need a signal handler, or a message longer than the buffer.
MsgRcv(p) == \/ /\ Exists(p)
                /\ msgs # <<>>
                /\ ThreadGoto(p, "msgrcv", "print")
                /\ got' = [got EXCEPT ![p] = Append(@, Head(msgs))]
                /\ msgs' = Tail(msgs)
                /\ UNCHANGED <<owner, mpc, sent, printed, dropped, end, ipcrmed>>
             \/ /\ Exists(p)
                /\ msgs = <<>>
                /\ ThreadGoto(p, "msgrcv", "blocked")
                /\ UNCHANGED <<queue, mpc, history, end, ipcrmed>>
             \/ /\ ~Exists(p)
                /\ ThreadGoto(p, "msgrcv", "over")
                /\ Ends(p, "msgrcv")
                /\ UNCHANGED <<queue, mpc, history, ipcrmed>>

\* Mutant: the buffer keeps the first message.
PrintFirst(p) == /\ ThreadGoto(p, "print", "msgrcv")
                 /\ printed' = [printed EXCEPT ![p] = Append(@, got[p][1])]
                 /\ UNCHANGED <<queue, mpc, sent, got, dropped, end, ipcrmed>>

PrintMsg(p) == /\ ThreadGoto(p, "print", "msgrcv")
               /\ printed' = [printed EXCEPT ![p] = Append(@, got[p][Len(got[p])])]
               /\ UNCHANGED <<queue, mpc, sent, got, dropped, end, ipcrmed>>

\* EIDRM: "msgrcv over", free and pthread_exit.
Over(p) == /\ ThreadGoto(p, "eidrm", "over")
           /\ UNCHANGED <<queue, mpc, history, end, ipcrmed>>

---------------------------------------------------------------------------
\* External: a signal kills p; the administrator removes the queue.

Kill(p) == /\ Alive(p)
           /\ Ends(p, "killed")
           /\ UNCHANGED <<queue, threads, history, ipcrmed>>

Ipcrm(p) == /\ Exists(p)
            /\ Remove(p)
            /\ ipcrmed' = ipcrmed \cup {p}
            /\ UNCHANGED <<mpc, sent, got, printed, end>>

---------------------------------------------------------------------------
Main(p) == \/ MsgGet(p) \/ Create(p) \/ Fgets(p) \/ MsgSnd(p) \/ Rmid(p)
           \/ Join(p)

Thread(p) == Malloc(p) \/ MsgRcv(p) \/ PrintMsg(p) \/ Over(p)

Terminated == /\ \A p \in Procs : ~Alive(p)
              /\ UNCHANGED vars

Next == \/ \E p \in Procs : Main(p) \/ MsgSndFails(p) \/ Thread(p) \/ Kill(p) \/ Ipcrm(p)
        \/ Terminated

Spec == Init /\ [][Next]_vars

\* The scheduler runs every thread that can run; standard input ends.  Nothing
\* makes a msgsnd that waits for room fail.
FairSpec == /\ Spec
            /\ \A p \in Procs : WF_vars(Main(p)) /\ WF_vars(Thread(p))

---------------------------------------------------------------------------
(* Properties *)

\* Every variable has its type, and the queue never holds more than it can.
TypeOK == /\ owner \in Procs \cup {NoProc}
          /\ msgs \in Seq(Messages) /\ Len(msgs) =< Capacity
          /\ mpc \in [Procs -> MainPcs]
          /\ cpc \in [Procs -> ThreadPcs]
          /\ sent \in [Procs -> Seq(Messages)]
          /\ got \in [Procs -> Seq(Messages)]
          /\ printed \in [Procs -> Seq(Messages)]
          /\ dropped \in [Procs -> Seq(Messages)]
          /\ end \in [Procs -> Endings]
          /\ ipcrmed \subseteq Procs

\* What a process has sent (sv_msq.c:86) its own thread has received, in that
\* order, or it is still in the queue, or it was destroyed with the queue.  In
\* particular a thread never receives what another process left behind.
Accounted == \A p \in Procs : sent[p] = got[p] \o InQueue(p) \o dropped[p]

\* A process that ends by itself, on return or on the msgrcv error of
\* sv_msq.c:40, has printed every message that its thread received.
ReceivedIsPrinted ==
  \A p \in Procs : end[p] \in {"return", "msgrcv"} => printed[p] = got[p]

\* Every process delivers its lines in the order in which it accepted them: what
\* msgsnd has taken (sv_msq.c:86) is printed (33) without a gap or a repetition,
\* whoever is killed, whatever is removed and whoever else uses the key.
Lines == INSTANCE LineQueue
           WITH accepted <- sent, delivered <- printed,
                Users <- Procs, Line <- Messages
Fifo == Lines!Spec

\* A process leaves its queue behind, which makes the next msgget of
\* sv_msq.c:73 fail, only if it was killed, its thread could not start or its
\* msgsnd (86-89) failed, never on return or when the thread fails; if it exits
\* because pthread_create or msgsnd failed, the queue is still there, unless
\* someone else removed it; and IPC_RMID (92) fails only if someone else did.
QueueLeft ==
  \A p \in Procs :
    /\ Exists(p) => end[p] \in {"", "killed", "create", "nomem", "msgsnd"}
    /\ end[p] \in {"create", "msgsnd"} => Exists(p) \/ p \in ipcrmed
    /\ end[p] = "rmid" => p \in ipcrmed

\* The inductive invariant.  A process that has made no queue has sent and
\* received nothing; nothing is dropped before the queue is removed; a thread
\* waits only on a queue that is there and empty; it has printed all but the
\* message in its hand; and main is past IPC_RMID, or somebody removed the
\* queue, or the queue is there.
BeforeQueue ==
  \A p \in Procs : mpc[p] = "msgget" =>
    /\ owner # p
    /\ sent[p] = <<>> /\ got[p] = <<>> /\ dropped[p] = <<>>

BeforeThread ==
  \A p \in Procs : mpc[p] \in {"msgget", "create"} => cpc[p] = "none"

Undropped == \A p \in Procs : Exists(p) => dropped[p] = <<>>

WaitsOnEmpty ==
  \A p \in Procs : cpc[p] = "blocked" => Exists(p) /\ msgs = <<>>

InHand ==
  \A p \in Procs :
    IF cpc[p] = "print"
    THEN got[p] # <<>> /\ got[p] = Append(printed[p], got[p][Len(got[p])])
    ELSE printed[p] = got[p]

ThreadOver == \A p \in Procs : end[p] \in {"return", "msgrcv"} => cpc[p] = "over"

QueueOrRemoved ==
  \A p \in Procs : mpc[p] \in {"create", "fgets", "msgsnd", "rmid"} =>
                     Exists(p) \/ p \in ipcrmed

AfterRmid == \A p \in Procs : /\ mpc[p] = "join" => ~Exists(p)
                              /\ mpc[p] = "done" => ~Alive(p)

EndedWithout ==
  \A p \in Procs :
    end[p] \in {"msgget", "return", "rmid", "msgrcv"} => ~Exists(p)

RoomForLine == \A p \in Procs : mpc[p] = "msgsnd" => Len(sent[p]) < MaxLines

IInv == /\ TypeOK /\ Accounted /\ QueueLeft
        /\ BeforeQueue /\ BeforeThread /\ Undropped /\ WaitsOnEmpty
        /\ InHand /\ ThreadOver /\ QueueOrRemoved /\ AfterRmid /\ EndedWithout
        /\ RoomForLine

\* Every process ends: main is not left waiting in msgsnd, for a queue that is
\* full, nor in pthread_join, for a thread that waits in msgrcv.
EveryRunEnds == <>(\A p \in Procs : ~Alive(p))

\* sv_msq.c:36-37 takes the removal of the queue for the normal end of the
\* thread, "msgrcv over"; it exits with "msgrcv error" only for other errors.
RemovalIsNormalEnd ==
  \A p \in Procs : end[p] = "msgrcv" => p \in ipcrmed
=============================================================================
