----------------------------- MODULE StreamCopy -----------------------------
(***************************************************************************)
(* The programs that copy bytes through a buffer:                          *)
(*   "copy"      file_io/copy.c: one file to another                       *)
(*   "dev_fd"    file_io/dev_fd.c: descriptor 111 to 222, and then a line  *)
(*               on what /dev/fd/111 is                                    *)
(*   "nonblock"  advanced_io/nonblock_io.c: what one read returns, to a    *)
(*               nonblocking standard output                               *)
(*   "aio"       advanced_io/asynchronous_io.c: what one read returns,     *)
(*               with one aio_write                                        *)
(* A byte is named by its place in the input.  A read and a nonblocking    *)
(* write may transfer less than they are asked for.                        *)
(*                                                                         *)
(* External: the sink, which takes as many bytes as it has room for.  A    *)
(* terminal or a pipe with a reader drains; a full disk does not.          *)
(***************************************************************************)
EXTENDS Naturals, Sequences

CONSTANTS MaxInput,   \* bound: the bytes of the input
          BufSize,    \* BUFSIZE, BUFSIZ or sizeof(buf)
          Capacity    \* the room of an empty sink

ASSUME StreamCopyAssumption == /\ MaxInput \in Nat
                               /\ BufSize \in Nat \ {0}
                               /\ Capacity \in Nat \ {0}

VARIABLES
  program,       \* which of the programs runs
  same,          \* do the two names of copy and aio name one file?
  length,        \* how long the input was when the program started
  drains, room,  \* does the sink drain, and the room it has
  pc,            \* where main is
  size,          \* how long the input is now
  offset,        \* how much of it has been read
  buf,           \* what is still to be written of the buffer
  out,           \* what has been written
  aio,           \* the state of the asynchronous write
  returned       \* what aio_return returned

sink == <<drains, room>>
vars == <<program, same, length, sink, pc, size, offset, buf, out, aio, returned>>

Programs == {"copy", "dev_fd", "nonblock", "aio"}
Ends     == {"exit 0", "exit 1", "killed"}
Pcs      == Ends \cup {"open in", "open out", "read", "setfl", "write", "line",
                       "aio_suspend", "aio_return"}

Line  == 0                             \* the last line of dev_fd, as one byte
Bytes(from, to) == [k \in 1 .. to - from |-> from + k]
Input == Bytes(0, length)
Least(a, b) == IF a < b THEN a ELSE b

Init == /\ program \in Programs
        /\ same \in IF program \in {"copy", "aio"} THEN BOOLEAN ELSE {FALSE}
        /\ length \in 0 .. MaxInput /\ size = length
        /\ drains \in BOOLEAN /\ room \in 0 .. Capacity
        /\ pc = IF program = "nonblock" THEN "read" ELSE "open in"
        /\ offset = 0 /\ buf = <<>> /\ out = <<>>
        /\ aio = "none" /\ returned = 0

---------------------------------------------------------------------------
Goto(from, to) == pc = from /\ pc' = to

\* open(argv[1], O_RDWR), and as the other programs open their input
OpenIn == /\ Goto("open in", "open out") \/ Goto("open in", "exit 1")
          /\ UNCHANGED <<program, same, length, sink, size, offset, buf, out,
                         aio, returned>>

\* With O_TRUNC: if it is the input, nothing is left of that.
OpenOut == /\ \/ Goto("open out", "read") /\ size' = IF same THEN 0 ELSE size
              \/ Goto("open out", "exit 1") /\ size' = size
           /\ UNCHANGED <<program, same, length, sink, offset, buf, out, aio, returned>>

\* read returns some bytes, 0 at the end of the input, or fails, which
\* nonblock takes for the end.
ReadSome == /\ Goto("read", IF program = "nonblock" THEN "setfl" ELSE "write")
            /\ \E n \in 1 .. Least(BufSize, size - offset) :
                 /\ buf' = Bytes(offset, offset + n)
                 /\ offset' = offset + n
            /\ UNCHANGED <<program, same, length, sink, size, out, aio, returned>>

AfterEnd == CASE program = "copy"     -> "exit 0"
              [] program = "dev_fd"   -> "line"
              [] program = "nonblock" -> "setfl"
              [] program = "aio"      -> "write"

\* Mutant: >= 0 for > 0.
ReadEndAgain == /\ offset = size /\ Goto("read", "write")
                /\ UNCHANGED <<program, same, length, sink, size, offset, buf, out,
                               aio, returned>>

ReadEnd == /\ \/ offset = size /\ Goto("read", AfterEnd)
              \/ Goto("read", IF program = "nonblock" THEN "setfl" ELSE "exit 1")
           /\ UNCHANGED <<program, same, length, sink, size, offset, buf, out,
                          aio, returned>>

\* n bytes of the buffer reach the sink.  While a write waits for a sink that
\* drains, its room does not matter.
Taken(n) == /\ out' = out \o SubSeq(buf, 1, n)
            /\ buf' = SubSeq(buf, n + 1, Len(buf))
            /\ room' = IF drains THEN room ELSE room - n

\* Mutant: a short write goes unnoticed.
WriteUnchecked == /\ program \in {"copy", "dev_fd"} /\ Goto("write", "read")
                  /\ Taken(IF drains THEN Len(buf) ELSE Least(Len(buf), room))
                  /\ UNCHANGED <<program, same, length, drains, size, offset, aio, returned>>

\* write(ofd, buf, n) != n
Write == /\ program \in {"copy", "dev_fd"}
         /\ LET n == IF drains THEN Len(buf) ELSE Least(Len(buf), room)
            IN  Goto("write", IF n = Len(buf) THEN "read" ELSE "exit 1") /\ Taken(n)
         /\ UNCHANGED <<program, same, length, drains, size, offset, aio, returned>>

\* lstat, readlink and the write may fail; a line that is cut off counts as none.
WriteLine == /\ \/ /\ drains \/ room > 0
                   /\ Goto("line", "exit 0")
                   /\ out' = Append(out, Line)
                   /\ room' = IF drains THEN room ELSE room - 1
                \/ Goto("line", "exit 1") /\ UNCHANGED <<out, room>>
             /\ UNCHANGED <<program, same, length, drains, size, offset, buf,
                            aio, returned>>

---------------------------------------------------------------------------
\* nonblock

\* fcntl(STDOUT_FILENO, F_SETFL, flags)
SetNonblock == /\ Goto("setfl", "write") \/ Goto("setfl", "exit 1")
               /\ UNCHANGED <<program, same, length, sink, size, offset, buf, out,
                              aio, returned>>

\* while (ntowrite > 0)

\* Mutant: ptr is not moved.
WriteNoAdvance == /\ program = "nonblock" /\ Goto("write", "write")
                  /\ \E n \in 1 .. Least(Len(buf), room) :
                       /\ out' = out \o SubSeq(buf, 1, n)
                       /\ buf' = SubSeq(buf, 1, Len(buf) - n)
                       /\ room' = room - n
                  /\ UNCHANGED <<program, same, length, drains, size, offset, aio, returned>>

WriteNonblock == /\ program = "nonblock" /\ Goto("write", "write")
                 /\ \E n \in 1 .. Least(Len(buf), room) :
                      /\ out' = out \o SubSeq(buf, 1, n)
                      /\ buf' = SubSeq(buf, n + 1, Len(buf))
                      /\ room' = room - n
                 /\ UNCHANGED <<program, same, length, drains, size, offset, aio, returned>>

\* A write that fails changes nothing, and the program tries again at once.
WriteAgain == /\ program = "nonblock" /\ pc = "write" /\ buf # <<>> /\ room = 0
              /\ UNCHANGED vars

WriteDone == /\ program = "nonblock" /\ buf = <<>> /\ Goto("write", "exit 0")
             /\ UNCHANGED <<program, same, length, sink, size, offset, buf, out,
                            aio, returned>>

---------------------------------------------------------------------------
\* aio

\* aio_write starts the write, or fails.
AioWrite == /\ program = "aio"
            /\ \/ Goto("write", "aio_suspend") /\ aio' = "started"
               \/ Goto("write", "exit 1") /\ aio' = aio
            /\ UNCHANGED <<program, same, length, sink, size, offset, buf, out, returned>>

\* External: the library's thread writes.
AioThread == /\ aio = "started" /\ pc \notin Ends
             /\ LET n == IF drains THEN Len(buf) ELSE Least(Len(buf), room)
                IN  /\ aio' = IF n = 0 /\ buf # <<>> THEN "error" ELSE "done"
                    /\ Taken(n)
             /\ UNCHANGED <<program, same, length, drains, pc, size, offset, returned>>

\* aio_suspend waits; aio_error tells whether the write has failed.
AioSuspend == /\ \/ aio = "done"  /\ Goto("aio_suspend", "aio_return")
                 \/ aio = "error" /\ Goto("aio_suspend", "exit 1")
              /\ UNCHANGED <<program, same, length, sink, size, offset, buf, out,
                             aio, returned>>

\* A signal, or a lack of resources, ends aio_suspend while the write goes on.
AioSuspendFails == /\ Goto("aio_suspend", "exit 1")
                   /\ UNCHANGED <<program, same, length, sink, size, offset, buf, out,
                                  aio, returned>>

\* aio_return; the program does not compare it with what it asked for.
AioReturn == /\ \/ Goto("aio_return", "exit 0") /\ returned' = Len(out)
                \/ Goto("aio_return", "exit 1") /\ returned' = returned
             /\ UNCHANGED <<program, same, length, sink, size, offset, buf, out, aio>>

---------------------------------------------------------------------------
\* External: the sink drains; a signal kills the process.

Drain == /\ drains /\ room < Capacity
         /\ room' = room + 1
         /\ UNCHANGED <<program, same, length, drains, pc, size, offset, buf, out,
                        aio, returned>>

Kill == /\ pc \notin Ends /\ pc' = "killed"
        /\ UNCHANGED <<program, same, length, sink, size, offset, buf, out, aio, returned>>

Step == \/ OpenIn \/ OpenOut \/ ReadSome \/ ReadEnd \/ Write \/ WriteLine
        \/ SetNonblock \/ WriteNonblock \/ WriteDone \/ AioWrite \/ AioSuspend \/ AioReturn

Terminated == pc \in Ends /\ UNCHANGED vars

Next == Step \/ AioSuspendFails \/ WriteAgain \/ AioThread \/ Drain \/ Kill \/ Terminated

Spec == Init /\ [][Next]_vars

\* The scheduler runs the process and its library thread; a sink drains.  aio_suspend
\* does not have to fail.
FairSpec == Spec /\ WF_vars(Step) /\ WF_vars(AioThread) /\ WF_vars(Drain)

---------------------------------------------------------------------------
(* Properties *)

\* Every variable has its type.
TypeOK == /\ program \in Programs /\ same \in BOOLEAN
          /\ length \in 0 .. MaxInput /\ size \in 0 .. length
          /\ drains \in BOOLEAN /\ room \in 0 .. Capacity
          /\ pc \in Pcs /\ offset \in 0 .. size
          /\ buf \in Seq(1 .. MaxInput) /\ Len(buf) =< BufSize
          /\ out \in Seq(0 .. MaxInput)
          /\ aio \in {"none", "started", "done", "error"}
          /\ returned \in 0 .. MaxInput

\* What has been written, and what the buffer still has, are what has been read,
\* in that order, after any short read, short write, error or kill
\* (copy.c:58-63, dev_fd.c:35-40, nonblock_io.c:36-46, asynchronous_io.c:35-41):
\* no byte is repeated, left out or out of place.
Written == IF program = "dev_fd" /\ pc = "exit 0" THEN SubSeq(out, 1, Len(out) - 1)
                                                   ELSE out
NothingMisplaced == Written \o buf = Bytes(0, offset)

\* Exit status 0 means that all of the input has been copied, for copy, unless
\* it truncated its own input, and for dev_fd; that all of what one read
\* returned has been, for nonblock; and aio says how much it has written.
SuccessMeansCopied == pc = "exit 0" =>
  CASE program = "copy"     -> same \/ out = Input
    [] program = "dev_fd"   -> out = Input \o <<Line>>
    [] program = "nonblock" -> out = Bytes(0, offset)
    [] program = "aio"      -> out = Bytes(0, returned)

\* A nonblocking write to a sink that is full for good fails for ever.
Spins == /\ program = "nonblock" /\ pc = "write" /\ buf # <<>>
         /\ room = 0 /\ ~drains

\* The program ends, except that nonblock_io.c:37-46 does not look at the error
\* and spins when the sink is full for good.
EndsOrSpins == <>[](pc \in Ends \/ Spins)

---------------------------------------------------------------------------
(* The inductive invariant behind NothingMisplaced and SuccessMeansCopied *)

\* Nothing of the buffer is left when the next read, or the last line, comes.
BufferEmpty == pc \in {"open in", "open out", "read", "line"} => buf = <<>>

\* Nothing is read before the input can be truncated, and nothing but that
\* shortens it.
Unread   == pc \in {"open in", "open out"} => offset = 0
Shorter  == ~same => size = length
AtTheEnd == pc = "line" => offset = size

\* Each program goes its own way.
OwnWay == /\ same => program \in {"copy", "aio"}
          /\ pc \in {"aio_suspend", "aio_return"} \/ aio # "none" => program = "aio"
          /\ pc = "setfl" => program = "nonblock"
          /\ pc = "line" => program = "dev_fd"

IInv == /\ TypeOK /\ BufferEmpty /\ Unread /\ Shorter /\ AtTheEnd /\ OwnWay
        /\ NothingMisplaced /\ SuccessMeansCopied
=============================================================================
