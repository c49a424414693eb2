------------------------------ MODULE Streams ------------------------------
(***************************************************************************)
(* Programs in which the order and the fate of buffered output matter:     *)
(*   "atexit"  process_environment/exit.c: four exit handlers, a file and  *)
(*             standard output, both buffered, and three ways to end       *)
(*   "fdopen"  standard_io_library/fdopen.c: a descriptor gets a stream    *)
(*             for appending, and write(2) goes past the stream            *)
(* A line, or a record of the file, is named by what it says.              *)
(*                                                                         *)
(* External: the C library's buffers, the file, and another process that   *)
(* appends to it.  A terminal gets each line when it is printed; another   *)
(* standard output gets them when the buffer is flushed.                   *)
(***************************************************************************)
EXTENDS Integers, Sequences, SequencesExt

VARIABLES
  program,          \* which of the programs runs
  mpc,              \* where main is
  tty, full,        \* is standard output a terminal, and the disk full?
  nr,               \* argv[2] of exit.c, by its sign
  obuf, shown,      \* stdout's buffer, and what has left it
  fbuf, file,       \* the buffer of the file's stream, and what the file holds
  handlers,         \* those registered with atexit, not yet called
  append, told,     \* O_APPEND of the descriptor, and what fdopen said of it
  others            \* how many records others have written into the file

streams == <<tty, full, nr, obuf, shown, fbuf, file, handlers, append, told, others>>

Programs == {"atexit", "fdopen"}
Ends == {"exited", "_exited", "killed"}
MaxOthers == 2      \* bound: what others write

\* The calls of atexit, in their order.
Registered == <<"fun1", "fun2", "fun1", "fun2">>

Init == /\ program \in Programs
        /\ mpc = "open"
        /\ tty \in BOOLEAN /\ full \in BOOLEAN
        /\ nr \in {-1, 0, 1}
        /\ obuf = <<>> /\ shown = <<>> /\ fbuf = <<>>
        /\ others \in {0, 1}
        /\ file = [k \in 1 .. others |-> "other"]
        /\ handlers = IF program = "atexit" THEN Registered ELSE <<>>
        /\ append = FALSE /\ told = "nothing"

Goto(from, to) == mpc = from /\ mpc' = to

\* printf to standard output
Say(line) == IF tty THEN shown' = Append(shown, line) /\ obuf' = obuf
                    ELSE obuf' = Append(obuf, line) /\ shown' = shown

---------------------------------------------------------------------------
\* exit(), and the return from main

\* The handlers run, the last one first, and print their names.
RunHandler == /\ mpc = "exit" /\ handlers # <<>>
              /\ Say(Last(handlers)) /\ handlers' = Front(handlers)
              /\ UNCHANGED <<program, mpc, tty, full, nr, fbuf, file, append, told, others>>

\* Then the streams are flushed.  Nobody learns of a full disk.
Flush == /\ handlers = <<>> /\ Goto("exit", "exited")
         /\ shown' = shown \o obuf /\ obuf' = <<>>
         /\ file' = (IF full THEN file ELSE file \o fbuf) /\ fbuf' = <<>>
         /\ UNCHANGED <<program, tty, full, nr, handlers, append, told, others>>

---------------------------------------------------------------------------
\* exit.c

\* fopen truncates; where it fails, the handlers have been registered already.
Fopen == /\ program = "atexit"
         /\ \/ Goto("open", "fprintf") /\ Say("fopen success") /\ file' = <<>>
            \/ Goto("open", "exit") /\ UNCHANGED <<obuf, shown, file>>
         /\ UNCHANGED <<program, tty, full, nr, fbuf, handlers, append, told, others>>

Fprintf == /\ Goto("fprintf", "end")
           /\ fbuf' = Append(fbuf, "hello, world!")
           /\ Say("write success")
           /\ UNCHANGED <<program, tty, full, nr, file, handlers, append, told, others>>

\* Mutant: exit for _exit and _Exit.
AlwaysExit == Goto("end", "exit") /\ UNCHANGED <<program, streams>>

\* _exit and _Exit, which are the same, flush nothing.
End == /\ Goto("end", IF nr = 0 THEN "exit" ELSE "_exited")
       /\ UNCHANGED <<program, streams>>

---------------------------------------------------------------------------
\* fdopen.c

\* open with O_RDWR: not for appending
Open == /\ program = "fdopen"
        /\ Goto("open", "tell") \/ Goto("open", "exit")
        /\ UNCHANGED <<program, streams>>

TellMode == /\ told' = IF append THEN "append" ELSE "not append"
            /\ Say(told')

\* Mutant: the second line is printed without a second F_GETFL.
TellStale == /\ \/ Goto("tell", "fdopen") /\ TellMode
                \/ Goto("tell again", "write") /\ told' = told /\ Say(told)
             /\ UNCHANGED <<program, tty, full, nr, fbuf, file, handlers, append, others>>

\* F_GETFL, before fdopen and after it; either may fail.
TellFails == /\ Goto("tell", "exit") \/ Goto("tell again", "exit")
             /\ UNCHANGED <<told, obuf, shown>>

Tell == /\ \/ Goto("tell", "fdopen") /\ TellMode
           \/ Goto("tell again", "write") /\ TellMode
           \/ TellFails
        /\ UNCHANGED <<program, tty, full, nr, fbuf, file, handlers, append, others>>

\* With "a+"; some libraries set O_APPEND and some do not.
Fdopen == /\ \/ Goto("fdopen", "tell again") /\ append' \in BOOLEAN
             \/ Goto("fdopen", "exit") /\ append' = append
          /\ UNCHANGED <<program, tty, full, nr, obuf, shown, fbuf, file, handlers,
                         told, others>>

\* write(fd, " world!"), at the end, or at the beginning over what is there
Write == /\ \/ /\ Goto("write", "exit")
               /\ IF append THEN ~full /\ file' = Append(file, "world!")
                            ELSE /\ file # <<>> \/ ~full
                                 /\ file' = <<"world!">> \o SubSeq(file, 2, Len(file))
               /\ Say("write success")
            \/ full /\ Goto("write", "exit") /\ UNCHANGED <<file, obuf, shown>>
         /\ UNCHANGED <<program, tty, full, nr, fbuf, handlers, append, told, others>>

---------------------------------------------------------------------------
\* External: another process appends, and a signal kills this one.

OtherAppends == /\ program = "fdopen" /\ mpc \notin Ends
                /\ ~full /\ others < MaxOthers
                /\ file' = Append(file, "other") /\ others' = others + 1
                /\ UNCHANGED <<program, mpc, tty, full, nr, obuf, shown, fbuf, handlers,
                               append, told>>

Kill == mpc \notin Ends /\ mpc' = "killed" /\ UNCHANGED <<program, streams>>

MainStep == \/ RunHandler \/ Flush \/ Fopen \/ Fprintf \/ End
            \/ Open \/ Tell \/ Fdopen \/ Write

Ended == mpc \in Ends

---------------------------------------------------------------------------
(* Properties *)

\* exit.c: who ends through exit has shown all that it printed, then what the
\* handlers print, in reverse order (25-28), and its file has the line if there
\* is room; who ends through _exit has lost the buffers, although "write
\* success" may be on the terminal (38-45).
HandlersSaid == <<"fun2", "fun1", "fun2", "fun1">>
MainSaid     == <<"fopen success", "write success">>

ExitShown == program = "atexit" =>
  /\ mpc = "exited" => shown \in {HandlersSaid, MainSaid \o HandlersSaid}
  /\ mpc = "exited" /\ shown # HandlersSaid =>
       nr = 0 /\ file = IF full THEN <<>> ELSE <<"hello, world!">>
  /\ mpc = "_exited" => shown = (IF tty THEN MainSaid ELSE <<>>) /\ file = <<>>

\* fdopen.c: what the second line says of the descriptor (50-54) is what the
\* write does, whatever others have written meanwhile: with O_APPEND nothing is
\* lost, and without it the write goes to the beginning.
PlacesOf(r) == {k \in DOMAIN file : file[k] = r}

WriteAsTold == program = "fdopen" /\ Contains(file, "world!") =>
  IF told = "append" THEN Cardinality(PlacesOf("other")) = others
                     ELSE Head(file) = "world!"
---------------------------------------------------------------------------
(* The inductive invariant *)

Said    == {"fopen success", "write success", "fun1", "fun2", "append", "not append"}
InFile  == {"other", "hello, world!", "world!"}
Running == {"open", "fprintf", "end", "tell", "fdopen", "tell again", "write", "exit"}
TypeOK  == /\ program \in Programs /\ mpc \in Running \cup Ends
           /\ tty \in BOOLEAN /\ full \in BOOLEAN /\ nr \in {-1, 0, 1}
           /\ obuf \in Seq(Said) /\ shown \in Seq(Said)
           /\ fbuf \in Seq(InFile) /\ file \in Seq(InFile)
           /\ handlers \in Seq({"fun1", "fun2"}) /\ append \in BOOLEAN
           /\ told \in {"nothing", "append", "not append"} /\ others \in Nat

\* What has been printed is in one place until the end.
Buffered == (tty => obuf = <<>>) /\ (~tty /\ mpc \in Running => shown = <<>>)
Out      == IF tty THEN shown ELSE obuf

\* exit.c: how far main and the handlers have come, and what each has printed.
AllSaid == <<"fopen success", "write success", "fun2", "fun1", "fun2", "fun1">>
Atexit == program = "atexit" =>
  /\ mpc \in {"open", "fprintf", "end", "exit"} \cup Ends
  /\ mpc \in {"open", "fprintf", "end"} => handlers = Registered
  /\ mpc = "open" => Out = <<>> /\ fbuf = <<>>
  /\ mpc = "fprintf" => Out = <<"fopen success">> /\ fbuf = <<>> /\ file = <<>>
  /\ mpc = "end" => Out = MainSaid /\ fbuf = <<"hello, world!">> /\ file = <<>>
  /\ mpc = "exit" => \E n \in 0 .. 4 :
       /\ handlers = SubSeq(Registered, 1, 4 - n)
       /\ \/ Out = SubSeq(HandlersSaid, 1, n)
          \/ /\ Out = SubSeq(AllSaid, 1, n + 2)
             /\ nr = 0 /\ fbuf = <<"hello, world!">> /\ file = <<>>

\* fdopen.c: before the write, the file has what others have written; after it, it
\* has that too, or begins with what was written.
NoneLost == Cardinality(PlacesOf("other")) = others
Untouched == NoneLost /\ DOMAIN file = PlacesOf("other")
Fdopened == program = "fdopen" =>
  /\ mpc \in {"open", "tell", "fdopen", "tell again", "write", "exit"} \cup Ends
  /\ handlers = <<>> /\ fbuf = <<>>
  /\ mpc \in {"open", "tell", "fdopen", "tell again", "write"} => Untouched
  /\ mpc = "write" => (told = "append" <=> append)
  /\ \/ Untouched
     \/ told = "append" /\ NoneLost
     \/ told # "append" /\ file # <<>> /\ file[1] = "world!"

IInv == TypeOK /\ Buffered /\ Atexit /\ Fdopened /\ ExitShown
=============================================================================
