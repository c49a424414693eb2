------------------------------- MODULE Files -------------------------------
(***************************************************************************)
(* The programs of files_and_directories/ on the names of one directory.   *)
(*                                                                         *)
(* unlink.c runs for a long time: it opens "a", writes it, waits for a     *)
(* signal, unlinks "a", waits for another signal and ends.  While it runs, *)
(* and before and after, rename.c, renameat.c, link.c, linkat.c, symlink.c *)
(* and chmod.c change what the names lead to, one call each.  access.c,    *)
(* file_stat.c and file_type.c change nothing: what they would print of a  *)
(* name is a function of the state.                                        *)
(*                                                                         *)
(* linkat.c and renameat.c name AT_FDCWD without the header that defines   *)
(* it; where they compile they do what is modelled here.                   *)
(***************************************************************************)
EXTENDS Naturals, Sequences, PosixSignals, FileStat

CONSTANTS MaxRuns,    \* bound: runs of programs that change something
          MaxSent     \* bound: signals sent to unlink.c

ASSUME BoundsAssumption == MaxRuns \in Nat /\ MaxSent \in Nat

Names  == {"a", "b", "d"}
Inodes == 1 .. 5
Free   == [kind |-> "free", mode |-> {}, target |-> ""]

M0644 == {"ur", "uw", "gr", "or"}
M1777 == {"ur", "uw", "ux", "gr", "gw", "gx", "or", "ow", "ox", "svtx"}
M2750 == {"ur", "uw", "ux", "gr", "gx", "sgid"}
M0001 == {"ox"}

VARIABLES
  entry,     \* entry[n]: the inode that the name n leads to, 0 for none
  file,      \* file[i]: the inode i
  told,      \* the inodes of which chmod.c has printed "rwxr--r--"
  runs,      \* how many programs have changed something
  sig, sent, \* the signals of unlink.c, and how many were sent
  mpc, hpc,  \* where its main and its handler are
  fd,        \* the inode it has opened, 0 if it has not
  lost,      \* how many of them came outside pause, or while one was pending
  moved,     \* before the unlink, has "a" led to another file than the open one?
  alone,     \* has "a" been the only name of the open file all the time?
  outcome    \* what its unlink has removed: "own", "other", or "nothing"

fs   == <<entry, file, told>>
proc == <<sig, sent, mpc, hpc, fd, lost, outcome>>
vars == <<fs, runs, proc, moved, alone>>

Regular(mode) == [kind |-> "regular", mode |-> mode, target |-> ""]
Symlink(n)    == [kind |-> "symlink", mode |-> {}, target |-> n]
Directory     == [kind |-> "directory", mode |-> M1777, target |-> ""]
Fifo          == [kind |-> "fifo", mode |-> M2750, target |-> ""]

Exists(n)     == entry[n] # 0
IsLink(n)     == Exists(n) /\ file[entry[n]].kind = "symlink"
IsDirectory(n) == Exists(n) /\ file[entry[n]].kind = "directory"

\* External: the name at the end of the symbolic links; "" for a loop.
Next1(n) == IF IsLink(n) THEN file[entry[n]].target ELSE n
Target(n) == LET end == Next1(Next1(Next1(n)))
             IN  IF IsLink(end) THEN "" ELSE end

\* External: the file itself is freed when no name and no process is left.
Freed(i, names, open) == i # 0 /\ i # open /\ \A n \in Names : names[n] # i
Release(files, names, open) ==
  [i \in Inodes |-> IF Freed(i, names, open) THEN Free ELSE files[i]]

Dead   == {"ended", "exit 1", "killed"}
Open   == IF mpc \in Dead THEN 0 ELSE fd
Unused == {i \in Inodes : file[i].kind = "free"}

\* The directory before the programs run: "d" is a directory, and "a" does not
\* exist, is a file, a symbolic link to "b", or another name of it.
StartKinds == {"none", "regular", "symlink", "hard link"}
StartModes == {M0644, M0001}

StartFiles(k, m) == [i \in Inodes |-> CASE i = 1                    -> Directory
                                        [] i = 2 /\ k # "none"    -> Regular(m)
                                        [] i = 3 /\ k = "symlink" -> Symlink("b")
                                        [] i = 4 /\ k = "regular" -> Fifo
                                        [] OTHER                  -> Free]
StartNames(k) ==
  [n \in Names |-> CASE n = "d"                                      -> 1
                    [] n = "a" /\ k = "symlink"                     -> 3
                    [] n = "a" /\ k \in {"regular", "hard link"}    -> 2
                    [] n = "b" /\ k \in {"symlink", "hard link"}    -> 2
                    [] n = "b" /\ k = "regular"                     -> 4
                    [] OTHER                                        -> 0]

Init == /\ \E k \in StartKinds, m \in StartModes :
             file = StartFiles(k, m) /\ entry = StartNames(k)
        /\ told = {} /\ runs = 0
        /\ sig = NoActions({"SIGUSR1"}) /\ sent = 0
        /\ mpc = "sigaction" /\ hpc = "none"
        /\ fd = 0 /\ lost = 0 /\ outcome = "none"
        /\ moved = FALSE /\ alone = FALSE

---------------------------------------------------------------------------
\* The programs that make one call.  A failed call changes nothing.

\* What the call leaves: the names and the files; with what that means for
\* the file that unlink.c has open.
NamesOf(i, names) == {n \in Names : names[n] = i}

Leaves(names, files) ==
  /\ entry' = names
  /\ file' = Release(files, names, Open)
  /\ told' = told \ {i \in Inodes : file'[i].kind = "free"}
  /\ moved' = (moved \/ (fd # 0 /\ outcome = "none" /\ names["a"] # fd))
  /\ alone' = (alone /\ NamesOf(fd, names) \subseteq {"a"})
  /\ runs' = runs + 1
  /\ UNCHANGED proc

\* External: rename does nothing if both names lead to the same file.
CanRename(old, new) == /\ Exists(old)
                       /\ Exists(new) => IsDirectory(old) = IsDirectory(new)

Rename(old, new) ==
  /\ CanRename(old, new)
  /\ Leaves(IF entry[old] = entry[new] THEN entry
            ELSE [entry EXCEPT ![new] = entry[old], ![old] = 0], file)

\* With AT_FDCWD for both names.
RenameAt(old, new) == Rename(old, new)

\* External: a new name for a file.
NewName(from, new) == /\ from # "" /\ Exists(from) /\ ~IsDirectory(from)
                      /\ ~Exists(new)
                      /\ Leaves([entry EXCEPT ![new] = entry[from]], file)

\* Whether link follows a symbolic link depends on the system; linkat does if it
\* is compiled with FOLLOW.
Link(old, new) == \E from \in {old, Target(old)} : NewName(from, new)

LinkAt(old, new, follow) == NewName(IF follow THEN Target(old) ELSE old, new)

\* symlink.c: the target need not exist.
MakeSymlink(target, new) ==
  /\ ~Exists(new)
  /\ \E i \in Unused : /\ \A j \in Unused : i =< j
                       /\ Leaves([entry EXCEPT ![new] = i],
                                 [file EXCEPT ![i] = Symlink(target)])

ACCMODE == {"ur", "uw", "ux", "gr", "or"}

\* chmod.c prints "new access mode: rwxr--r--".
Chmod(n) ==
  /\ Target(n) # "" /\ Exists(Target(n))
  /\ file' = [file EXCEPT ![entry[Target(n)]].mode = ACCMODE]
  /\ told' = told \cup {entry[Target(n)]}
  /\ runs' = runs + 1
  /\ UNCHANGED <<entry, moved, alone, proc>>

Run == /\ runs < MaxRuns
       /\ \E m, n \in Names :
            \/ m # n /\ (Rename(m, n) \/ RenameAt(m, n))
            \/ m # n /\ (Link(m, n) \/ \E follow \in BOOLEAN : LinkAt(m, n, follow))
            \/ m # n /\ MakeSymlink(m, n)
            \/ m = n /\ Chmod(n)

\* What the other programs print of the name n, "" for an error.
Stat(n) == LET end == Target(n)
           IN  IF end # "" /\ Exists(end) THEN file[entry[end]] ELSE Free

Listing(n)  == Listed(Stat(n).kind, Stat(n).mode)
FileType(n) == TypeWord(file[entry[n]].kind)

\* access.c, for the owner of the file: argv[2] is "r", "w" or "x".
AccessBit(arg) == CASE arg = "r" -> "ur" [] arg = "w" -> "uw" [] arg = "x" -> "ux"
Access(n, arg) == AccessBit(arg) \in Stat(n).mode

---------------------------------------------------------------------------
\* unlink.c: main, while no handler runs and no signal is to be delivered.

InMain(from) == hpc = "none" /\ Deliverable(sig) = {} /\ mpc = from
Goto(to) == /\ mpc' = to
            /\ UNCHANGED <<runs, sig, sent, hpc, lost>>

\* The end of the process closes its file.
EndAs(how) == /\ Goto(how)
              /\ file' = Release(file, entry, 0)
              /\ told' = told \ {i \in Inodes : file'[i].kind = "free"}
              /\ UNCHANGED <<entry, fd, outcome, moved, alone>>

Sigaction == /\ InMain("sigaction") /\ mpc' = "open"
             /\ sig' = Install(sig, "SIGUSR1", Catch("sig_handler", {}))
             /\ UNCHANGED <<fs, runs, sent, hpc, fd, lost, outcome, moved, alone>>

\* open(argv[1], O_RDWR | O_CREAT | O_TRUNC): the mode of a new file is not
\* passed, so that it is anything.
Opened(i, names) == /\ fd' = i
                    /\ moved' = (names["a"] # i)
                    /\ alone' = (NamesOf(i, names) = {"a"})
                    /\ UNCHANGED outcome

Openable(end)  == /\ end # "" /\ Exists(end)
                  /\ file[entry[end]].kind # "directory"
                  /\ {"ur", "uw"} \subseteq file[entry[end]].mode
Creatable(end) == end # "" /\ ~Exists(end) /\ Unused # {}

OpenFile ==
  /\ InMain("open")
  /\ LET end == Target("a")
     IN  \/ /\ Openable(end)
            /\ Opened(entry[end], entry) /\ Goto("write")
            /\ UNCHANGED fs
         \/ /\ Creatable(end)
            /\ \E i \in Unused, mode \in {M0644, M0001, M2750} :
                 /\ \A j \in Unused : i =< j
                 /\ entry' = [entry EXCEPT ![end] = i]
                 /\ file' = [file EXCEPT ![i] = Regular(mode)]
                 /\ Opened(i, entry')
            /\ Goto("write") /\ UNCHANGED told
         \/ /\ ~Openable(end) /\ ~Creatable(end)
            /\ EndAs("exit 1")

\* All the writes, or some and an error.  A fifo that nobody reads takes some,
\* too, and then blocks the write until a signal ends it.
ToFifo == file[fd].kind = "fifo"

Write == /\ InMain("write")
         /\ \/ ~ToFifo /\ Goto("pause") /\ UNCHANGED <<fs, fd, outcome, moved, alone>>
            \/ ~ToFifo /\ EndAs("exit 1")

WriteFailed == InMain("write failed") /\ EndAs("exit 1")

\* Mutant: a third pause.
PauseOnce == /\ \/ InMain("pause") /\ Goto("pausing")
                \/ InMain("pause again") /\ Goto("pausing")
             /\ UNCHANGED <<fs, fd, outcome, moved, alone>>

Pause == /\ \/ InMain("pause") /\ Goto("pausing")
            \/ InMain("pause again") /\ Goto("pausing again")
         /\ UNCHANGED <<fs, fd, outcome, moved, alone>>

\* Mutant: no unlink.
NoUnlink == /\ InMain("unlink") /\ Goto("pause again")
            /\ outcome' = "nothing"
            /\ UNCHANGED <<fs, fd, moved, alone>>

\* unlink(argv[1]), and "success" whatever it returns.
Unlink ==
  /\ InMain("unlink") /\ Goto("pause again")
  /\ \/ /\ Exists("a") /\ ~IsDirectory("a")
        /\ outcome' = IF entry["a"] = fd THEN "own" ELSE "other"
        /\ entry' = [entry EXCEPT !["a"] = 0]
        /\ file' = Release(file, entry', fd)
        /\ told' = told \ {i \in Inodes : file'[i].kind = "free"}
     \/ /\ ~Exists("a") \/ IsDirectory("a")
        /\ outcome' = "nothing"
        /\ UNCHANGED fs
  /\ UNCHANGED <<fd, moved, alone>>

Exit == InMain("exit") /\ EndAs("ended")

\* A signal interrupts pause, and a write that is blocked.
AfterSignal(pc) == CASE pc = "pausing"          -> {"unlink"}
                     [] pc = "pausing again"    -> {"exit"}
                     [] pc = "write" /\ ToFifo  -> {"write", "write failed"}
                     [] pc = "write" /\ ~ToFifo -> {"write"}
                     [] OTHER                   -> {pc}

Pausing == mpc \in {"pausing", "pausing again"}

\* The handler starts, or the default action kills.
Deliver == /\ mpc \notin Dead /\ "SIGUSR1" \in Deliverable(sig)
           /\ sig' = Enter(sig, "SIGUSR1")
           /\ \/ /\ ~IsCaught(sig, "SIGUSR1")
                 /\ mpc' = "killed"
                 /\ UNCHANGED <<hpc, lost>>
              \/ /\ IsCaught(sig, "SIGUSR1")
                 /\ hpc' = "psignal"
                 /\ mpc' \in AfterSignal(mpc)
                 /\ lost' = IF Pausing THEN lost ELSE lost + 1
           /\ UNCHANGED <<fs, runs, sent, fd, outcome, moved, alone>>

\* sig_handler: psignal, and the return, which unblocks SIGUSR1.
SigHandler == /\ hpc = "psignal" /\ hpc' = "none"
              /\ sig' = SetMask(sig, {})
              /\ UNCHANGED <<fs, runs, sent, mpc, fd, lost, outcome, moved, alone>>

\* External: somebody sends SIGUSR1.
Send == /\ sent < MaxSent /\ mpc \notin Dead
        /\ sent' = sent + 1
        /\ sig' = Generate(sig, "SIGUSR1")
        /\ lost' = IF sig' = sig THEN lost + 1 ELSE lost
        /\ UNCHANGED <<fs, runs, mpc, hpc, fd, outcome, moved, alone>>

---------------------------------------------------------------------------
\* The process has ended, or waits for a signal that nobody sends any more.
Quiet == /\ hpc = "none" /\ sig.pending = {} /\ sent = MaxSent
         /\ Pausing \/ (mpc = "write" /\ ToFifo)

Ended == mpc \in Dead

Terminated == (Ended \/ Quiet) /\ UNCHANGED vars

ProcStep == \/ Sigaction \/ OpenFile \/ Write \/ WriteFailed \/ Pause \/ Unlink \/ Exit
            \/ Deliver \/ SigHandler

Next == ProcStep \/ Run \/ Send \/ Terminated

Spec == Init /\ [][Next]_vars

\* unlink.c runs when it can, and signals are sent.
FairSpec == Spec /\ WF_vars(ProcStep) /\ WF_vars(Send)

---------------------------------------------------------------------------
(* Properties *)

\* What unlink.c removes at line 64 is the file it opened at line 45, unless "a"
\* was a symbolic link or other programs changed it during the pause.  Where
\* nothing is removed, the "success" of line 65 is wrong.
UnlinkTold == outcome \in {"other", "nothing"} => moved

\* The file is there until the process ends, with or without a name, and its
\* contents are then gone if it never had a name but "a" (unlink.c:9-15, 62-71).
KeptThenFreed ==
  /\ fd # 0 /\ ~Ended => file[fd].kind \in {"regular", "fifo"}
  /\ mpc = "ended" /\ alone /\ ~moved => file[fd].kind # "regular"

\* What chmod.c prints (23) is what file_stat.c lists then, under any name of
\* the file; access.c answers as file_stat.c lists; and file_type.c names the
\* kind that file_stat.c shows, unless the name is a symbolic link.
ModesTold ==
  \A n \in Names : Stat(n).kind # "free" =>
    /\ entry[Target(n)] \in told =>
         Tail(Listing(n)) = <<"r", "w", "x", "r", "-", "-", "r", "-", "-">>
    /\ Access(n, "r") = (Listing(n)[2] = "r")
    /\ Access(n, "w") = (Listing(n)[3] = "w")
    /\ Access(n, "x") = (Listing(n)[4] \in {"x", "s"})
    /\ FileType(n) \in {TypeWord(Stat(n).kind), "symbolic link"}

\* unlink.c ends after two signals, not counting those that come outside pause
\* and change nothing (unlink.c:62, 71), or while another one is pending.
TwoSignalsEnd == <>[](Ended \/ sent - lost < 2)

\* file_stat.c lists a file "as ls(1)" does (file_stat.c:7).
ListedAsLs ==
  \A n \in Names : Exists(n) /\ Stat(n).kind # "free" =>
    /\ Listing(n)[1]  = LsType(file[entry[n]].kind)
    /\ Listing(n)[10] = LsExecute(Stat(n).mode)

---------------------------------------------------------------------------
(* The inductive invariant behind UnlinkTold, KeptThenFreed and ModesTold *)

Kinds == {"free", "directory", "regular", "symlink", "fifo"}
Bits  == M1777 \cup {"suid", "sgid"}
Places == {"sigaction", "open", "write", "write failed", "pause", "pausing", "unlink",
           "pause again", "pausing again", "exit"} \cup Dead

\* Every variable has its type.
TypeOK == /\ entry \in [Names -> 0 .. 5]
          /\ file \in [Inodes -> [kind : Kinds, mode : SUBSET Bits,
                                  target : Names \cup {""}]]
          /\ told \subseteq Inodes
          /\ runs \in 0 .. MaxRuns /\ sent \in 0 .. MaxSent /\ lost \in Nat
          /\ sig \in SignalState({"SIGUSR1"}, {"sig_handler"})
          /\ mpc \in Places /\ hpc \in {"none", "psignal"}
          /\ fd \in 0 .. 5
          /\ moved \in BOOLEAN /\ alone \in BOOLEAN
          /\ outcome \in {"none", "own", "other", "nothing"}

\* A name leads to a file, and a symbolic link to a name.
NamesLead == /\ \A n \in Names : Exists(n) => file[entry[n]].kind # "free"
             /\ \A i \in Inodes : file[i].kind = "symlink" => file[i].target \in Names

\* What main has done when.
Progress == /\ mpc \in {"sigaction", "open"} => fd = 0 /\ ~alone
            /\ fd = 0 => mpc \in {"sigaction", "open", "exit 1", "killed"}
            /\ mpc \in {"sigaction", "open", "write", "write failed", "pause",
                        "pausing", "unlink"} => outcome = "none"
            /\ mpc \in {"pause again", "pausing again", "exit", "ended"} =>
                 outcome # "none"

\* The open file is there, whatever names it has.
OpenIsKept == fd # 0 /\ ~Ended => file[fd].kind \in {"regular", "fifo"}

\* Until the unlink, "a" has led to the open file, or moved tells.
StillHere == fd # 0 /\ outcome = "none" /\ ~moved => entry["a"] = fd

\* While the file is open, alone tells of every other name; after the unlink,
\* no name is left, and none comes back.
OnlyName == fd # 0 /\ ~Ended /\ alone =>
  /\ NamesOf(fd, entry) \subseteq {"a"}
  /\ outcome # "none" /\ ~moved => NamesOf(fd, entry) = {}

\* chmod.c has told the mode of these files, and nobody has changed it since.
ToldModes == \A i \in told : file[i].kind # "free" /\ file[i].mode = ACCMODE

IInv == /\ TypeOK /\ NamesLead /\ Progress /\ OpenIsKept /\ StillHere /\ OnlyName
        /\ ToldModes /\ UnlinkTold /\ KeptThenFreed
=============================================================================
