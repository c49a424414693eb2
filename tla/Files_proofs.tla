---------------------------- MODULE Files_proofs ----------------------------
(***************************************************************************)
(* UnlinkTold, KeptThenFreed and ModesTold of Files, for any number of     *)
(* programs that change the directory and of signals.                      *)
(***************************************************************************)
EXTENDS Files, TLAPS

FileMap == [Inodes -> [kind : Kinds, mode : SUBSET Bits, target : Names \cup {""}]]
NameMap == [Names -> 0 .. 5]

---------------------------------------------------------------------------
\* The operators.

\* A file is freed as a whole, and only if no name leads to it.
LEMMA Released ==
  ASSUME NEW files \in FileMap, NEW names \in NameMap, NEW open
  PROVE  /\ Release(files, names, open) \in FileMap
         /\ \A i \in Inodes : Release(files, names, open)[i] =
              IF Freed(i, names, open) THEN Free ELSE files[i]
BY DEF FileMap, Release, Free, Kinds, Bits

\* Where the symbolic links end.
LEMMA TargetIs ==
  ASSUME entry \in NameMap, NamesLead, NEW n \in Names
  PROVE  /\ Target(n) \in Names \cup {""}
         /\ Target(n) # "" => ~IsLink(Target(n))
         /\ ~IsLink(n) => Target(n) = n
<1>1. ASSUME NEW m \in Names PROVE Next1(m) \in Names
  BY <1>1 DEF NamesLead, Next1, IsLink, Exists, NameMap, Inodes
<1> QED
  BY <1>1 DEF Target, Next1
---------------------------------------------------------------------------
\* The signals of unlink.c.
Sigs == SignalState({"SIGUSR1"}, {"sig_handler"})

LEMMA SignalSteps ==
  ASSUME sig \in Sigs
  PROVE  /\ Install(sig, "SIGUSR1", Catch("sig_handler", {})) \in Sigs
         /\ Enter(sig, "SIGUSR1") \in Sigs
         /\ SetMask(sig, {}) \in Sigs
         /\ Generate(sig, "SIGUSR1") \in Sigs
<1>1. Install(sig, "SIGUSR1", Catch("sig_handler", {})) \in Sigs
  BY DEF Sigs, SignalState, Install, Catch, IsIgnored, Handler
<1>2. Enter(sig, "SIGUSR1") \in Sigs
  BY DEF Sigs, SignalState, Enter, Default
<1>3. SetMask(sig, {}) \in Sigs /\ Generate(sig, "SIGUSR1") \in Sigs
  BY DEF Sigs, SignalState, SetMask, Generate
<1> QED
  BY <1>1, <1>2, <1>3

---------------------------------------------------------------------------
\* The programs that make one call.

\* The open file is an inode.
LEMMA FdIsInode == ASSUME TypeOK PROVE fd # 0 => fd \in Inodes
<1>1. fd \in 0 .. 5
  BY DEF TypeOK
<1> QED
  BY <1>1 DEF Inodes

\* What a call leaves keeps the invariant if every name of it leads to a file,
\* a file is new or as it was, and a name leads where some name has led or to
\* a new file.
LEMMA LeavesIInv ==
  ASSUME IInv, runs < MaxRuns, MaxRuns \in Nat,
         NEW names \in NameMap, NEW files \in FileMap, Leaves(names, files),
         \A n \in Names : names[n] # 0 => files[names[n]].kind # "free",
         \A i \in Inodes : files[i].kind = "symlink" => files[i].target \in Names,
         \A i \in Inodes : \/ files[i] = file[i]
                           \/ file[i].kind = "free" /\ files[i].kind = "symlink",
         \A n \in Names : \/ names[n] = 0
                          \/ \E m \in Names : names[n] = entry[m]
                          \/ names[n] \in Unused
  PROVE  IInv'
<1>1. /\ entry' = names /\ file' = Release(files, names, Open)
      /\ told' = told \ {i \in Inodes : file'[i].kind = "free"}
      /\ runs' = runs + 1
      /\ UNCHANGED <<sig, sent, mpc, hpc, fd, lost, outcome>>
  BY DEF Leaves, proc
<1>2. /\ moved' \in BOOLEAN /\ alone' \in BOOLEAN
      /\ ~moved' => ~moved /\ (fd # 0 /\ outcome = "none" => names["a"] = fd)
      /\ alone' => alone /\ NamesOf(fd, names) \subseteq {"a"}
  BY DEF Leaves
<1>3. /\ file' \in FileMap
      /\ \A i \in Inodes : /\ Freed(i, names, Open) => file'[i] = Free
                           /\ ~Freed(i, names, Open) => file'[i] = files[i]
  BY <1>1, Released
<1>4. Free.kind = "free" /\ Free.target = ""
  BY DEF Free
<1>5. TypeOK'
  <2>1. runs' \in 0 .. MaxRuns
    <3>1. runs \in 0 .. MaxRuns
      BY DEF IInv, TypeOK
    <3> QED
      BY <1>1, <3>1
  <2>2. told' \subseteq Inodes
    BY <1>1 DEF IInv, TypeOK
  <2>3. entry' \in [Names -> 0 .. 5] /\ file' \in FileMap
    BY <1>1, <1>3 DEF NameMap
  <2> QED
    BY <1>1, <1>2, <2>1, <2>2, <2>3 DEF IInv, TypeOK, FileMap
<1>6. \A n \in Names : names[n] # 0 =>
        names[n] \in Inodes /\ ~Freed(names[n], names, Open)
  BY DEF NameMap, Inodes, Freed
<1>7. NamesLead'
  <2>1. \A n \in Names : names[n] # 0 => file'[names[n]] = files[names[n]]
    BY <1>3, <1>6
  <2>2. \A n \in Names : names[n] # 0 => file'[names[n]].kind # "free"
    BY <2>1
  <2>3. \A i \in Inodes : file'[i].kind = "symlink" => file'[i].target \in Names
    <3> SUFFICES ASSUME NEW i \in Inodes, file'[i].kind = "symlink"
                 PROVE  file'[i].target \in Names
      OBVIOUS
    <3>1. file'[i] = files[i]
      BY <1>3, <1>4
    <3> QED
      BY <3>1
  <2> QED
    BY <1>1, <2>2, <2>3 DEF NamesLead, Exists
<1>8. fd # 0 => fd \in Inodes
  BY FdIsInode DEF IInv
<1>9. OpenIsKept'
  <2>1. fd # 0 /\ ~Ended => files[fd] = file[fd]
    <3> SUFFICES ASSUME fd # 0, ~Ended PROVE files[fd] = file[fd]
      OBVIOUS
    <3>1. fd \in Inodes /\ file[fd].kind # "free"
      BY <1>8 DEF IInv, OpenIsKept
    <3> QED
      BY <3>1
  <2>2. fd # 0 /\ ~Ended => ~Freed(fd, names, Open)
    BY DEF Ended, Open, Freed
  <2>3. fd # 0 /\ ~Ended => file'[fd] = file[fd]
    BY <1>3, <1>8, <2>1, <2>2
  <2> QED
    BY <1>1, <2>3 DEF IInv, OpenIsKept, Ended
<1>10. StillHere'
  BY <1>1, <1>2 DEF StillHere
<1>11. OnlyName'
  <2>1. fd # 0 /\ ~Ended => fd \notin Unused
    BY DEF IInv, OpenIsKept, Unused
  <2>2. fd # 0 /\ ~Ended /\ alone /\ outcome # "none" /\ ~moved =>
          \A m \in Names : entry[m] # fd
    BY DEF IInv, OnlyName, NamesOf
  <2>3. fd # 0 /\ ~Ended /\ alone /\ outcome # "none" /\ ~moved => NamesOf(fd, names) = {}
    BY <2>1, <2>2 DEF NamesOf
  <2> QED
    BY <1>1, <1>2, <2>3 DEF OnlyName, Ended, NamesOf
<1>12. ToldModes'
  <2>1. \A i \in told' : i \in told /\ i \in Inodes /\ file'[i].kind # "free"
    BY <1>1 DEF IInv, TypeOK
  <2>2. \A i \in told' : file'[i] = file[i]
    BY <2>1, <1>3, <1>4 DEF IInv, ToldModes
  <2> QED
    BY <2>1, <2>2 DEF IInv, ToldModes
<1>13. KeptThenFreed'
  <2>1. mpc = "ended" => fd \in Inodes
    BY <1>8 DEF IInv, Progress
  <2>2. mpc = "ended" /\ alone /\ ~moved => file[fd].kind # "regular"
    BY DEF IInv, KeptThenFreed
  <2>3. mpc = "ended" /\ alone /\ ~moved => file'[fd].kind # "regular"
    BY <1>3, <1>4, <2>1, <2>2
  <2> QED
    BY <1>1, <1>2, <1>9, <2>3 DEF KeptThenFreed, OpenIsKept
<1>14. Progress'
  BY <1>1, <1>2 DEF IInv, Progress
<1>15. UnlinkTold'
  BY <1>1, <1>2 DEF IInv, UnlinkTold
<1> QED
  BY <1>5, <1>7, <1>9, <1>10, <1>11, <1>12, <1>13, <1>14, <1>15 DEF IInv

\* The invariant has the typing and the facts of its parts that a call needs.
LEMMA AsTyped ==
  ASSUME IInv
  PROVE  /\ entry \in NameMap /\ file \in FileMap
         /\ \A n \in Names : entry[n] # 0 =>
              entry[n] \in Inodes /\ file[entry[n]].kind # "free"
         /\ \A i \in Inodes : file[i].kind = "symlink" => file[i].target \in Names
<1>1. entry \in NameMap /\ file \in FileMap
  BY DEF IInv, TypeOK, NameMap, FileMap
<1>2. \A n \in Names : entry[n] # 0 => entry[n] \in Inodes
  BY <1>1 DEF NameMap, Inodes
<1> QED
  BY <1>1, <1>2 DEF IInv, NamesLead, Exists

LEMMA RenameIInv ==
  ASSUME IInv, MaxRuns \in Nat, runs < MaxRuns,
         NEW old \in Names, NEW new \in Names, Rename(old, new)
  PROVE  IInv'
<1> DEFINE names == IF entry[old] = entry[new] THEN entry
                    ELSE [entry EXCEPT ![new] = entry[old], ![old] = 0]
<1>1. Leaves(names, file)
  BY DEF Rename
<1>2. names \in NameMap /\ file \in FileMap
  BY AsTyped DEF NameMap
<1>3. \A n \in Names : names[n] = 0 \/ \E m \in Names : names[n] = entry[m]
  BY AsTyped DEF NameMap
<1> HIDE DEF names
<1>4. \A n \in Names : names[n] # 0 => file[names[n]].kind # "free"
  BY <1>3, AsTyped
<1> QED
  BY <1>1, <1>2, <1>3, <1>4, AsTyped, LeavesIInv

LEMMA NewNameIInv ==
  ASSUME IInv, MaxRuns \in Nat, runs < MaxRuns,
         NEW from \in Names \cup {""}, NEW new \in Names, NewName(from, new)
  PROVE  IInv'
<1> DEFINE names == [entry EXCEPT ![new] = entry[from]]
<1>1. Leaves(names, file) /\ from \in Names
  BY DEF NewName
<1>2. names \in NameMap /\ file \in FileMap
  BY <1>1, AsTyped DEF NameMap
<1>3. \A n \in Names : \E m \in Names : names[n] = entry[m]
  BY <1>1, AsTyped DEF NameMap
<1> HIDE DEF names
<1>4. \A n \in Names : names[n] # 0 => file[names[n]].kind # "free"
  BY <1>3, AsTyped
<1> QED
  BY <1>1, <1>2, <1>3, <1>4, AsTyped, LeavesIInv

LEMMA MakeSymlinkIInv ==
  ASSUME IInv, MaxRuns \in Nat, runs < MaxRuns,
         NEW target \in Names, NEW new \in Names, MakeSymlink(target, new)
  PROVE  IInv'
<1> PICK i \in Unused : Leaves([entry EXCEPT ![new] = i], [file EXCEPT ![i] = Symlink(target)])
  BY DEF MakeSymlink
<1> DEFINE names == [entry EXCEPT ![new] = i]
           files == [file EXCEPT ![i] = Symlink(target)]
<1>1. i \in Inodes /\ i \in 0 .. 5 /\ file[i].kind = "free"
  BY DEF Unused, Inodes
<1>2. Symlink(target) \in [kind : Kinds, mode : SUBSET Bits, target : Names \cup {""}]
  BY DEF Symlink, Kinds
<1>3. Symlink(target).kind = "symlink" /\ Symlink(target).target = target
  BY DEF Symlink
<1>4. names \in NameMap /\ files \in FileMap
  BY <1>1, <1>2, AsTyped DEF NameMap, FileMap
<1>5. \A n \in Names : names[n] = IF n = new THEN i ELSE entry[n]
  BY AsTyped DEF NameMap
<1>6. \A j \in Inodes : files[j] = IF j = i THEN Symlink(target) ELSE file[j]
  BY AsTyped DEF FileMap
<1>7. \A n \in Names : entry[n] # i
  BY <1>1, AsTyped DEF Inodes
<1>8. Leaves(names, files)
  OBVIOUS
<1> HIDE DEF names, files
<1>9. \A n \in Names : entry[n] # 0 => entry[n] \in Inodes
  BY AsTyped
<1>10. \A n \in Names : names[n] # 0 => files[names[n]].kind # "free"
  BY <1>1, <1>3, <1>5, <1>6, <1>7, <1>9, AsTyped
<1>11. \A j \in Inodes : files[j].kind = "symlink" => files[j].target \in Names
  BY <1>3, <1>6, AsTyped
<1>12. \A j \in Inodes : \/ files[j] = file[j]
                         \/ file[j].kind = "free" /\ files[j].kind = "symlink"
  BY <1>1, <1>3, <1>6
<1>13. \A n \in Names : \/ names[n] = 0
                        \/ \E m \in Names : names[n] = entry[m]
                        \/ names[n] \in Unused
  BY <1>5
<1> QED
  BY <1>4, <1>8, <1>10, <1>11, <1>12, <1>13, LeavesIInv

\* chmod changes the mode of one file, and tells it.
LEMMA ChmodIInv ==
  ASSUME IInv, MaxRuns \in Nat, runs < MaxRuns, NEW n \in Names, Chmod(n)
  PROVE  IInv'
<1> DEFINE i == entry[Target(n)]
<1>1. /\ Target(n) \in Names /\ i # 0
      /\ file' = [file EXCEPT ![i].mode = ACCMODE]
      /\ told' = told \cup {i} /\ runs' = runs + 1
      /\ UNCHANGED <<entry, moved, alone, sig, sent, mpc, hpc, fd, lost, outcome>>
  BY AsTyped, TargetIs DEF Chmod, Exists, proc, IInv
<1>2. i \in Inodes /\ file[i].kind # "free"
  BY <1>1, AsTyped DEF NameMap, Inodes
<1> HIDE DEF i
<1>3. /\ file' \in FileMap
      /\ \A j \in Inodes : file'[j].kind = file[j].kind /\ file'[j].target = file[j].target
      /\ \A j \in Inodes : file'[j].mode = IF j = i THEN ACCMODE ELSE file[j].mode
  <2>1. ACCMODE \in SUBSET Bits
    BY DEF ACCMODE, Bits, M1777
  <2> HIDE DEF ACCMODE
  <2>2. \A j \in Inodes : file[j] \in [kind : Kinds, mode : SUBSET Bits, target : Names \cup {""}]
    BY AsTyped DEF FileMap
  <2>3. \A j \in Inodes : file'[j] = IF j = i THEN [file[i] EXCEPT !.mode = ACCMODE] ELSE file[j]
    BY <1>1, <1>2, AsTyped DEF FileMap
  <2>4. /\ [file[i] EXCEPT !.mode = ACCMODE] \in
              [kind : Kinds, mode : SUBSET Bits, target : Names \cup {""}]
        /\ [file[i] EXCEPT !.mode = ACCMODE].kind = file[i].kind
        /\ [file[i] EXCEPT !.mode = ACCMODE].target = file[i].target
        /\ [file[i] EXCEPT !.mode = ACCMODE].mode = ACCMODE
    BY <1>2, <2>1, <2>2
  <2>5. file' \in FileMap
    BY <1>1, <1>2, <2>1, AsTyped DEF FileMap
  <2> QED
    BY <2>3, <2>4, <2>5
<1>4. TypeOK'
  <2>1. runs' \in 0 .. MaxRuns
    <3>1. runs \in 0 .. MaxRuns
      BY DEF IInv, TypeOK
    <3> QED
      BY <1>1, <3>1
  <2>2. told' \subseteq Inodes
    BY <1>1, <1>2 DEF IInv, TypeOK
  <2> QED
    BY <1>1, <1>3, <2>1, <2>2 DEF IInv, TypeOK, FileMap
<1>5. NamesLead'
  <2>1. \A m \in Names : entry[m] # 0 => entry[m] \in Inodes
    BY AsTyped
  <2> QED
    BY <1>1, <1>3, <2>1, AsTyped DEF NamesLead, Exists
<1>6. fd # 0 => file'[fd].kind = file[fd].kind
  BY <1>3, FdIsInode DEF IInv
<1>7. mpc = "ended" => fd # 0
  BY DEF IInv, Progress
<1>8. OpenIsKept' /\ KeptThenFreed'
  BY <1>1, <1>6, <1>7 DEF IInv, OpenIsKept, KeptThenFreed, Ended
<1>9. ToldModes'
  BY <1>1, <1>2, <1>3 DEF IInv, TypeOK, ToldModes
<1>10. StillHere' /\ OnlyName'
  BY <1>1 DEF IInv, StillHere, OnlyName, NamesOf, Ended
<1>11. Progress' /\ UnlinkTold'
  BY <1>1 DEF IInv, Progress, UnlinkTold
<1> QED
  BY <1>4, <1>5, <1>8, <1>9, <1>10, <1>11 DEF IInv

---------------------------------------------------------------------------
\* unlink.c.

\* At the end the open file is freed if it never had a name but "a", and the
\* unlink has removed that one.
LEMMA EndAsIInv ==
  ASSUME IInv, NEW how \in {"exit 1", "ended"}, EndAs(how),
         how = "ended" => mpc = "exit"
  PROVE  IInv'
<1>1. /\ mpc' = how /\ file' = Release(file, entry, 0)
      /\ told' = told \ {i \in Inodes : file'[i].kind = "free"}
      /\ UNCHANGED <<entry, runs, sig, sent, hpc, fd, lost, outcome, moved, alone>>
  BY DEF EndAs, Goto
<1>2. /\ file' \in FileMap
      /\ \A i \in Inodes : /\ Freed(i, entry, 0) => file'[i] = Free
                           /\ ~Freed(i, entry, 0) => file'[i] = file[i]
  BY <1>1, Released, AsTyped
<1>3. Free.kind = "free" /\ Free.target = ""
  BY DEF Free
<1>4. TypeOK'
  <2>1. told' \subseteq Inodes
    BY <1>1 DEF IInv, TypeOK
  <2> QED
    BY <1>1, <1>2, <2>1 DEF IInv, TypeOK, FileMap, Places, Dead
<1>5. NamesLead'
  <2>1. \A n \in Names : entry[n] # 0 =>
          entry[n] \in Inodes /\ ~Freed(entry[n], entry, 0)
    <3>1. \A n \in Names : entry[n] # 0 => entry[n] \in Inodes
      BY AsTyped
    <3>2. \A n \in Names : ~Freed(entry[n], entry, 0)
      BY DEF Freed
    <3> QED
      BY <3>1, <3>2
  <2>2. \A n \in Names : entry[n] # 0 => file'[entry[n]].kind # "free"
    BY <1>2, <2>1, AsTyped
  <2>3. \A i \in Inodes : file'[i].kind = "symlink" => file'[i].target \in Names
    <3> SUFFICES ASSUME NEW i \in Inodes, file'[i].kind = "symlink"
                 PROVE  file'[i].target \in Names
      OBVIOUS
    <3>1. file'[i] = file[i]
      BY <1>2, <1>3
    <3> QED
      BY <3>1, AsTyped
  <2> QED
    BY <1>1, <2>2, <2>3 DEF NamesLead, Exists
<1>6. KeptThenFreed'
  <2>1. SUFFICES ASSUME mpc = "exit", alone, ~moved PROVE file'[fd].kind # "regular"
    BY <1>1 DEF KeptThenFreed, Ended, Dead
  <2>2. fd # 0 /\ ~Ended /\ outcome # "none"
    BY <2>1 DEF IInv, Progress, Ended, Dead
  <2>3. NamesOf(fd, entry) = {}
    BY <2>1, <2>2 DEF IInv, OnlyName
  <2>4. fd \in Inodes /\ Freed(fd, entry, 0)
    BY <2>2, <2>3, FdIsInode DEF IInv, Freed, NamesOf
  <2> QED
    BY <1>2, <1>3, <2>4
<1>7. ToldModes'
  <2>1. \A i \in told' : i \in told /\ i \in Inodes /\ file'[i].kind # "free"
    BY <1>1 DEF IInv, TypeOK
  <2>2. \A i \in told' : file'[i] = file[i]
    BY <2>1, <1>2, <1>3
  <2> QED
    BY <2>1, <2>2 DEF IInv, ToldModes
<1>8. Progress'
  BY <1>1 DEF IInv, Progress
<1>9. OpenIsKept' /\ OnlyName'
  BY <1>1 DEF OpenIsKept, OnlyName, Ended, Dead
<1>10. StillHere' /\ UnlinkTold'
  BY <1>1 DEF IInv, StillHere, UnlinkTold
<1> QED
  BY <1>4, <1>5, <1>6, <1>7, <1>8, <1>9, <1>10 DEF IInv

LEMMA UnlinkIInv == ASSUME IInv, Unlink PROVE IInv'
<1>1. /\ mpc = "unlink" /\ mpc' = "pause again"
      /\ UNCHANGED <<runs, sig, sent, hpc, fd, lost, moved, alone>>
  BY DEF Unlink, InMain, Goto
<1>2. /\ fd # 0 /\ fd \in Inodes /\ ~Ended /\ outcome = "none"
      /\ file[fd].kind \in {"regular", "fifo"}
      /\ ~moved => entry["a"] = fd
  BY <1>1, FdIsInode DEF IInv, Progress, StillHere, OpenIsKept, Ended, Dead
<1>3. CASE /\ outcome' = IF entry["a"] = fd THEN "own" ELSE "other"
           /\ entry' = [entry EXCEPT !["a"] = 0]
           /\ file' = Release(file, entry', fd)
           /\ told' = told \ {i \in Inodes : file'[i].kind = "free"}
  <2>1. /\ entry' \in NameMap
        /\ \A n \in Names : entry'[n] = IF n = "a" THEN 0 ELSE entry[n]
    BY <1>3, AsTyped DEF NameMap, Names
  <2>2. /\ file' \in FileMap
        /\ \A i \in Inodes : /\ Freed(i, entry', fd) => file'[i] = Free
                             /\ ~Freed(i, entry', fd) => file'[i] = file[i]
    <3> PICK names \in NameMap : names = entry'
      BY <2>1
    <3>1. /\ Release(file, names, fd) \in FileMap
          /\ \A i \in Inodes : Release(file, names, fd)[i] =
               IF Freed(i, names, fd) THEN Free ELSE file[i]
      BY Released, AsTyped
    <3>2. file' = Release(file, names, fd)
      BY <1>3
    <3> QED
      BY <3>1, <3>2
  <2>3. Free.kind = "free" /\ Free.target = ""
    BY DEF Free
  <2>4. outcome' \in {"own", "other"} /\ (outcome' = "other" => moved)
    BY <1>2, <1>3
  <2>5. TypeOK'
    <3>1. told' \subseteq Inodes
      BY <1>3 DEF IInv, TypeOK
    <3> QED
      BY <1>1, <2>1, <2>2, <2>4, <3>1 DEF IInv, TypeOK, FileMap, NameMap, Places, Dead
  <2>6. NamesLead'
    <3>1. \A n \in Names : entry'[n] # 0 =>
            /\ entry'[n] \in Inodes /\ ~Freed(entry'[n], entry', fd)
            /\ entry'[n] = entry[n]
      BY <2>1 DEF NameMap, Inodes, Freed
    <3>2. \A n \in Names : entry'[n] # 0 => file'[entry'[n]].kind # "free"
      BY <2>2, <3>1, AsTyped
    <3>3. \A i \in Inodes : file'[i].kind = "symlink" => file'[i].target \in Names
      <4> SUFFICES ASSUME NEW i \in Inodes, file'[i].kind = "symlink"
                   PROVE  file'[i].target \in Names
        OBVIOUS
      <4>1. file'[i] = file[i]
        BY <2>2, <2>3
      <4> QED
        BY <4>1, AsTyped
    <3> QED
      BY <3>2, <3>3 DEF NamesLead, Exists
  <2>7. file'[fd] = file[fd]
    BY <1>2, <2>2 DEF Freed
  <2>8. OpenIsKept' /\ KeptThenFreed'
    BY <1>1, <1>2, <2>7 DEF OpenIsKept, KeptThenFreed, Ended, Dead
  <2>9. OnlyName'
    <3>1. alone => NamesOf(fd, entry) \subseteq {"a"}
      BY <1>2 DEF IInv, OnlyName
    <3>2. alone => NamesOf(fd, entry') = {}
      BY <1>2, <2>1, <3>1 DEF NamesOf
    <3> QED
      BY <1>1, <3>2 DEF OnlyName, NamesOf
  <2>10. ToldModes'
    <3>1. \A i \in told' : i \in told /\ i \in Inodes /\ file'[i].kind # "free"
      BY <1>3 DEF IInv, TypeOK
    <3>2. \A i \in told' : file'[i] = file[i]
      BY <2>2, <2>3, <3>1
    <3> QED
      BY <3>1, <3>2 DEF IInv, ToldModes
  <2>11. StillHere' /\ Progress' /\ UnlinkTold'
    BY <1>1, <1>2, <2>4 DEF StillHere, Progress, UnlinkTold
  <2> QED
    BY <2>5, <2>6, <2>8, <2>9, <2>10, <2>11 DEF IInv
<1>4. CASE /\ ~Exists("a") \/ IsDirectory("a")
           /\ outcome' = "nothing"
           /\ UNCHANGED fs
  <2>1. UNCHANGED <<entry, file, told>>
    BY <1>4 DEF fs
  <2>2. moved
    BY <1>2, <1>4 DEF Exists, IsDirectory
  <2>3. TypeOK'
    BY <1>1, <1>4, <2>1 DEF IInv, TypeOK, Places, Dead
  <2>4. NamesLead' /\ ToldModes'
    BY <2>1 DEF IInv, NamesLead, Exists, ToldModes
  <2>5. OpenIsKept' /\ KeptThenFreed'
    BY <1>1, <1>2, <2>1 DEF OpenIsKept, KeptThenFreed, Ended, Dead
  <2>6. OnlyName'
    BY <1>1, <1>2, <2>1, <2>2 DEF IInv, OnlyName, NamesOf
  <2>7. StillHere' /\ Progress' /\ UnlinkTold'
    BY <1>1, <1>2, <1>4, <2>2 DEF StillHere, Progress, UnlinkTold
  <2> QED
    BY <2>3, <2>4, <2>5, <2>6, <2>7 DEF IInv
<1> QED
  BY <1>3, <1>4 DEF Unlink

\* open: what "a" leads to, or a new file under that name.
LEMMA OpenFileIInv == ASSUME IInv, OpenFile PROVE IInv'
<1> DEFINE end == Target("a")
<1>1. mpc = "open" /\ fd = 0 /\ outcome = "none" /\ ~alone
  BY DEF OpenFile, InMain, IInv, Progress
<1>2. /\ end \in Names \cup {""}
      /\ end # "" => ~IsLink(end)
  BY AsTyped, TargetIs DEF IInv, Names
<1> HIDE DEF end
<1>3. ASSUME NEW i \in Inodes, Opened(i, entry'), Goto("write"),
             UNCHANGED told, TypeOK', NamesLead', ToldModes',
             file'[i].kind \in {"regular", "fifo"}
      PROVE  IInv'
  <2>1. /\ fd' = i /\ mpc' = "write" /\ UNCHANGED outcome /\ i # 0
        /\ ~moved' => entry'["a"] = i
        /\ alone' => NamesOf(i, entry') = {"a"}
    <3>1. fd' = i /\ mpc' = "write" /\ UNCHANGED outcome /\ i # 0
      BY <1>3 DEF Opened, Goto, Inodes
    <3>2. ~moved' => entry'["a"] = i
      BY <1>3 DEF Opened
    <3>3. alone' => NamesOf(i, entry') = {"a"}
      BY <1>3 DEF Opened
    <3> QED
      BY <3>1, <3>2, <3>3
  <2>2. OpenIsKept' /\ StillHere' /\ OnlyName'
    BY <1>1, <1>3, <2>1 DEF OpenIsKept, StillHere, OnlyName, NamesOf
  <2>3. Progress' /\ UnlinkTold' /\ KeptThenFreed'
    BY <1>1, <1>3, <2>1 DEF Progress, UnlinkTold, KeptThenFreed
  <2> QED
    BY <1>3, <2>2, <2>3 DEF IInv
<1>4. CASE /\ Openable(end)
           /\ Opened(entry[end], entry) /\ Goto("write")
           /\ UNCHANGED fs
  <2>1. UNCHANGED <<entry, file, told>>
    BY <1>4 DEF fs
  <2>2. /\ end \in Names /\ entry[end] # 0
        /\ file[entry[end]].kind # "directory"
    BY <1>2, <1>4 DEF Openable, Exists
  <2>3. entry[end] \in Inodes /\ file[entry[end]].kind \notin {"directory", "symlink", "free"}
    <3>1. entry[end] \in Inodes
      BY <2>2, AsTyped DEF NameMap, Inodes
    <3>2. file[entry[end]].kind # "symlink"
      BY <1>2, <2>2 DEF IsLink, Exists, Names
    <3> QED
      BY <2>2, <3>1, <3>2, AsTyped
  <2>4. file[entry[end]].kind \in {"regular", "fifo"}
    BY <2>3, AsTyped DEF FileMap, Kinds
  <2>5. /\ fd' \in 0 .. 5 /\ moved' \in BOOLEAN /\ alone' \in BOOLEAN
        /\ UNCHANGED <<runs, sig, sent, hpc, lost, outcome>> /\ mpc' = "write"
    BY <1>4, <2>3 DEF Opened, Goto, Inodes
  <2>6. TypeOK'
    BY <2>1, <2>5 DEF IInv, TypeOK, Places, Dead
  <2>7. NamesLead' /\ ToldModes'
    BY <2>1 DEF IInv, NamesLead, Exists, ToldModes
  <2>8. Opened(entry[end], entry') /\ file'[entry[end]].kind \in {"regular", "fifo"}
    BY <1>4, <2>1, <2>4
  <2> QED
    BY <1>3, <1>4, <2>1, <2>3, <2>6, <2>7, <2>8
<1>5. CASE /\ Creatable(end)
           /\ \E i \in Unused, mode \in {M0644, M0001, M2750} :
                /\ \A j \in Unused : i =< j
                /\ entry' = [entry EXCEPT ![end] = i]
                /\ file' = [file EXCEPT ![i] = Regular(mode)]
                /\ Opened(i, entry')
           /\ Goto("write") /\ UNCHANGED told
  <2> PICK i \in Unused, mode \in {M0644, M0001, M2750} :
             /\ entry' = [entry EXCEPT ![end] = i]
             /\ file' = [file EXCEPT ![i] = Regular(mode)]
             /\ Opened(i, entry')
    BY <1>5
  <2>1. end \in Names
    BY <1>2, <1>5 DEF Creatable
  <2>2. i \in Inodes /\ i \in 0 .. 5 /\ file[i].kind = "free"
    BY DEF Unused, Inodes
  <2>3. /\ Regular(mode) \in [kind : Kinds, mode : SUBSET Bits, target : Names \cup {""}]
        /\ Regular(mode).kind = "regular"
    <3>1. mode \in SUBSET Bits
      BY DEF Bits, M0644, M0001, M2750, M1777
    <3> QED
      BY <3>1 DEF Regular, Kinds
  <2>4. entry' \in NameMap /\ file' \in FileMap
    BY <2>1, <2>2, <2>3, AsTyped DEF NameMap, FileMap
  <2>5. \A n \in Names : entry'[n] = IF n = end THEN i ELSE entry[n]
    BY <2>1, AsTyped DEF NameMap
  <2>6. \A j \in Inodes : file'[j] = IF j = i THEN Regular(mode) ELSE file[j]
    BY AsTyped DEF FileMap
  <2>7. /\ fd' \in 0 .. 5 /\ moved' \in BOOLEAN /\ alone' \in BOOLEAN
        /\ UNCHANGED <<runs, sig, sent, hpc, lost, outcome, told>> /\ mpc' = "write"
    BY <1>5, <2>2 DEF Opened, Goto
  <2>8. TypeOK'
    BY <2>4, <2>7 DEF IInv, TypeOK, Places, Dead, NameMap, FileMap
  <2>9. NamesLead'
    <3>1. \A n \in Names : entry[n] # 0 => entry[n] \in Inodes
      BY AsTyped
    <3>2. \A n \in Names : entry'[n] # 0 => file'[entry'[n]].kind # "free"
      <4> SUFFICES ASSUME NEW n \in Names, entry'[n] # 0
                   PROVE  file'[entry'[n]].kind # "free"
        OBVIOUS
      <4>1. CASE n = end
        BY <2>2, <2>3, <2>5, <2>6, <4>1
      <4>2. CASE n # end
        <5>1. entry'[n] = entry[n] /\ entry[n] # 0 /\ entry[n] \in Inodes
          BY <2>5, <3>1, <4>2
        <5>2. file[entry[n]].kind # "free"
          BY <5>1, AsTyped
        <5>3. file'[entry[n]] = file[entry[n]]
          BY <2>2, <2>6, <5>1, <5>2
        <5> QED
          BY <5>1, <5>2, <5>3
      <4> QED
        BY <4>1, <4>2
    <3>3. \A j \in Inodes : file'[j].kind = "symlink" => file'[j].target \in Names
      BY <2>3, <2>6, AsTyped
    <3> QED
      BY <3>2, <3>3 DEF NamesLead, Exists
  <2>10. ToldModes'
    <3>1. \A j \in told : j \in Inodes /\ j # i
      BY <2>2 DEF IInv, TypeOK, ToldModes
    <3>2. \A j \in told : file'[j] = file[j]
      BY <2>6, <3>1
    <3> QED
      BY <2>7, <3>2 DEF IInv, ToldModes
  <2>11. file'[i].kind \in {"regular", "fifo"}
    BY <2>2, <2>3, <2>6
  <2> QED
    BY <1>3, <1>5, <2>2, <2>8, <2>9, <2>10, <2>11
<1>6. CASE EndAs("exit 1")
  BY <1>6, EndAsIInv
<1> QED
  BY <1>4, <1>5, <1>6 DEF OpenFile, end

\* The steps of main that change no file and nothing that is known of it.
LEMMA GotoIInv ==
  ASSUME IInv, NEW to \in Places,
         mpc' = to, UNCHANGED <<entry, file, told, runs, fd, outcome, moved, alone>>,
         sig' \in Sigs, sent' \in 0 .. MaxSent, hpc' \in {"none", "psignal"}, lost' \in Nat,
         \/ to = mpc \/ to = "killed"
         \/ mpc = "sigaction" /\ to = "open"
         \/ mpc = "write" /\ to \in {"pause", "write failed"}
         \/ mpc = "pause" /\ to = "pausing"
         \/ mpc = "pausing" /\ to = "unlink"
         \/ mpc = "pause again" /\ to = "pausing again"
         \/ mpc = "pausing again" /\ to = "exit"
  PROVE  IInv'
<1>1. TypeOK'
  BY DEF IInv, TypeOK, Sigs
<1>2. NamesLead' /\ ToldModes'
  BY DEF IInv, NamesLead, Exists, ToldModes
<1>3. Progress'
  BY DEF IInv, Progress
<1>4. Ended => Ended'
  BY DEF Ended, Dead
<1>5. OpenIsKept' /\ OnlyName'
  BY <1>4 DEF IInv, OpenIsKept, OnlyName, NamesOf
<1>6. KeptThenFreed'
  BY <1>4 DEF IInv, KeptThenFreed
<1>7. StillHere' /\ UnlinkTold'
  BY DEF IInv, StillHere, UnlinkTold
<1> QED
  BY <1>1, <1>2, <1>3, <1>5, <1>6, <1>7 DEF IInv

\* The directory before the programs run.
LEMMA InitIInv == ASSUME MaxRuns \in Nat, MaxSent \in Nat, Init PROVE IInv
<1>1. PICK k \in StartKinds, m \in StartModes :
             file = StartFiles(k, m) /\ entry = StartNames(k)
  BY DEF Init
<1> DEFINE File == [kind : Kinds, mode : SUBSET Bits, target : Names \cup {""}]
<1>2. /\ Directory \in File /\ Directory.kind = "directory"
      /\ Regular(m) \in File /\ Regular(m).kind = "regular"
      /\ Symlink("b") \in File /\ Symlink("b").kind = "symlink"
      /\ Symlink("b").target \in Names
      /\ Fifo \in File /\ Fifo.kind = "fifo"
      /\ Free \in File /\ Free.kind = "free"
  <2>1. M1777 \in SUBSET Bits /\ M2750 \in SUBSET Bits /\ m \in SUBSET Bits
    BY DEF StartModes, Bits, M0644, M0001, M2750, M1777
  <2> QED
    BY <2>1 DEF Directory, Regular, Symlink, Fifo, Free, Kinds, Names
<1> HIDE DEF File
<1>3. /\ file[1] = Directory
      /\ k # "none" => file[2] = Regular(m)
      /\ k = "symlink" => file[3] = Symlink("b")
      /\ k = "regular" => file[4] = Fifo
  BY <1>1 DEF StartFiles, Inodes
<1>4. /\ file = [i \in Inodes |-> file[i]]
      /\ \A i \in Inodes : file[i] \in {Directory, Regular(m), Symlink("b"), Fifo, Free}
  BY <1>1 DEF StartFiles
<1>5. /\ entry["d"] = 1
      /\ entry["a"] = IF k = "symlink" THEN 3 ELSE IF k = "none" THEN 0 ELSE 2
      /\ entry["b"] = IF k = "none" THEN 0 ELSE IF k = "regular" THEN 4 ELSE 2
  <2>1. "a" \in Names /\ "b" \in Names /\ "d" \in Names
    BY DEF Names
  <2> QED
    BY <1>1, <2>1 DEF StartKinds, StartNames
<1>6. entry = [n \in Names |-> entry[n]]
  BY <1>1 DEF StartNames
<1>7. /\ told = {} /\ runs = 0 /\ sent = 0 /\ mpc = "sigaction" /\ hpc = "none"
      /\ fd = 0 /\ lost = 0 /\ outcome = "none" /\ moved = FALSE /\ alone = FALSE
  BY DEF Init
<1>8. TypeOK
  <2>1. file \in [Inodes -> File]
    BY <1>2, <1>4
  <2>2. \A n \in Names : entry[n] \in 0 .. 5
    BY <1>5 DEF Names
  <2>3. entry \in [Names -> 0 .. 5]
    BY <1>6, <2>2
  <2>4. sig \in Sigs
    BY DEF Init, NoActions, Default, Sigs, SignalState
  <2>5. 0 \in 0 .. MaxRuns /\ 0 \in 0 .. MaxSent /\ 0 \in Nat /\ 0 \in 0 .. 5
    OBVIOUS
  <2> QED
    BY <1>7, <2>1, <2>3, <2>4, <2>5 DEF TypeOK, Sigs, Places, File
<1>9. NamesLead
  <2>1. \A n \in Names : entry[n] # 0 => file[entry[n]].kind # "free"
    BY <1>2, <1>3, <1>5 DEF Names
  <2>2. \A i \in Inodes : file[i].kind = "symlink" => file[i].target \in Names
    BY <1>2, <1>4
  <2> QED
    BY <2>1, <2>2 DEF NamesLead, Exists
<1>10. Progress /\ OpenIsKept /\ StillHere /\ OnlyName /\ ToldModes
  BY <1>7 DEF Progress, OpenIsKept, StillHere, OnlyName, ToldModes
<1>11. UnlinkTold /\ KeptThenFreed
  BY <1>7 DEF UnlinkTold, KeptThenFreed
<1> QED
  BY <1>8, <1>9, <1>10, <1>11 DEF IInv

LEMMA DeliverIInv == ASSUME IInv, Deliver PROVE IInv'
<1>1. /\ sig' \in Sigs
      /\ UNCHANGED <<entry, file, told, runs, sent, fd, outcome, moved, alone>>
  BY SignalSteps DEF Deliver, fs, IInv, TypeOK, Sigs
<1>2. lost \in Nat /\ hpc \in {"none", "psignal"} /\ sent \in 0 .. MaxSent /\ mpc \in Places
  BY DEF IInv, TypeOK
<1>3. CASE mpc' = "killed" /\ UNCHANGED <<hpc, lost>>
  <2>1. "killed" \in Places
    BY DEF Places, Dead
  <2> QED
    BY <1>1, <1>2, <1>3, <2>1, GotoIInv
<1>4. CASE /\ hpc' = "psignal"
           /\ mpc' \in AfterSignal(mpc)
           /\ lost' = IF Pausing THEN lost ELSE lost + 1
  <2>1. lost' \in Nat
    BY <1>2, <1>4
  <2>2. \/ mpc' = mpc
        \/ mpc = "pausing" /\ mpc' = "unlink"
        \/ mpc = "pausing again" /\ mpc' = "exit"
        \/ mpc = "write" /\ mpc' = "write failed"
    BY <1>4 DEF AfterSignal
  <2>3. mpc' \in Places
    BY <1>2, <2>2 DEF Places
  <2> QED
    BY <1>1, <1>2, <1>4, <2>1, <2>2, <2>3, GotoIInv
<1> QED
  BY <1>3, <1>4 DEF Deliver

\* The other steps of unlink.c, and of who sends it signals.
LEMMA ProcIInv ==
  ASSUME IInv, MaxSent \in Nat,
         Sigaction \/ Write \/ WriteFailed \/ Pause \/ Exit \/ SigHandler \/ Send
  PROVE  IInv'
<1>1. /\ lost \in Nat /\ hpc \in {"none", "psignal"} /\ sent \in 0 .. MaxSent
      /\ mpc \in Places /\ sig \in Sigs
  BY DEF IInv, TypeOK, Sigs
<1>2. {"open", "pause", "pausing", "pausing again"} \subseteq Places
  BY DEF Places
<1>3. CASE Sigaction
  <2>1. /\ mpc = "sigaction" /\ mpc' = "open" /\ sig' \in Sigs
        /\ UNCHANGED <<entry, file, told, runs, sent, hpc, fd, lost, outcome, moved, alone>>
    BY <1>1, <1>3, SignalSteps DEF Sigaction, InMain, fs
  <2> QED
    BY <1>1, <1>2, <2>1, GotoIInv
<1>4. CASE Write
  <2>1. CASE /\ Goto("pause")
             /\ UNCHANGED <<fs, fd, outcome, moved, alone>>
    <3>1. /\ mpc = "write" /\ mpc' = "pause"
          /\ UNCHANGED <<entry, file, told, runs, sig, sent, hpc, fd, lost, outcome, moved, alone>>
      BY <1>4, <2>1 DEF Write, InMain, Goto, fs
    <3> QED
      BY <1>1, <1>2, <3>1, GotoIInv
  <2>2. CASE EndAs("exit 1")
    BY <2>2, EndAsIInv
  <2> QED
    BY <1>4, <2>1, <2>2 DEF Write
<1>5. CASE WriteFailed
  BY <1>5, EndAsIInv DEF WriteFailed
<1>6. CASE Pause
  <2>1. /\ \/ mpc = "pause" /\ mpc' = "pausing"
           \/ mpc = "pause again" /\ mpc' = "pausing again"
        /\ UNCHANGED <<entry, file, told, runs, sig, sent, hpc, fd, lost, outcome, moved, alone>>
    BY <1>6 DEF Pause, InMain, Goto, fs
  <2> QED
    BY <1>1, <1>2, <2>1, GotoIInv
<1>7. CASE Exit
  BY <1>7, EndAsIInv DEF Exit, InMain
<1>8. CASE SigHandler
  <2>1. /\ hpc' = "none" /\ sig' \in Sigs
        /\ UNCHANGED <<entry, file, told, runs, sent, mpc, fd, lost, outcome, moved, alone>>
    BY <1>1, <1>8, SignalSteps DEF SigHandler, fs
  <2> QED
    BY <1>1, <2>1, GotoIInv
<1>9. CASE Send
  <2>1. /\ sent < MaxSent /\ sent' = sent + 1 /\ sig' \in Sigs
        /\ lost' = IF sig' = sig THEN lost + 1 ELSE lost
        /\ UNCHANGED <<entry, file, told, runs, mpc, hpc, fd, outcome, moved, alone>>
    BY <1>1, <1>9, SignalSteps DEF Send, fs
  <2>2. sent' \in 0 .. MaxSent /\ lost' \in Nat
    BY <1>1, <2>1
  <2> QED
    BY <1>1, <2>1, <2>2, GotoIInv
<1> QED
  BY <1>3, <1>4, <1>5, <1>6, <1>7, <1>8, <1>9

\* Every step, or none, keeps the invariant.
LEMMA NextIInv ==
  ASSUME MaxRuns \in Nat, MaxSent \in Nat, IInv, [Next]_vars
  PROVE  IInv'
<1>1. CASE ProcStep
  BY <1>1, ProcIInv, OpenFileIInv, UnlinkIInv, DeliverIInv DEF ProcStep
<1>2. CASE Run
  <2>1. runs < MaxRuns
    BY <1>2 DEF Run
  <2> PICK m \in Names, n \in Names :
        \/ m # n /\ (Rename(m, n) \/ RenameAt(m, n))
        \/ m # n /\ (Link(m, n) \/ \E follow \in BOOLEAN : LinkAt(m, n, follow))
        \/ m # n /\ MakeSymlink(m, n)
        \/ m = n /\ Chmod(n)
    BY <1>2 DEF Run
  <2>2. CASE Rename(m, n) \/ RenameAt(m, n)
    BY <2>1, <2>2, RenameIInv DEF RenameAt
  <2>3. CASE Link(m, n) \/ \E follow \in BOOLEAN : LinkAt(m, n, follow)
    <3>1. Target(m) \in Names \cup {""} /\ m \in Names \cup {""}
      BY AsTyped, TargetIs DEF IInv
    <3>2. NewName(m, n) \/ NewName(Target(m), n)
      BY <2>3 DEF Link, LinkAt
    <3> QED
      BY <2>1, <3>1, <3>2, NewNameIInv
  <2>4. CASE MakeSymlink(m, n)
    BY <2>1, <2>4, MakeSymlinkIInv
  <2>5. CASE Chmod(n)
    BY <2>1, <2>5, ChmodIInv
  <2> QED
    BY <2>2, <2>3, <2>4, <2>5
<1>3. CASE Send
  BY <1>3, ProcIInv
<1>4. CASE UNCHANGED vars
  <2>1. UNCHANGED <<entry, file, told, runs, sig, sent, mpc, hpc, fd, lost, outcome, moved, alone>>
    BY <1>4 DEF vars, fs, proc
  <2>2. /\ lost \in Nat /\ hpc \in {"none", "psignal"} /\ sent \in 0 .. MaxSent
        /\ mpc \in Places /\ sig \in Sigs
    BY DEF IInv, TypeOK, Sigs
  <2> QED
    BY <2>1, <2>2, GotoIInv
<1> QED
  BY <1>1, <1>2, <1>3, <1>4 DEF Next, Terminated

---------------------------------------------------------------------------
\* What the programs print.
LEMMA ModesAsListed == ASSUME IInv PROVE ModesTold
<1> SUFFICES ASSUME NEW n \in Names, Stat(n).kind # "free"
             PROVE  /\ entry[Target(n)] \in told =>
                         Tail(Listing(n)) = <<"r", "w", "x", "r", "-", "-", "r", "-", "-">>
                    /\ Access(n, "r") = (Listing(n)[2] = "r")
                    /\ Access(n, "w") = (Listing(n)[3] = "w")
                    /\ Access(n, "x") = (Listing(n)[4] \in {"x", "s"})
                    /\ FileType(n) \in {TypeWord(Stat(n).kind), "symbolic link"}
  BY DEF ModesTold
<1> DEFINE end == Target(n)
           mode == Stat(n).mode
<1>1. /\ end \in Names /\ Stat(n) = file[entry[end]]
      /\ ~IsLink(n) => end = n
  <2>1. Free.kind = "free"
    BY DEF Free
  <2> QED
    BY <2>1, AsTyped, TargetIs DEF Stat, IInv
<1>2. entry[end] \in told => mode = ACCMODE
  BY <1>1 DEF IInv, ToldModes
<1>3. FileType(n) \in {TypeWord(Stat(n).kind), "symbolic link"}
  <2>1. CASE IsLink(n)
    BY <2>1 DEF IsLink, FileType, TypeWord
  <2>2. CASE ~IsLink(n)
    BY <1>1, <2>2 DEF FileType
  <2> QED
    BY <2>1, <2>2
<1> HIDE DEF end
<1>4. /\ Listing(n)[2] = Letter(mode, "ur", "r") /\ Listing(n)[3] = Letter(mode, "uw", "w")
      /\ Listing(n)[4] = UserExecute(mode)
      /\ Tail(Listing(n)) =
           << Letter(mode, "ur", "r"), Letter(mode, "uw", "w"), UserExecute(mode),
              Letter(mode, "gr", "r"), Letter(mode, "gw", "w"), GroupExecute(mode),
              Letter(mode, "or", "r"), Letter(mode, "ow", "w"), OtherExecute(mode) >>
  BY DEF Listing, Listed
<1>5. /\ Access(n, "r") <=> "ur" \in mode
      /\ Access(n, "w") <=> "uw" \in mode
      /\ Access(n, "x") <=> "ux" \in mode
  BY DEF Access, AccessBit
<1> HIDE DEF mode
<1>6. /\ Access(n, "r") = (Listing(n)[2] = "r")
      /\ Access(n, "w") = (Listing(n)[3] = "w")
      /\ Access(n, "x") = (Listing(n)[4] \in {"x", "s"})
  <2>1. UserExecute(mode) \in {"x", "s"} <=> "ux" \in mode
    BY DEF UserExecute, Execute
  <2> QED
    BY <1>4, <1>5, <2>1 DEF Letter, Access
<1>7. entry[end] \in told =>
        Tail(Listing(n)) = <<"r", "w", "x", "r", "-", "-", "r", "-", "-">>
  <2> SUFFICES ASSUME mode = ACCMODE
               PROVE  Tail(Listing(n)) = <<"r", "w", "x", "r", "-", "-", "r", "-", "-">>
    BY <1>2
  <2>1. /\ Letter(mode, "ur", "r") = "r" /\ Letter(mode, "uw", "w") = "w"
        /\ Letter(mode, "gr", "r") = "r" /\ Letter(mode, "gw", "w") = "-"
        /\ Letter(mode, "or", "r") = "r" /\ Letter(mode, "ow", "w") = "-"
    BY DEF Letter, ACCMODE
  <2>2. /\ UserExecute(mode) = "x" /\ GroupExecute(mode) = "-" /\ OtherExecute(mode) = "-"
    BY DEF UserExecute, GroupExecute, OtherExecute, Execute, ACCMODE
  <2> QED
    BY <1>4, <2>1, <2>2
<1> QED
  BY <1>3, <1>6, <1>7 DEF end

---------------------------------------------------------------------------
\* The inductive invariant holds, for any number of runs and of signals.
THEOREM Inductive ==
  ASSUME MaxRuns \in Nat, MaxSent \in Nat
  PROVE  Spec => []IInv
<1>1. Init => IInv
  BY InitIInv
<1>2. IInv /\ [Next]_vars => IInv'
  BY NextIInv
<1> QED
  BY <1>1, <1>2, PTL DEF Spec

\* Every variable of the directory and of unlink.c has its type.
THEOREM TypeCorrect ==
  ASSUME MaxRuns \in Nat, MaxSent \in Nat
  PROVE  Spec => []TypeOK
<1>1. IInv => TypeOK
  BY DEF IInv
<1> QED
  BY <1>1, Inductive, PTL

\* unlink.c removes the file it has opened, unless "a" was a symbolic link or
\* has led to another file between the open and the unlink, whatever is renamed,
\* linked and signalled meanwhile (unlink.c:45, 64-65, rename.c, link.c,
\* symlink.c).
THEOREM Told ==
  ASSUME MaxRuns \in Nat, MaxSent \in Nat
  PROVE  Spec => []UnlinkTold
<1>1. IInv => UnlinkTold
  BY DEF IInv
<1> QED
  BY <1>1, Inductive, PTL

\* The file stays while it is open, with or without a name, and is gone at the
\* end if it never had a name but "a" (unlink.c:9-15, 62-71).
THEOREM Kept ==
  ASSUME MaxRuns \in Nat, MaxSent \in Nat
  PROVE  Spec => []KeptThenFreed
<1>1. IInv => KeptThenFreed
  BY DEF IInv
<1> QED
  BY <1>1, Inductive, PTL

\* chmod.c, access.c, file_stat.c and file_type.c agree on every name
\* (chmod.c:23, access.c, file_stat.c:43-94, file_type.c:26-42).
THEOREM Modes ==
  ASSUME MaxRuns \in Nat, MaxSent \in Nat
  PROVE  Spec => []ModesTold
<1>1. IInv => ModesTold
  BY ModesAsListed
<1> QED
  BY <1>1, Inductive, PTL
=============================================================================
