-------------------------- MODULE FileLocks_proofs --------------------------
(***************************************************************************)
(* Exclusive and VerdictRight of FileLocks, for any number of runs of      *)
(* record_lock.c beside one run of mandatory_lock.c.                       *)
(***************************************************************************)
EXTENDS FileLocks, TLAPS

\* Everybody has the file open.
LEMMA AreUsers == Parent \in Users /\ Child \in Users /\ \A p \in Runs : p \in Users
BY DEF Users

\* What setting a range does to the table.
LEMMA Table ==
  ASSUME locks \in LockTable(Users), NEW p \in Users,
         NEW type \in LockTypes \cup {"F_UNLCK"}, NEW range \in SUBSET Bytes
  PROVE  /\ SetRange(locks, p, type, range) \in LockTable(Users)
         /\ \A q \in Users, b \in Bytes :
              SetRange(locks, p, type, range)[q][b] =
                IF q = p /\ b \in range THEN type ELSE locks[q][b]
BY DEF LockTable, SetRange

\* fcntl gives a lock only if it leaves a table that excludes.
LEMMA GrantExcludes ==
  ASSUME locks \in LockTable(Users), NoConflict,
         NEW p \in Users, NEW type \in LockTypes, NEW range \in SUBSET Bytes,
         ~Conflict(locks, p, type, range),
         locks' = SetRange(locks, p, type, range)
  PROVE  NoConflict'
<1> DEFINE new == SetRange(locks, p, type, range)
<1>1. \A q \in Users, b \in Bytes :
        new[q][b] = IF q = p /\ b \in range THEN type ELSE locks[q][b]
  BY Table DEF LockTypes
<1>2. DOMAIN locks = Users
  BY DEF LockTable
<1>3. \A q \in Users \ {p}, b \in range :
        /\ locks[q][b] # "F_WRLCK"
        /\ type = "F_WRLCK" => locks[q][b] # "F_RDLCK"
  BY <1>2 DEF Conflict
<1>4. \A q \in Users, b \in Bytes : locks[q][b] \in LockTypes \cup {"F_UNLCK"}
  BY DEF LockTable
<1> HIDE DEF new
<1>5. SUFFICES ASSUME NEW q \in Users, NEW r \in Users, NEW b \in Bytes,
                      new[q][b] = "F_WRLCK", q # r
               PROVE  new[r][b] = "F_UNLCK"
  BY DEF NoConflict, new
<1>6. CASE q = p /\ b \in range
  BY <1>1, <1>3, <1>4, <1>5, <1>6 DEF LockTypes
<1>7. CASE r = p /\ b \in range
  BY <1>1, <1>3, <1>4, <1>5, <1>7 DEF LockTypes
<1>8. CASE ~(q = p /\ b \in range) /\ ~(r = p /\ b \in range)
  BY <1>1, <1>5, <1>8 DEF NoConflict
<1> QED
  BY <1>6, <1>7, <1>8

\* To unlock a range leaves a table that excludes.
LEMMA UnlockExcludes ==
  ASSUME locks \in LockTable(Users), NoConflict,
         NEW p \in Users, NEW range \in SUBSET Bytes,
         locks' = SetRange(locks, p, "F_UNLCK", range)
  PROVE  NoConflict'
<1>1. \A q \in Users, b \in Bytes :
        locks'[q][b] = IF q = p /\ b \in range THEN "F_UNLCK" ELSE locks[q][b]
  BY Table
<1> QED
  BY <1>1 DEF NoConflict

---------------------------------------------------------------------------
\* The two modules and this one use the same operators on the table.
LEMMA SameTable ==
  /\ R!LockTypes = LockTypes /\ M!LockTypes = LockTypes
  /\ R!Bytes = Bytes /\ M!Bytes = Bytes /\ R!FirstByte = FirstByte
  /\ M!WholeFile = WholeFile
  /\ R!LockTable(Users) = LockTable(Users) /\ M!LockTable(Users) = LockTable(Users)
  /\ R!NoLocks(Users) = NoLocks(Users)
  /\ \A p, type, range :
       /\ R!SetRange(locks, p, type, range) = SetRange(locks, p, type, range)
       /\ M!SetRange(locks, p, type, range) = SetRange(locks, p, type, range)
       /\ R!Conflict(locks, p, type, range) <=> Conflict(locks, p, type, range)
       /\ M!Conflict(locks, p, type, range) <=> Conflict(locks, p, type, range)
       /\ R!Drop(locks, p) = SetRange(locks, p, "F_UNLCK", Bytes)
       /\ M!Drop(locks, p) = SetRange(locks, p, "F_UNLCK", Bytes)
BY DEF R!LockTypes, M!LockTypes, R!Bytes, M!Bytes, R!FirstByte, M!WholeFile,
       R!LockTable, M!LockTable, R!NoLocks, R!SetRange, M!SetRange, R!Conflict,
       M!Conflict, R!Drop, M!Drop, LockTypes, Bytes, FirstByte, WholeFile,
       LockTable, NoLocks, SetRange, Conflict

\* Init establishes the invariant.
LEMMA InitIInv == Init => IInv
<1> SUFFICES ASSUME Init PROVE IInv
  OBVIOUS
<1>1. locks \in LockTable(Users) /\ NoConflict
  BY DEF Init, NoLocks, LockTable, NoConflict
<1>2. TypeOK
  BY <1>1, SameTable DEF Init, R!InitRuns, M!InitPair, TypeOK, R!TypeOK, M!TypeOK,
     R!Pcs, M!ParentPcs, M!ChildPcs, M!Verdicts
<1> QED
  BY <1>1, <1>2 DEF Init, R!InitRuns, M!InitPair, IInv, RunsHold, R!Holding,
     ParentHolds, M!ParentHolds, Steps, BeforeFork, ParentStays, Told,
     VerdictRight, M!VerdictRight

\* One run of record_lock takes one step, or is killed.
LEMMA RecordIInv ==
  ASSUME IInv, NEW p \in Runs, R!Step(p) \/ R!SetLkwFails(p) \/ R!Kill(p),
         UNCHANGED pair
  PROVE  IInv'
<1>1. /\ locks \in LockTable(Users) /\ arg \in [Runs -> LockTypes \cup {"usage"}]
      /\ pc \in [Runs -> R!Pcs] /\ refused \subseteq Runs
      /\ said \in [Runs -> {"nothing", "get", "release"}] /\ killed \subseteq Runs
  BY SameTable DEF IInv, TypeOK, R!TypeOK
\* What the step does to the table.
<1>2. \/ locks' = locks
      \/ /\ pc[p] = "setlkw" /\ pc'[p] = "print get"
         /\ ~Conflict(locks, p, arg[p], FirstByte)
         /\ locks' = SetRange(locks, p, arg[p], FirstByte)
      \/ /\ pc'[p] \notin {"setlkw", "print get", "sleep", "setlk"}
         /\ \E range \in SUBSET Bytes : locks' = SetRange(locks, p, "F_UNLCK", range)
  <2>1. CASE R!Open(p) \/ R!SetLkwFails(p) \/ R!PrintGet(p) \/ R!Wake(p) \/ R!PrintRelease(p)
    BY <2>1 DEF R!Goto, R!Open, R!SetLkwFails, R!PrintGet, R!Wake, R!PrintRelease
  <2>2. CASE R!SetLkw(p)
    BY <1>1, <2>2 DEF R!Goto, R!SetLkw, R!SetRange, R!Conflict, R!FirstByte, R!Bytes,
       SetRange, Conflict, FirstByte, Bytes
  <2>3. CASE R!Unlock(p)
    BY <1>1, <2>3 DEF R!Goto, R!Unlock, R!SetRange, R!Bytes, SetRange, Bytes
  <2>4. CASE R!Return(p) \/ R!Kill(p)
    BY <1>1, <2>4 DEF R!Goto, R!Return, R!Kill, R!Drop, R!SetRange, R!Bytes, SetRange, Bytes
  <2> QED
    BY <2>1, <2>2, <2>3, <2>4 DEF R!Step
<1>3. pc[p] = "setlkw" => arg[p] \in LockTypes
  BY DEF IInv, RunsHold
<1>4. /\ locks' \in LockTable(Users) /\ NoConflict'
      /\ \A q \in Users \ {p}, b \in Bytes : locks'[q][b] = locks[q][b]
  <2>1. CASE locks' = locks
    <3>1. NoConflict
      BY DEF IInv
    <3> QED
      BY <1>1, <2>1, <3>1 DEF NoConflict
  <2>2. CASE /\ pc[p] = "setlkw" /\ ~Conflict(locks, p, arg[p], FirstByte)
             /\ locks' = SetRange(locks, p, arg[p], FirstByte)
    <3>1. FirstByte \in SUBSET Bytes /\ NoConflict /\ p \in Users
      BY AreUsers DEF FirstByte, Bytes, IInv
    <3>2. arg[p] \in LockTypes /\ arg[p] \in LockTypes \cup {"F_UNLCK"}
      BY <1>3, <2>2
    <3>3. NoConflict'
      BY <1>1, <2>2, <3>1, <3>2, GrantExcludes
    <3>4. /\ locks' \in LockTable(Users)
          /\ \A q \in Users, b \in Bytes :
               locks'[q][b] = IF q = p /\ b \in FirstByte THEN arg[p] ELSE locks[q][b]
      BY <1>1, <2>2, <3>1, <3>2, Table
    <3> QED
      BY <3>3, <3>4
  <2>3. CASE \E range \in SUBSET Bytes : locks' = SetRange(locks, p, "F_UNLCK", range)
    <3>1. PICK range \in SUBSET Bytes : locks' = SetRange(locks, p, "F_UNLCK", range)
      BY <2>3
    <3>2. NoConflict /\ p \in Users
      BY AreUsers DEF IInv
    <3>3. NoConflict'
      BY <1>1, <3>1, <3>2, UnlockExcludes
    <3>4. /\ locks' \in LockTable(Users)
          /\ \A q \in Users, b \in Bytes :
               locks'[q][b] = IF q = p /\ b \in range THEN "F_UNLCK" ELSE locks[q][b]
      BY <1>1, <3>1, <3>2, Table
    <3> QED
      BY <3>3, <3>4
  <2> QED
    BY <1>2, <2>1, <2>2, <2>3
<1>5. TypeOK'
  <2>1. R!TypeOK'
    <3>1. CASE R!Open(p) \/ R!PrintGet(p) \/ R!Wake(p) \/ R!PrintRelease(p)
      BY <1>1, <1>4, <3>1, SameTable
         DEF R!Goto, R!Pcs, R!Open, R!PrintGet, R!Wake, R!PrintRelease, R!TypeOK
    <3>2. CASE R!SetLkw(p) \/ R!SetLkwFails(p) \/ R!Unlock(p) \/ R!Return(p) \/ R!Kill(p)
      BY <1>1, <1>4, <3>2, SameTable
         DEF R!Goto, R!Pcs, R!SetLkw, R!SetLkwFails, R!Unlock, R!Return, R!Kill, R!TypeOK
    <3> QED
      BY <3>1, <3>2 DEF R!Step
  <2>2. M!TypeOK'
    BY <1>4, SameTable DEF IInv, TypeOK, M!TypeOK, pair
  <2> QED
    BY <2>1, <2>2 DEF TypeOK
<1>6. /\ \A q \in Runs \ {p} : pc'[q] = pc[q]
      /\ arg' = arg /\ refused \subseteq refused' /\ refused' \subseteq refused \cup {p}
  BY <1>1 DEF R!Goto, R!Step, R!Open, R!SetLkw, R!SetLkwFails, R!PrintGet, R!Wake,
              R!Unlock, R!PrintRelease, R!Return, R!Kill
<1>7. RunsHold'
  <2>1. ASSUME NEW q \in Runs \ {p}
        PROVE  /\ pc'[q] = "setlkw" \/ R!Holding(q)' => arg'[q] \in LockTypes
               /\ R!Holding(q)' /\ q \notin refused' => locks'[q][0] = arg'[q]
    BY <1>4, <1>6, AreUsers DEF IInv, RunsHold, R!Holding, Bytes
  <2>2. /\ pc'[p] = "setlkw" \/ R!Holding(p)' => arg'[p] \in LockTypes
        /\ R!Holding(p)' /\ p \notin refused' => locks'[p][0] = arg'[p]
    <3>1. CASE R!Open(p) \/ R!PrintRelease(p) \/ R!Unlock(p) \/ R!Return(p) \/ R!Kill(p)
      BY <1>1, <3>1, SameTable
         DEF R!Goto, R!Open, R!PrintRelease, R!Unlock, R!Return, R!Kill, R!Holding
    <3>2. CASE R!PrintGet(p) \/ R!Wake(p)
      BY <1>1, <3>2 DEF R!Goto, R!PrintGet, R!Wake, R!Holding, IInv, RunsHold
    <3>3. CASE R!SetLkw(p)
      <4>1. /\ p \in Users /\ arg[p] \in LockTypes
            /\ arg[p] \in LockTypes \cup {"F_UNLCK"}
            /\ 0 \in FirstByte /\ FirstByte \in SUBSET Bytes
        BY <1>3, AreUsers, <3>3 DEF R!Goto, R!SetLkw, FirstByte, Bytes
      <4>2. \A q \in Users, b \in Bytes :
              SetRange(locks, p, arg[p], FirstByte)[q][b] =
                IF q = p /\ b \in FirstByte THEN arg[p] ELSE locks[q][b]
        BY <1>1, <4>1, Table
      <4>3. SetRange(locks, p, arg[p], FirstByte)[p][0] = arg[p]
        BY <4>1, <4>2 DEF Bytes
      <4>4. locks' = SetRange(locks, p, arg[p], FirstByte)
        BY <1>1, <3>3 DEF R!Goto, R!SetLkw, R!SetRange, R!FirstByte, R!Bytes, SetRange,
           FirstByte, Bytes
      <4> QED
        BY <1>6, <4>1, <4>3, <4>4
    <3>4. CASE R!SetLkwFails(p)
      BY <1>1, <1>3, <3>4 DEF R!Goto, R!SetLkwFails
    <3> QED
      BY <3>1, <3>2, <3>3, <3>4 DEF R!Step
  <2> QED
    BY <2>1, <2>2 DEF RunsHold
<1>8. ParentHolds'
  BY <1>4, AreUsers, UsersAssumption DEF IInv, pair, ParentHolds, M!ParentHolds
<1>9. Steps' /\ ParentStays' /\ VerdictRight'
  BY DEF IInv, pair, Steps, BeforeFork, Told, ParentStays, VerdictRight,
         M!VerdictRight
<1> QED
  BY <1>4, <1>5, <1>7, <1>8, <1>9 DEF IInv

---------------------------------------------------------------------------
\* While its child waits, somebody can write into the pipe: the child itself.
LEMMA ChildWrites == cpc = "wait" => M!Writers # {}
<1>1. cpc = "wait" => Child \in M!Writers
  BY UsersAssumption DEF M!Writers
<1> QED
  BY <1>1

\* A read lock on the file is refused to the child while the parent has its own.
LEMMA ChildRefused ==
  ASSUME locks \in LockTable(Users), ParentHolds, M!ParentHolds
  PROVE  M!Conflict(locks, Child, "F_RDLCK", M!WholeFile)
<1>1. Parent \in DOMAIN locks \ {Child} /\ locks[Parent][0] = "F_WRLCK"
  BY AreUsers, UsersAssumption DEF LockTable, ParentHolds, Bytes
<1> QED
  BY <1>1 DEF M!Conflict, M!WholeFile, M!Bytes

\* One of mandatory_lock's processes takes one step, or is killed.
LEMMA PairIInv ==
  ASSUME IInv, M!Next, UNCHANGED record
  PROVE  IInv'
<1>1. /\ locks \in LockTable(Users)
      /\ ppc \in M!ParentPcs /\ cpc \in M!ChildPcs /\ pipe \in {0, 1}
  BY SameTable DEF IInv, TypeOK, M!TypeOK
<1>2. Parent \in Users /\ Bytes \in SUBSET Bytes /\ WholeFile = Bytes
  BY AreUsers DEF WholeFile
\* What the step does to the table.
<1>3. \/ locks' = locks /\ ppc' = ppc
      \/ locks' = locks /\ ~M!ParentHolds /\ ~M!ParentHolds'
      \/ locks' = locks /\ ppc = "tell" /\ ppc' = "waitpid"
      \/ /\ ppc = "setlk" /\ ppc' = "tell"
         /\ ~Conflict(locks, Parent, "F_WRLCK", Bytes)
         /\ locks' = SetRange(locks, Parent, "F_WRLCK", Bytes)
      \/ ppc' = "ended" /\ locks' = SetRange(locks, Parent, "F_UNLCK", Bytes)
  <2>1. CASE M!Prepare \/ M!Fchmod \/ M!Fork
    BY <2>1 DEF M!Prepare, M!Fchmod, M!Fork, M!GotoParent, M!ParentHolds
  <2>2. CASE M!Lock
    BY <2>2 DEF M!Lock, M!GotoParent, M!EndParent, M!Drop, M!SetRange, M!Conflict,
       M!WholeFile, M!Bytes, SetRange, Conflict, Bytes
  <2>3. CASE M!TellChild
    BY <2>3 DEF M!TellChild, M!GotoParent
  <2>4. CASE M!Waitpid \/ M!KillParent
    BY <2>4 DEF M!Waitpid, M!KillParent, M!EndParent, M!Drop, M!SetRange, M!Bytes,
       SetRange, Bytes
  <2>5. CASE M!ChildStep \/ M!KillChild
    BY <2>5 DEF M!ChildStep, M!WaitParent, M!SetNonblock, M!TryLock, M!Read, M!KillChild
  <2> QED
    BY <2>1, <2>2, <2>3, <2>4, <2>5 DEF M!Next, M!ParentStep
<1>4. /\ locks' \in LockTable(Users) /\ NoConflict' /\ ParentHolds'
      /\ \A q \in Users \ {Parent}, b \in Bytes : locks'[q][b] = locks[q][b]
  <2>1. NoConflict /\ ParentHolds
    BY DEF IInv
  <2>2. CASE /\ locks' = locks
             /\ \/ ppc' = ppc
                \/ ~M!ParentHolds /\ ~M!ParentHolds'
                \/ ppc = "tell" /\ ppc' = "waitpid"
    <3>1. NoConflict'
      BY <2>1, <2>2 DEF NoConflict
    <3>2. ParentHolds'
      BY <2>1, <2>2 DEF ParentHolds, M!ParentHolds
    <3> QED
      BY <1>1, <2>2, <3>1, <3>2
  <2>3. CASE /\ ~Conflict(locks, Parent, "F_WRLCK", Bytes)
             /\ locks' = SetRange(locks, Parent, "F_WRLCK", Bytes)
    <3>1. "F_WRLCK" \in LockTypes /\ "F_WRLCK" \in LockTypes \cup {"F_UNLCK"}
      BY DEF LockTypes
    <3>2. NoConflict'
      BY <1>1, <1>2, <2>1, <2>3, <3>1, GrantExcludes
    <3>3. /\ locks' \in LockTable(Users)
          /\ \A q \in Users, b \in Bytes :
               locks'[q][b] = IF q = Parent /\ b \in Bytes THEN "F_WRLCK" ELSE locks[q][b]
      BY <1>1, <1>2, <2>3, <3>1, Table
    <3> QED
      BY <1>2, <3>2, <3>3 DEF ParentHolds
  <2>4. CASE ppc' = "ended" /\ locks' = SetRange(locks, Parent, "F_UNLCK", Bytes)
    <3>1. NoConflict'
      BY <1>1, <1>2, <2>1, <2>4, UnlockExcludes
    <3>2. /\ locks' \in LockTable(Users)
          /\ \A q \in Users, b \in Bytes :
               locks'[q][b] = IF q = Parent /\ b \in Bytes THEN "F_UNLCK" ELSE locks[q][b]
      BY <1>1, <1>2, <2>4, Table
    <3> QED
      BY <2>4, <3>1, <3>2 DEF ParentHolds, M!ParentHolds
  <2> QED
    BY <1>3, <2>2, <2>3, <2>4
<1>5. RunsHold'
  <2>1. \A q \in Runs : locks'[q][0] = locks[q][0]
    BY <1>4, AreUsers, UsersAssumption DEF Bytes
  <2> QED
    BY <2>1 DEF IInv, record, RunsHold, R!Holding
<1>6. TypeOK'
  <2>1. R!TypeOK'
    BY <1>4, SameTable DEF IInv, TypeOK, R!TypeOK, record
  <2>2. /\ mandatory \in BOOLEAN /\ sgid \in BOOLEAN /\ verdict \in M!Verdicts
        /\ dead \subseteq {Parent, Child} /\ Steps
    BY DEF IInv, TypeOK, M!TypeOK
  <2>3. ppc' \in M!ParentPcs /\ cpc' \in M!ChildPcs /\ dead' \subseteq {Parent, Child}
    BY <1>1, <2>2
       DEF M!Next, M!ParentStep, M!Prepare, M!Fchmod, M!Fork, M!Lock, M!TellChild,
           M!Waitpid, M!KillParent, M!ChildStep, M!WaitParent, M!SetNonblock,
           M!TryLock, M!Read, M!KillChild, M!GotoParent, M!EndParent, M!GotoChild,
           M!ParentPcs, M!ChildPcs
  <2>4. /\ mandatory' = mandatory /\ (sgid' = sgid \/ sgid' = TRUE)
        /\ verdict' \in M!Verdicts
    BY <2>2
       DEF M!Next, M!ParentStep, M!Prepare, M!Fchmod, M!Fork, M!Lock, M!TellChild,
           M!Waitpid, M!KillParent, M!ChildStep, M!WaitParent, M!SetNonblock,
           M!TryLock, M!Read, M!KillChild, M!Verdicts
  <2>5. pipe' \in {0, 1}
    <3>1. CASE M!TellChild
      <4>1. pipe = 0
        BY <2>2, <3>1 DEF M!TellChild, M!GotoParent, Steps
      <4> QED
        BY <3>1, <4>1 DEF M!TellChild
    <3>2. CASE M!WaitParent
      <4>1. pipe \in {0, 1}
        BY <1>1
      <4>2. IF pipe > 0 THEN pipe' = pipe - 1 ELSE pipe' = pipe
        BY <3>2 DEF M!WaitParent
      <4> QED
        BY <4>1, <4>2
    <3>3. CASE UNCHANGED pipe
      BY <1>1, <3>3
    <3> QED
      BY <3>1, <3>2, <3>3
         DEF M!Next, M!ParentStep, M!Prepare, M!Fchmod, M!Fork, M!Lock, M!Waitpid,
             M!KillParent, M!ChildStep, M!SetNonblock, M!TryLock, M!Read, M!KillChild
  <2>6. M!TypeOK'
    BY <1>4, <2>2, <2>3, <2>4, <2>5, SameTable DEF M!TypeOK
  <2> QED
    BY <2>1, <2>6 DEF TypeOK
<1>7. Steps'
  <2>1. Steps
    BY DEF IInv
  <2>2. CASE M!Prepare \/ M!Fchmod \/ M!Fork \/ M!Lock
    BY <1>1, <2>1, <2>2
       DEF M!Prepare, M!Fchmod, M!Fork, M!Lock, M!GotoParent, M!EndParent,
           M!ParentPcs, Steps, BeforeFork
  <2>3. CASE M!TellChild \/ M!Waitpid \/ M!KillParent
    BY <1>1, <2>1, <2>3
       DEF M!TellChild, M!Waitpid, M!KillParent, M!GotoParent, M!EndParent,
           M!ParentPcs, Steps, BeforeFork
  <2>4. CASE M!WaitParent
    <3>1. cpc = "wait"
      BY <2>4 DEF M!WaitParent, M!GotoChild
    <3>2. pipe > 0
      BY <2>4, <3>1, ChildWrites DEF M!WaitParent
    <3>3. ~BeforeFork /\ ppc \notin {"setlk", "tell"}
      BY <2>1, <3>2 DEF Steps
    <3> QED
      BY <2>1, <2>4, <3>3 DEF M!WaitParent, Steps, BeforeFork
  <2>5. CASE M!SetNonblock \/ M!TryLock \/ M!Read \/ M!KillChild
    BY <1>1, <2>1, <2>5
       DEF M!SetNonblock, M!TryLock, M!Read, M!KillChild, M!GotoChild, Steps,
           BeforeFork
  <2> QED
    BY <2>2, <2>3, <2>4, <2>5 DEF M!Next, M!ParentStep, M!ChildStep
<1>8. ParentStays'
  <2>1. Steps /\ ParentStays
    BY DEF IInv
  <2>2. CASE M!Prepare \/ M!Fchmod \/ M!Fork \/ M!Lock
    BY <1>1, <2>1, <2>2
       DEF M!Prepare, M!Fchmod, M!Fork, M!Lock, M!GotoParent, M!EndParent,
           Steps, BeforeFork, ParentStays, Told
  <2>3. CASE M!TellChild \/ M!Waitpid \/ M!KillParent
    BY <1>1, <2>1, <2>3
       DEF M!TellChild, M!Waitpid, M!KillParent, M!GotoParent, M!EndParent,
           ParentStays, Told
  <2>4. CASE M!WaitParent
    BY <1>1, <2>1, <2>4 DEF M!WaitParent, M!GotoChild, ParentStays, Told
  <2>5. CASE M!SetNonblock \/ M!TryLock \/ M!Read \/ M!KillChild
    BY <1>1, <2>1, <2>5
       DEF M!SetNonblock, M!TryLock, M!Read, M!KillChild, M!GotoChild,
           ParentStays, Told
  <2> QED
    BY <2>2, <2>3, <2>4, <2>5 DEF M!Next, M!ParentStep, M!ChildStep
<1>9. VerdictRight'
  <2>1. SUFFICES ASSUME Parent \notin dead' PROVE VerdictRight'
    BY DEF VerdictRight, M!VerdictRight
  <2>2. Parent \notin dead /\ mandatory' = mandatory
    BY <2>1
       DEF M!Next, M!ParentStep, M!ChildStep, M!Prepare, M!Fchmod, M!Fork, M!Lock,
           M!TellChild, M!Waitpid, M!WaitParent, M!SetNonblock, M!TryLock, M!Read,
           M!KillParent, M!KillChild
  <2>3. VerdictRight /\ Steps /\ ParentStays /\ ParentHolds
    BY DEF IInv
  <2>4. CASE verdict' = verdict
    BY <2>2, <2>3, <2>4 DEF VerdictRight, M!VerdictRight
  <2>5. CASE verdict' = "parent error"
    BY <2>5 DEF VerdictRight, M!VerdictRight
  \* The child was told, and the parent has its lock.
  <2>6. ASSUME cpc \in {"setlk", "read"}
        PROVE  sgid /\ M!Conflict(locks, Child, "F_RDLCK", M!WholeFile)
    <3>1. ppc = "waitpid"
      BY <2>2, <2>3, <2>6 DEF ParentStays, Told
    <3>2. M!ParentHolds
      BY <3>1 DEF M!ParentHolds
    <3>3. sgid
      BY <2>3, <3>1 DEF Steps
    <3> QED
      BY <1>1, <2>3, <3>2, <3>3, ChildRefused
  <2>7. CASE M!TryLock
    BY <2>4, <2>6, <2>7 DEF M!TryLock, M!GotoChild
  <2>8. CASE M!Read
    <3>1. M!ReadRefused <=> mandatory
      BY <2>6, <2>8 DEF M!Read, M!GotoChild, M!ReadRefused
    <3>2. verdict' = IF mandatory THEN "mandatory" ELSE "advisory"
      BY <2>8, <3>1 DEF M!Read
    <3> QED
      BY <2>2, <3>2 DEF VerdictRight, M!VerdictRight
  <2>9. CASE M!WaitParent
    BY <2>4, <2>5, <2>9 DEF M!WaitParent
  <2>10. CASE M!ParentStep \/ M!SetNonblock \/ M!KillParent \/ M!KillChild
    BY <2>4, <2>10
       DEF M!ParentStep, M!Prepare, M!Fchmod, M!Fork, M!Lock, M!TellChild,
           M!Waitpid, M!SetNonblock, M!KillParent, M!KillChild
  <2> QED
    BY <2>7, <2>8, <2>9, <2>10 DEF M!Next, M!ChildStep
<1> QED
  BY <1>4, <1>5, <1>6, <1>7, <1>8, <1>9 DEF IInv

---------------------------------------------------------------------------
\* A step that changes nothing keeps the invariant.
LEMMA StutterIInv == IInv /\ UNCHANGED vars => IInv'
<1> SUFFICES ASSUME IInv, UNCHANGED vars PROVE IInv'
  OBVIOUS
<1>1. TypeOK'
  BY SameTable DEF IInv, TypeOK, R!TypeOK, M!TypeOK, vars, record, pair
<1>2. NoConflict' /\ ParentHolds' /\ RunsHold'
  BY DEF IInv, NoConflict, ParentHolds, M!ParentHolds, RunsHold, R!Holding, vars,
         record, pair
<1>3. Steps' /\ ParentStays' /\ VerdictRight'
  BY DEF IInv, Steps, BeforeFork, ParentStays, Told, VerdictRight, M!VerdictRight,
         vars, pair
<1> QED
  BY <1>1, <1>2, <1>3 DEF IInv

\* The invariant: the kernel's table excludes, those that believe to have a
\* lock have it, and the parent of mandatory_lock.c waits for a child that it
\* told (mandatory_lock.c:62-72, 84-106; record_lock.c:78-85).
THEOREM Inductive == Spec => []IInv
<1>1. IInv /\ [Next]_vars => IInv'
  <2> SUFFICES ASSUME IInv, [Next]_vars PROVE IInv'
    OBVIOUS
  <2>1. CASE RecordStep
    BY <2>1, RecordIInv DEF RecordStep, R!RunStep
  <2>2. CASE PairStep
    BY <2>2, PairIInv DEF PairStep
  <2>3. CASE Terminated \/ UNCHANGED vars
    BY <2>3, StutterIInv DEF Terminated
  <2> QED
    BY <2>1, <2>2, <2>3 DEF Next
<1> QED
  BY InitIInv, <1>1, PTL DEF Spec

\* Who has a write lock, as it believes, is alone with the file.
THEOREM Exclusion == Spec => []Exclusive
<1>1. IInv => Exclusive
  <2> SUFFICES ASSUME IInv, NEW p \in Users, NEW q \in Users, NEW type \in LockTypes,
                      Believes(p, "F_WRLCK"), Believes(q, type)
               PROVE  p = q
    BY DEF Exclusive
  <2>1. ASSUME NEW r \in Users, NEW t \in LockTypes, Believes(r, t)
        PROVE  locks[r][0] = t
    BY <2>1 DEF Believes, IInv, RunsHold, ParentHolds, Bytes
  <2>2. locks[p][0] = "F_WRLCK" /\ locks[q][0] = type
    BY <2>1 DEF LockTypes
  <2>3. type # "F_UNLCK"
    BY DEF LockTypes
  <2> QED
    BY <2>2, <2>3 DEF IInv, NoConflict, Bytes
<1> QED
  BY Inductive, <1>1, PTL

\* The child's verdict is right while nobody has killed the parent.
THEOREM Verdict == Spec => []VerdictRight
<1>1. IInv => VerdictRight
  BY DEF IInv
<1> QED
  BY Inductive, <1>1, PTL
=============================================================================
