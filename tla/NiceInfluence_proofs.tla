------------------------ MODULE NiceInfluence_proofs ------------------------
(***************************************************************************)
(* EndsOnTime and NiceShown of NiceInfluence, for a clock, an interval and *)
(* a counter of any size: those of the program are 1000000 ticks in a      *)
(* second, 10 seconds and a counter of 64 bits.                            *)
(***************************************************************************)
EXTENDS NiceInfluence, TLAPS

\* A time is its seconds and its microseconds.
LEMMA Parts ==
  ASSUME Sizes, NEW t \in Nat
  PROVE  /\ Sec(t) \in Nat /\ Usec(t) \in 0 .. Ticks - 1
         /\ Ticks * Sec(t) \in Nat
         /\ t = (Ticks * Sec(t)) + Usec(t)
<1>1. Sec(t) \in Nat /\ Usec(t) \in 0 .. Ticks - 1
  BY DEF Sizes, Sec, Usec
<1>2. t = (Ticks * Sec(t)) + Usec(t)
  BY DEF Sizes, Sec, Usec
<1>3. Ticks * Sec(t) \in Nat
  BY <1>1 DEF Sizes
<1> QED
  BY <1>1, <1>2, <1>3

\* More seconds are at least one whole second more.
LEMMA WholeSeconds ==
  ASSUME Sizes, NEW a \in Nat, NEW b \in Nat, a > b
  PROVE  Ticks * a >= (Ticks * b) + Ticks
BY DEF Sizes

\* A time that is not less in both parts is not earlier.
LEMMA NotEarlier ==
  ASSUME Sizes, NEW s \in Nat, NEW t \in Nat,
         Sec(s) >= Sec(t), Usec(s) >= Usec(t)
  PROVE  s >= t
<1> DEFINE a == Sec(s)
           b == Sec(t)
           x == Ticks * Sec(s)
           y == Ticks * Sec(t)
<1>1. /\ a \in Nat /\ b \in Nat /\ Usec(s) \in Nat /\ Usec(t) \in Nat
      /\ s = x + Usec(s) /\ t = y + Usec(t)
  BY Parts
<1>2. x \in Nat /\ y \in Nat /\ x >= y
  BY <1>1 DEF Sizes
<1> HIDE DEF x, y
<1> QED
  BY <1>1, <1>2

\* An earlier time has no more seconds.
LEMMA NoMoreSeconds ==
  ASSUME Sizes, NEW s \in Nat, NEW t \in Nat, s =< t
  PROVE  Sec(s) =< Sec(t)
<1> SUFFICES ASSUME Sec(s) > Sec(t) PROVE FALSE
  BY Parts
<1> DEFINE x == Ticks * Sec(s)
           y == Ticks * Sec(t)
<1>1. /\ x \in Nat /\ y \in Nat
      /\ Usec(s) \in Nat /\ Usec(t) \in 0 .. Ticks - 1
      /\ s = x + Usec(s) /\ t = y + Usec(t)
  BY Parts
<1>2. x >= y + Ticks
  BY Parts, WholeSeconds
<1> HIDE DEF x, y
<1> QED
  BY <1>1, <1>2 DEF Sizes

\* The clock moves on by one until the deadline, and stays a natural number.
LEMMA WrapLate ==
  ASSUME Sizes, deadline \in Nat, NEW t \in Nat
  PROVE  /\ Wrap(t) \in Nat
         /\ t =< deadline => Wrap(t) = t
<1>1. t =< deadline => Wrap(t) = t
  BY NoMoreSeconds, Parts DEF Wrap
<1>2. Sec(t) > Sec(deadline) + 1 => t - Ticks \in Nat
  <2> SUFFICES ASSUME Sec(t) > 0 PROVE t - Ticks \in Nat
    BY Parts
  <2>1. Ticks * Sec(t) >= (Ticks * 0) + Ticks
    BY Parts, WholeSeconds
  <2> DEFINE x == Ticks * Sec(t)
  <2>2. x \in Nat /\ t = x + Usec(t) /\ Usec(t) \in 0 .. Ticks - 1
    BY Parts
  <2>3. x >= Ticks
    BY <2>1 DEF Sizes
  <2> HIDE DEF x
  <2> QED
    BY <2>2, <2>3 DEF Sizes
<1> QED
  BY <1>1, <1>2 DEF Wrap

\* The kernel's range of nice values, and what it does with others.
LEMMA KernelRange == ASSUME NEW n \in -20 .. 19 PROVE n \in Int
OBVIOUS

LEMMA Clamped ==
  ASSUME NEW n \in Int
  PROVE  /\ Clamp(n) \in -20 .. 19
         /\ n \in -20 .. 19 => Clamp(n) = n
         /\ Clamp(Clamp(n)) = Clamp(n)
BY DEF Clamp

---------------------------------------------------------------------------
\* Init establishes the invariant.
LEMMA InitIInv == Sizes /\ Init => IInv
<1> SUFFICES ASSUME Sizes, Init PROVE IInv
  OBVIOUS
<1> PICK n \in Nices : nv = [p \in Procs |-> n] /\ shown = nv
  BY DEF Init
<1>1. n \in -20 .. 19 /\ 0 \in 0 .. CountMax
  BY DEF Sizes
<1>2. now \in Nat
  BY DEF Sizes, Init
<1>3. adj \in Int
  <2>1. CASE adj \in Adjs
    BY <2>1 DEF Sizes
  <2>2. CASE adj = 0
    BY <2>2
  <2> QED
    BY <2>1, <2>2 DEF Init
<1>5. pc \in [Procs -> NicePcs \cup SetPcs]
  BY DEF Init, NicePcs, SetPcs, Ends
<1>6. TypeOK
  <2>1. program \in {"nice_influence", "setpriority"}
    BY DEF Init
  <2>2. prompt \in BOOLEAN /\ root \in BOOLEAN
    BY DEF Init
  <2>3. /\ deadline \in Nat /\ fresh \subseteq Procs
        /\ count \in [Procs -> 0 .. CountMax]
        /\ exitAt \in [Procs -> Nat] 
    BY <1>1 DEF Init
  <2> QED
    BY <1>1, <1>2, <1>3, <1>5, <2>1, <2>2, <2>3 DEF TypeOK
<1>4. NiceShown /\ ChildShown
  BY <1>1, Clamped DEF Init, NiceShown, ChildShown, Procs
<1> QED
  BY <1>4, <1>6 DEF Init, IInv, InProgram, NicePcs, SetPcs, Ends, BeforeFork, OnSchedule,
     EndsOnTime, Procs

\* The deadline is set before anybody looks at the time.
LEMMA SetEndIInv == Sizes /\ IInv /\ SetEnd => IInv'
<1> SUFFICES ASSUME Sizes, IInv, SetEnd PROVE IInv'
  OBVIOUS
<1>1. Interval * Ticks \in Nat
  BY DEF Sizes
<1> DEFINE later == Interval * Ticks
<1>2. deadline' = now + later /\ later \in Nat
  BY <1>1 DEF SetEnd
<1> HIDE DEF later
<1>3. /\ program = "nice_influence" /\ pc["child"] = "none" /\ fresh = {}
      /\ pc["parent"] = "start"
  BY DEF IInv, TypeOK, InProgram, SetPcs, BeforeFork, SetEnd, Goto
<1>4. /\ pc' = [pc EXCEPT !["parent"] = "fork"]
      /\ UNCHANGED <<program, prompt, root, adj, now, count, fresh, exitAt, nv, shown>>
  BY DEF SetEnd, Goto
<1>5. TypeOK'
  <2>1. deadline' \in Nat
    BY <1>2 DEF IInv, TypeOK
  <2>2. pc' \in [Procs -> NicePcs \cup SetPcs]
    BY <1>4 DEF IInv, TypeOK, NicePcs
  <2> QED
    BY <1>4, <2>1, <2>2 DEF IInv, TypeOK
<1>6. InProgram' /\ BeforeFork' /\ EndsOnTime'
  BY <1>3, <1>4 DEF IInv, TypeOK, InProgram, NicePcs, Procs, BeforeFork, EndsOnTime
<1>7. OnSchedule'
  BY <1>2, <1>3, <1>4 DEF IInv, TypeOK, OnSchedule
<1>8. NiceShown' /\ ChildShown'
  BY <1>3, <1>4 DEF IInv, TypeOK, NiceShown, ChildShown, Asked, Reniced, Refused, Procs
<1> QED
  BY <1>5, <1>6, <1>7, <1>8 DEF IInv

\* A step of nice_influence in which only pc, count and the values shown change.
LEMMA CountingIInv ==
  ASSUME IInv, program = "nice_influence", InProgram', TypeOK', NiceShown',
         UNCHANGED <<program, prompt, now, deadline, fresh, exitAt>>,
         pc["parent"] # "start", pc'["parent"] \notin {"start", "fork"},
         \A p \in Procs : \/ pc'[p] = pc[p] \/ pc'[p] \in {"wrapped", "failed"}
                          \/ Running(p)
                          \/ pc["parent"] = "fork",
         \A p \in Procs : pc'[p] = "exited" => pc[p] = "exited"
  PROVE  IInv'
<1>1. OnSchedule'
  BY DEF IInv, OnSchedule, Running, Ends, BeforeFork, Procs
<1>2. EndsOnTime' /\ BeforeFork'
  BY DEF IInv, EndsOnTime, BeforeFork
<1>3. ChildShown'
  BY DEF NiceShown, ChildShown, Asked, Reniced, Procs
<1> QED
  BY <1>1, <1>2, <1>3 DEF IInv

LEMMA ForkIInv == Sizes /\ IInv /\ Fork => IInv'
<1> SUFFICES ASSUME Sizes, IInv, Fork PROVE IInv'
  OBVIOUS
<1>1. program = "nice_influence" /\ pc["parent"] = "fork" /\ fresh = {}
  BY DEF IInv, TypeOK, InProgram, SetPcs, BeforeFork, Fork
<1>2. /\ \/ pc' = [pc EXCEPT !["parent"] = "count", !["child"] = "nice"]
         \/ pc' = [pc EXCEPT !["parent"] = "failed"]
      /\ UNCHANGED <<program, prompt, root, adj, now, deadline, count, fresh,
                     exitAt, nv, shown>>
  BY DEF Fork, clock
<1>3. pc' \in [Procs -> NicePcs \cup SetPcs]
  BY <1>2 DEF IInv, TypeOK, NicePcs, SetPcs
<1>4. TypeOK'
  BY <1>2, <1>3 DEF IInv, TypeOK
<1>5. InProgram' /\ NiceShown'
  BY <1>1, <1>2 DEF IInv, TypeOK, InProgram, NicePcs, Ends, NiceShown, Asked, Reniced,
     Refused, Procs
<1> QED
  BY <1>1, <1>2, <1>4, <1>5, CountingIInv DEF IInv, TypeOK, Procs

LEMMA NiceIInv == Sizes /\ IInv /\ Nice => IInv'
<1> SUFFICES ASSUME Sizes, IInv, Nice PROVE IInv'
  OBVIOUS
<1>1. /\ pc["child"] = "nice" /\ program = "nice_influence"
      /\ pc["parent"] \notin {"start", "fork"}
  BY DEF IInv, TypeOK, InProgram, BeforeFork, Nice, Goto
<1>2. /\ pc' = [pc EXCEPT !["child"] = IF Refused THEN "failed" ELSE "count"]
      /\ UNCHANGED <<program, prompt, root, adj, now, deadline, count, fresh, exitAt>>
  BY DEF Nice, Goto, clock
<1>3. \/ Refused /\ UNCHANGED <<nv, shown>>
      \/ /\ ~Refused
         /\ nv' = [nv EXCEPT !["child"] = Clamp(nv["child"] + adj)]
         /\ shown' = [shown EXCEPT !["child"] = nv'["child"]]
  BY DEF Nice
<1>4. Clamp(nv["child"] + adj) \in -20 .. 19
  BY Clamped DEF IInv, TypeOK, Procs
<1> DEFINE new == Clamp(nv["child"] + adj)
<1> HIDE DEF new
<1>5. /\ nv' \in [Procs -> -20 .. 19] /\ shown' \in [Procs -> Int]
      /\ \A p \in Procs : shown'[p] = nv'[p]
  <2>1. new \in -20 .. 19 /\ new \in Int /\ Clamp(new) = new
    BY <1>4, Clamped DEF new
  <2>2. \A p \in Procs : shown[p] = nv[p]
    BY <1>1 DEF IInv, NiceShown, Asked, Reniced
  <2>3. \/ nv' = nv /\ shown' = shown
        \/ nv' = [nv EXCEPT !["child"] = new] /\ shown' = [shown EXCEPT !["child"] = new]
    BY <1>3 DEF IInv, TypeOK, Procs, new
  <2> QED
    BY <2>1, <2>2, <2>3 DEF IInv, TypeOK, Procs
<1>6. pc' \in [Procs -> NicePcs \cup SetPcs]
  BY <1>2 DEF IInv, TypeOK, NicePcs, SetPcs
<1>7. TypeOK'
  BY <1>2, <1>5, <1>6 DEF IInv, TypeOK
<1>8. InProgram'
  BY <1>1, <1>2 DEF IInv, TypeOK, InProgram, NicePcs, Ends, Procs
<1>9. NiceShown'
  BY <1>2, <1>5 DEF IInv, TypeOK, NiceShown, Refused, Procs
<1>10. \A p \in Procs : /\ pc'[p] = pc[p] \/ Running(p)
                        /\ pc'[p] = "exited" => pc[p] = "exited"
  BY <1>1, <1>2 DEF IInv, TypeOK, Running, Ends, Procs
<1>11. pc'["parent"] = pc["parent"]
  BY <1>2 DEF IInv, TypeOK, Procs
<1> QED
  BY <1>1, <1>2, <1>7, <1>8, <1>9, <1>10, <1>11, CountingIInv

LEMMA CountIInv == ASSUME Sizes, IInv, NEW p \in Procs, Count(p) PROVE IInv'
<1>1. /\ pc[p] = "count"
      /\ pc' = [pc EXCEPT ![p] = IF count[p] < CountMax THEN "checktime" ELSE "wrapped"]
      /\ count' = [count EXCEPT ![p] = IF @ = CountMax THEN 0 ELSE @ + 1]
      /\ UNCHANGED <<program, prompt, root, adj, now, deadline, fresh, exitAt, nv, shown>>
  BY DEF IInv, TypeOK, Count, Goto, clock
<1>2. program = "nice_influence" /\ pc["parent"] \notin {"start", "fork"}
  BY <1>1 DEF IInv, TypeOK, InProgram, SetPcs, BeforeFork, Procs
<1>3. count[p] \in 0 .. CountMax /\ CountMax \in Nat
  BY DEF Sizes, IInv, TypeOK
<1>4. count' \in [Procs -> 0 .. CountMax]
  BY <1>1, <1>3 DEF IInv, TypeOK
<1>5. pc' \in [Procs -> NicePcs \cup SetPcs]
  BY <1>1 DEF IInv, TypeOK, NicePcs, Ends
<1>6. TypeOK'
  BY <1>1, <1>4, <1>5 DEF IInv, TypeOK
<1>7. InProgram' /\ NiceShown'
  BY <1>1, <1>2 DEF IInv, TypeOK, InProgram, NicePcs, Ends, NiceShown, Asked, Reniced,
     Refused, Procs
<1>8. \A q \in Procs : /\ pc'[q] = pc[q] \/ Running(q)
                       /\ pc'[q] = "exited" => pc[q] = "exited"
  BY <1>1 DEF IInv, TypeOK, Running, Ends
<1>9. pc'["parent"] \notin {"start", "fork"}
  BY <1>1, <1>2 DEF IInv, TypeOK
<1> QED
  BY <1>1, <1>2, <1>6, <1>7, <1>8, <1>9, CountingIInv

\* Who finds that the deadline has passed is not early, and not late either if
\* it looks at the time in every tick.
LEMMA ChecktimeIInv == ASSUME Sizes, IInv, NEW p \in Procs, Checktime(p) PROVE IInv'
<1>1. /\ pc[p] = "checktime"
      /\ pc' = [pc EXCEPT ![p] = IF Over THEN "exited" ELSE "count"]
      /\ exitAt' = [exitAt EXCEPT ![p] = IF Over THEN now ELSE @]
      /\ fresh' = fresh \cup {p}
      /\ UNCHANGED <<program, prompt, root, adj, now, deadline, count, nv, shown>>
  BY DEF IInv, TypeOK, Checktime, Goto, clock
<1>2. program = "nice_influence" /\ pc["parent"] \notin {"start", "fork"}
  BY <1>1 DEF IInv, TypeOK, InProgram, SetPcs, BeforeFork, Procs
<1>3. now \in Nat /\ deadline \in Nat
  BY DEF IInv, TypeOK
<1>4. Over => now >= deadline
  BY <1>3, NotEarlier DEF Over
<1>5. now = deadline => Over
  BY <1>3, Parts DEF Over
<1>6. pc' \in [Procs -> NicePcs \cup SetPcs]
  BY <1>1 DEF IInv, TypeOK, NicePcs, Ends
<1>7. exitAt' \in [Procs -> Nat]
  BY <1>1, <1>3 DEF IInv, TypeOK
<1>8. TypeOK'
  BY <1>1, <1>6, <1>7 DEF IInv, TypeOK
<1>9. InProgram' /\ NiceShown' /\ ChildShown'
  BY <1>1, <1>2 DEF IInv, TypeOK, InProgram, NicePcs, Ends, NiceShown, ChildShown,
     Asked, Reniced, Refused, Procs
<1>10. prompt => now =< deadline
  BY <1>1, <1>2 DEF IInv, OnSchedule, Running, Ends
<1>11. OnSchedule'
  <2> SUFFICES ASSUME prompt, NEW q \in Procs, Running(q)'
               PROVE  now =< deadline /\ (q \in fresh \cup {p} => now < deadline)
    BY <1>1 DEF OnSchedule
  <2>1. q = p => ~Over
    BY <1>1 DEF IInv, TypeOK, Running, Ends
  <2>2. q # p => Running(q)
    BY <1>1 DEF IInv, TypeOK, Running
  <2> QED
    BY <1>2, <1>3, <1>5, <1>10, <2>1, <2>2 DEF IInv, OnSchedule
<1>12. EndsOnTime'
  BY <1>1, <1>3, <1>4, <1>10 DEF IInv, TypeOK, EndsOnTime
<1>13. BeforeFork'
  BY <1>1, <1>2 DEF IInv, TypeOK, BeforeFork
<1> QED
  BY <1>8, <1>9, <1>11, <1>12, <1>13 DEF IInv

---------------------------------------------------------------------------
\* A step of setpriority: what it prints is asked for, and maybe out of range.
LEMMA PriorityIInv ==
  ASSUME IInv, program = "setpriority",
         pc["parent"] \in SetPcs,
         NEW to \in SetPcs, pc' = [pc EXCEPT !["parent"] = to],
         nv' \in [Procs -> -20 .. 19], shown' \in [Procs -> Int],
         nv'["child"] = nv["child"], shown'["child"] = shown["child"],
         \/ shown'["parent"] = nv'["parent"]
         \/ to \in {"get again", "get last"} /\ Clamp(shown'["parent"]) = nv'["parent"]
         \/ to \in {"set 5", "set 10", "failed"},
         UNCHANGED <<program, prompt, root, adj, now, deadline, count, fresh, exitAt>>
  PROVE  IInv'
<1>1. pc' \in [Procs -> NicePcs \cup SetPcs]
  BY DEF IInv, TypeOK
<1>2. TypeOK'
  BY <1>1 DEF IInv, TypeOK
<1>3. pc["child"] = "none" /\ pc'["child"] = "none" /\ pc'["parent"] = to
  BY DEF IInv, TypeOK, InProgram, Procs
<1>4. InProgram' /\ BeforeFork' /\ OnSchedule' /\ EndsOnTime'
  BY <1>3 DEF InProgram, SetPcs, BeforeFork, OnSchedule, EndsOnTime
<1>5. NiceShown' /\ ChildShown'
  BY <1>3 DEF IInv, NiceShown, ChildShown, Asked, Reniced, Procs
<1> QED
  BY <1>2, <1>4, <1>5 DEF IInv

LEMMA GetPriorityIInv == Sizes /\ IInv /\ GetPriority => IInv'
<1> SUFFICES ASSUME Sizes, IInv, GetPriority PROVE IInv'
  OBVIOUS
<1> PICK to \in {"set 5", "set 10", "exited"} :
      /\ pc["parent"] \in {"get", "get again", "get last"}
      /\ pc' = [pc EXCEPT !["parent"] = to]
      /\ UNCHANGED <<program, prompt, root, adj>>
  BY DEF GetPriority, Goto
<1>1. program = "setpriority" /\ pc["parent"] \in SetPcs /\ to \in SetPcs
  BY DEF IInv, TypeOK, InProgram, NicePcs, SetPcs, Ends
<1>2. /\ shown' = [shown EXCEPT !["parent"] = nv["parent"]]
      /\ UNCHANGED <<now, deadline, count, fresh, exitAt, nv>>
  BY DEF GetPriority, clock
<1>3. nv["parent"] \in -20 .. 19 /\ nv["parent"] \in Int
  <2>1. nv \in [Procs -> -20 .. 19] /\ "parent" \in Procs
    BY DEF IInv, TypeOK, Procs
  <2>2. nv["parent"] \in -20 .. 19
    BY <2>1
  <2> QED
    BY <2>2, KernelRange
<1>4. /\ shown' \in [Procs -> Int] /\ shown'["child"] = shown["child"]
      /\ shown'["parent"] = nv["parent"] /\ nv'["parent"] = nv["parent"]
      /\ nv'["child"] = nv["child"]
  BY <1>2, <1>3 DEF IInv, TypeOK, Procs
<1>5. nv' \in [Procs -> -20 .. 19]
  BY <1>2 DEF IInv, TypeOK
<1> QED
  BY <1>1, <1>2, <1>4, <1>5, PriorityIInv

\* One call of setpriority, from one value to another.
LEMMA SetIInv ==
  ASSUME IInv, NEW from \in {"set 5", "set 10"}, NEW to \in {"get again", "get last"},
         NEW new \in Int, Set(from, to, new),
         UNCHANGED <<now, deadline, count, fresh, exitAt>>
  PROVE  IInv'
<1>1. pc["parent"] = from /\ UNCHANGED <<program, prompt, root, adj>>
  BY DEF Set, Goto
<1>2. program = "setpriority" /\ pc["parent"] \in SetPcs
  BY <1>1 DEF IInv, TypeOK, InProgram, NicePcs, SetPcs, Ends
<1>3. CASE /\ pc' = [pc EXCEPT !["parent"] = to]
           /\ nv' = [nv EXCEPT !["parent"] = Clamp(new)]
           /\ shown' = [shown EXCEPT !["parent"] = new]
  <2>1. Clamp(new) \in -20 .. 19
    BY Clamped
  <2> DEFINE c == Clamp(new)
  <2> HIDE DEF c
  <2>2. /\ nv' \in [Procs -> -20 .. 19] /\ shown' \in [Procs -> Int]
        /\ nv'["child"] = nv["child"] /\ shown'["child"] = shown["child"]
        /\ shown'["parent"] = new /\ nv'["parent"] = c
    BY <1>3, <2>1 DEF IInv, TypeOK, Procs, c
  <2>3. to \in SetPcs
    BY DEF SetPcs
  <2> QED
    BY <1>1, <1>2, <1>3, <2>2, <2>3, PriorityIInv DEF c
<1>4. CASE pc' = [pc EXCEPT !["parent"] = "failed"] /\ UNCHANGED <<nv, shown>>
  <2>1. nv' \in [Procs -> -20 .. 19] /\ shown' \in [Procs -> Int]
    BY <1>4 DEF IInv, TypeOK
  <2>2. "failed" \in SetPcs
    BY DEF SetPcs
  <2> QED
    BY <1>1, <1>2, <1>4, <2>1, <2>2, PriorityIInv
<1> QED
  BY <1>3, <1>4 DEF Set, Goto

LEMMA SetPriorityIInv == Sizes /\ IInv /\ SetPriority => IInv'
<1> SUFFICES ASSUME Sizes, IInv, SetPriority PROVE IInv'
  OBVIOUS
<1>1. shown["parent"] + 5 \in Int /\ shown["parent"] + 10 \in Int
  BY DEF IInv, TypeOK, Procs
<1>2. UNCHANGED <<now, deadline, count, fresh, exitAt>>
  BY DEF SetPriority, clock
<1>3. CASE Set("set 5", "get again", shown["parent"] + 5)
  BY <1>1, <1>2, <1>3, SetIInv
<1>4. CASE Set("set 10", "get last", shown["parent"] + 10)
  BY <1>1, <1>2, <1>4, SetIInv
<1> QED
  BY <1>3, <1>4 DEF SetPriority

LEMMA ReniceIInv == Sizes /\ IInv /\ Renice => IInv'
<1> SUFFICES ASSUME Sizes, IInv, Renice PROVE IInv'
  OBVIOUS
<1> PICK n \in Nices : nv' = [nv EXCEPT !["parent"] = n]
  BY DEF Renice
<1>1. /\ pc["parent"] \in {"set 5", "set 10"}
      /\ UNCHANGED <<program, prompt, root, adj, now, deadline, pc, count, fresh,
                     exitAt, shown>>
  BY DEF Renice, clock
<1>2. program = "setpriority"
  BY <1>1 DEF IInv, TypeOK, InProgram, NicePcs, Ends
<1>3. nv' \in [Procs -> -20 .. 19]
  BY DEF Sizes, IInv, TypeOK
<1>4. TypeOK'
  BY <1>1, <1>3 DEF IInv, TypeOK
<1>5. InProgram' /\ BeforeFork' /\ OnSchedule' /\ EndsOnTime'
  BY <1>1, <1>2 DEF IInv, InProgram, BeforeFork, OnSchedule, EndsOnTime
<1>6. NiceShown' /\ ChildShown'
  BY <1>1, <1>2 DEF IInv, TypeOK, NiceShown, ChildShown, Asked, Reniced, Refused, Procs
<1> QED
  BY <1>4, <1>5, <1>6 DEF IInv

---------------------------------------------------------------------------
\* Time passes for a process that counts; it has looked at the time, so that
\* the deadline is still to come.
LEMMA TickIInv == Sizes /\ IInv /\ Tick => IInv'
<1> SUFFICES ASSUME Sizes, IInv, Tick PROVE IInv'
  OBVIOUS
<1> PICK p \in Procs : Looping(p)
  BY DEF Tick
<1>1. /\ now' = Wrap(now + 1) /\ fresh' = {}
      /\ UNCHANGED <<program, prompt, root, adj, deadline, pc, count, exitAt, nv, shown>>
      /\ prompt => \A q \in Procs : Running(q) => q \in fresh
  BY DEF Tick
<1>2. now + 1 \in Nat /\ deadline \in Nat
  BY DEF IInv, TypeOK
<1> DEFINE next == now + 1
<1> HIDE DEF next
<1>3. now' \in Nat /\ (next =< deadline => now' = next)
  BY <1>1, <1>2, WrapLate DEF next
<1>4. TypeOK'
  BY <1>1, <1>3 DEF IInv, TypeOK
<1>5. OnSchedule'
  <2> SUFFICES ASSUME prompt, pc["parent"] # "start", program = "nice_influence",
                      NEW q \in Procs, Running(q)
               PROVE  now' =< deadline
    BY <1>1 DEF OnSchedule, Running
  <2>1. now < deadline
    BY <1>1 DEF IInv, OnSchedule
  <2>2. next =< deadline
    BY <1>2, <2>1 DEF IInv, TypeOK, next
  <2> QED
    BY <1>3, <2>2
<1>6. InProgram' /\ BeforeFork' /\ EndsOnTime'
  BY <1>1 DEF IInv, InProgram, BeforeFork, EndsOnTime
<1>7. NiceShown' /\ ChildShown'
  BY <1>1 DEF IInv, NiceShown, ChildShown, Asked, Reniced, Refused
<1> QED
  BY <1>4, <1>5, <1>6, <1>7 DEF IInv

\* A step of one of the programs, or none, keeps the invariant.
LEMMA NextIInv == Sizes /\ IInv /\ [Next]_vars => IInv'
<1> SUFFICES ASSUME Sizes, IInv, [Next]_vars PROVE IInv'
  OBVIOUS
<1>1. CASE ParentStep
  BY <1>1, SetEndIInv, ForkIInv, CountIInv, ChecktimeIInv, GetPriorityIInv,
     SetPriorityIInv DEF ParentStep, Procs
<1>2. CASE ChildStep
  BY <1>2, NiceIInv, CountIInv, ChecktimeIInv DEF ChildStep, Procs
<1>3. CASE UNCHANGED vars
  <2>1. /\ UNCHANGED <<program, prompt, root, adj, now, deadline, pc, count, fresh>>
        /\ UNCHANGED <<exitAt, nv, shown>>
    BY <1>3 DEF vars, clock
  <2>2. TypeOK'
    BY <2>1 DEF IInv, TypeOK
  <2>3. /\ InProgram' /\ BeforeFork' /\ OnSchedule' /\ EndsOnTime' /\ NiceShown'
        /\ ChildShown'
    BY <2>1 DEF IInv, InProgram, BeforeFork, OnSchedule, Running, EndsOnTime,
       NiceShown, ChildShown, Asked, Reniced, Refused
  <2> QED
    BY <2>2, <2>3 DEF IInv
<1> QED
  BY <1>1, <1>2, <1>3, ReniceIInv, TickIInv DEF Next

---------------------------------------------------------------------------
\* The inductive invariant holds, for every clock, interval and counter.
THEOREM Inductive == ASSUME Sizes PROVE Spec => []IInv
<1>1. Init => IInv
  BY InitIInv
<1>2. IInv /\ [Next]_vars => IInv'
  BY NextIInv
<1> QED
  BY <1>1, <1>2, PTL DEF Spec

\* No process of nice_influence.c stops before the deadline, and one that looks
\* at the time in every tick stops at it (nice_influence.c:25), for every length
\* of the second and of the interval.
THEOREM Deadline == ASSUME Sizes PROVE Spec => []EndsOnTime
<1>1. IInv => EndsOnTime
  BY DEF IInv
<1> QED
  BY <1>1, Inductive, PTL

\* The nice values printed are those of the kernel, whatever values and
\* adjustments the programs start with (nice_influence.c:61-65, setpriority.c).
THEOREM Shown == ASSUME Sizes PROVE Spec => []NiceShown
<1>1. IInv => NiceShown
  BY DEF IInv
<1> QED
  BY <1>1, Inductive, PTL
=============================================================================
