--------------------------- MODULE NiceInfluence ---------------------------
(***************************************************************************)
(* process_control/nice_influence.c: parent and child count until a        *)
(* deadline, the child with another nice value.  Line 25 compares seconds  *)
(* and microseconds of the deadline each by itself.                        *)
(* process_control/setpriority.c raises its nice value twice.              *)
(*                                                                         *)
(* With prompt = TRUE both processes look at the time in every tick of the *)
(* clock; with prompt = FALSE they run when they may.                      *)
(***************************************************************************)
EXTENDS Integers

CONSTANTS
  Ticks,     \* ticks of the clock in a second, 1000000 in the program
  Interval,  \* seconds that the processes count, 10 in the program
  CountMax,  \* the largest value of count, 2^64 - 1 in the program
  Nices,     \* nice values that a program may start with
  Adjs       \* the adjustments that argv[1] may ask for

VARIABLES
  program, prompt, root, adj,
  now, deadline,  \* in ticks
  pc, count,      \* pc[p], count[p]: of parent and child
  fresh,          \* the processes that have looked at the time in this tick
  exitAt,         \* exitAt[p]: when p found that the deadline has passed
  nv,             \* nv[p]: the nice value of p
  shown           \* shown[p]: the last nice value that p has printed as its own

clock == <<now, deadline>>
vars  == <<program, prompt, root, adj, clock, pc, count, fresh, exitAt, nv, shown>>

Procs == {"parent", "child"}
Ends  == {"none", "exited", "wrapped", "failed"}

Sec(t)  == t \div Ticks
Usec(t) == t % Ticks

\* The kernel keeps nice values in this range.
Clamp(n) == IF n > 19 THEN 19 ELSE IF n < -20 THEN -20 ELSE n

Init == /\ root \in BOOLEAN
        /\ \/ /\ program = "nice_influence"
              /\ prompt \in BOOLEAN /\ adj \in Adjs
           \/ /\ program = "setpriority"
              /\ prompt = TRUE /\ adj = 0
        /\ now \in 0 .. Ticks - 1 /\ deadline = 0
        /\ pc = [p \in Procs |-> IF p = "child" THEN "none"
                                 ELSE IF program = "setpriority" THEN "get" ELSE "start"]
        /\ count = [p \in Procs |-> 0]
        /\ fresh = {} /\ exitAt = [p \in Procs |-> 0]
        /\ \E n \in Nices : nv = [p \in Procs |-> n] /\ shown = nv

Goto(p, from, to) == /\ pc[p] = from /\ pc' = [pc EXCEPT ![p] = to]
                     /\ UNCHANGED <<program, prompt, root, adj>>

---------------------------------------------------------------------------
\* nice_influence.c

SetEnd == /\ Goto("parent", "start", "fork")
          /\ deadline' = now + Interval * Ticks
          /\ UNCHANGED <<now, count, fresh, exitAt, nv, shown>>

Fork == /\ UNCHANGED <<clock, count, fresh, exitAt, nv, shown, program, prompt, root, adj>>
        /\ pc["parent"] = "fork"
        /\ \/ pc' = [pc EXCEPT !["parent"] = "count", !["child"] = "nice"]
           \/ pc' = [pc EXCEPT !["parent"] = "failed"]

\* nice(adj) fails for a lower value, unless for root; -1 may be the new value.
Refused == adj < 0 /\ ~root

\* Mutant: -1 is taken for an error.
NiceNoErrno == /\ LET new == IF Refused THEN -1 ELSE Clamp(nv["child"] + adj)
                  IN  \/ new = -1 /\ Goto("child", "nice", "failed") /\ UNCHANGED <<nv, shown>>
                      \/ /\ new # -1 /\ Goto("child", "nice", "count")
                         /\ nv' = [nv EXCEPT !["child"] = new]
                         /\ shown' = [shown EXCEPT !["child"] = new]
               /\ UNCHANGED <<clock, count, fresh, exitAt>>

Nice == /\ \/ /\ Refused
              /\ Goto("child", "nice", "failed")
              /\ UNCHANGED <<nv, shown>>
           \/ /\ ~Refused
              /\ Goto("child", "nice", "count")
              /\ nv' = [nv EXCEPT !["child"] = Clamp(@ + adj)]
              /\ shown' = [shown EXCEPT !["child"] = nv'["child"]]
        /\ UNCHANGED <<clock, count, fresh, exitAt>>

\* ++count == 0 ends the process.
Count(p) == /\ \/ count[p] < CountMax /\ Goto(p, "count", "checktime")
               \/ count[p] = CountMax /\ Goto(p, "count", "wrapped")
            /\ count' = [count EXCEPT ![p] = IF @ = CountMax THEN 0 ELSE @ + 1]
            /\ UNCHANGED <<clock, fresh, exitAt, nv, shown>>

\* Mutant: the microseconds are not compared.
OverSec == Sec(now) >= Sec(deadline)

Over == Sec(now) >= Sec(deadline) /\ Usec(now) >= Usec(deadline)

Checktime(p) == /\ \/ /\ Over
                      /\ Goto(p, "checktime", "exited")
                      /\ exitAt' = [exitAt EXCEPT ![p] = now]
                   \/ /\ ~Over
                      /\ Goto(p, "checktime", "count")
                      /\ UNCHANGED exitAt
                /\ fresh' = fresh \cup {p}
                /\ UNCHANGED <<clock, count, nv, shown>>

---------------------------------------------------------------------------
\* setpriority.c, the parent alone: getpriority, setpriority with 5, the same
\* with 10, and getpriority.

GetPriority == /\ \/ Goto("parent", "get", "set 5")
                  \/ Goto("parent", "get again", "set 10")
                  \/ Goto("parent", "get last", "exited")
               /\ shown' = [shown EXCEPT !["parent"] = nv["parent"]]
               /\ UNCHANGED <<clock, count, fresh, exitAt, nv>>

\* The value is more than the one that was read: it may be lower than the one
\* that somebody has set since then, which only root may ask for.
Set(from, to, new) == \/ /\ new >= nv["parent"] \/ root
                         /\ Goto("parent", from, to)
                         /\ nv' = [nv EXCEPT !["parent"] = Clamp(new)]
                         /\ shown' = [shown EXCEPT !["parent"] = new]
                      \/ /\ new < nv["parent"] /\ ~root
                         /\ Goto("parent", from, "failed")
                         /\ UNCHANGED <<nv, shown>>

SetPriority == /\ \/ Set("set 5", "get again", shown["parent"] + 5)
                  \/ Set("set 10", "get last", shown["parent"] + 10)
               /\ UNCHANGED <<clock, count, fresh, exitAt>>

\* External: root renices the process once it has read its value.
Renice == /\ pc["parent"] \in {"set 5", "set 10"}
          /\ \E n \in Nices : nv' = [nv EXCEPT !["parent"] = n]
          /\ UNCHANGED <<program, prompt, root, adj, clock, pc, count, fresh, exitAt, shown>>

---------------------------------------------------------------------------
Running(p) == pc[p] \notin Ends

Looping(p) == pc[p] \in {"count", "checktime"}

\* Well past the deadline only the microseconds matter.
Wrap(t) == IF Sec(t) > Sec(deadline) + 1 THEN t - Ticks ELSE t

Tick == /\ \E p \in Procs : Looping(p)
        /\ prompt => \A p \in Procs : Running(p) => p \in fresh
        /\ now' = Wrap(now + 1)
        /\ fresh' = {}
        /\ UNCHANGED <<program, prompt, root, adj, deadline, pc, count, exitAt, nv, shown>>

Ended == \A p \in Procs : ~Running(p)

ParentStep == \/ SetEnd \/ Fork \/ Count("parent") \/ Checktime("parent")
              \/ GetPriority \/ SetPriority
ChildStep  == Nice \/ Count("child") \/ Checktime("child")

Next == ParentStep \/ ChildStep \/ Renice \/ Tick \/ (Ended /\ UNCHANGED vars)

Spec == Init /\ [][Next]_vars

\* Both processes run when they can, and time passes.
FairSpec == Spec /\ WF_vars(ParentStep) /\ WF_vars(ChildStep) /\ WF_vars(Tick)

---------------------------------------------------------------------------
(* Properties *)

\* No process stops before the deadline, and one that looks at the time in
\* every tick stops at it.  One that does not may go on for any time, since
\* line 25 also tests the microseconds (nice_influence.c:25).
EndsOnTime ==
  \A p \in Procs : pc[p] = "exited" /\ program = "nice_influence" =>
    /\ exitAt[p] >= deadline
    /\ prompt => exitAt[p] = deadline

\* The nice value that nice_influence prints is that of the kernel, -1 included,
\* and the child fails only when it is refused one (nice_influence.c:61-65).  So
\* is the one that setpriority got last when it ends.  After line 18 or 31 the
\* kernel's is what it asked for and prints (22, 35), cut off at 19; after line 12
\* or 25 somebody else may have set another one.
Asked   == program = "setpriority" /\ pc["parent"] \in {"get again", "get last"}
Reniced == program = "setpriority" /\ pc["parent"] \in {"set 5", "set 10", "failed"}

NiceShown ==
  /\ \A p \in Procs : \/ shown[p] = nv[p]
                      \/ Asked /\ Clamp(shown[p]) = nv[p]
                      \/ Reniced
  /\ pc["child"] = "failed" => Refused

\* A process that looks at the time often enough ends, and so does every other
\* unless it looks only at times at which line 25 misses the deadline.
AlwaysEnds == <>[](Ended \/ ~prompt)

---------------------------------------------------------------------------
(* The inductive invariant behind EndsOnTime and NiceShown *)

\* What the values of the constants must be like.
Sizes == /\ Ticks \in Nat \ {0} /\ Interval \in Nat /\ CountMax \in Nat
         /\ Nices \subseteq -20 .. 19 /\ Adjs \subseteq Int

\* Where the processes of each program are.
NicePcs == Ends \cup {"start", "fork", "nice", "count", "checktime"}
SetPcs  == {"get", "set 5", "get again", "set 10", "get last", "exited", "failed"}

\* Every variable has its type.
TypeOK == /\ program \in {"nice_influence", "setpriority"}
          /\ prompt \in BOOLEAN /\ root \in BOOLEAN /\ adj \in Int
          /\ now \in Nat /\ deadline \in Nat
          /\ pc \in [Procs -> NicePcs \cup SetPcs]
          /\ count \in [Procs -> 0 .. CountMax] /\ fresh \subseteq Procs
          /\ exitAt \in [Procs -> Nat]
          /\ nv \in [Procs -> -20 .. 19] /\ shown \in [Procs -> Int]

InProgram == IF program = "nice_influence"
             THEN /\ pc["parent"] \in NicePcs \ {"nice"}
                  /\ pc["child"] \in NicePcs \ {"start", "fork"}
             ELSE pc["parent"] \in SetPcs /\ pc["child"] = "none"

\* Before the fork there is no child, and nobody has looked at the time.
BeforeFork == pc["parent"] \in {"start", "fork"} => pc["child"] = "none" /\ fresh = {}

\* A process that looks at the time in every tick has ended when the deadline
\* has passed, and the one that has looked in this tick found that it has not.
OnSchedule == program = "nice_influence" /\ prompt /\ pc["parent"] # "start" =>
  \A p \in Procs : Running(p) => /\ now =< deadline
                                 /\ p \in fresh => now < deadline

\* Nobody renices the child.
ChildShown == shown["child"] = nv["child"]

IInv == /\ TypeOK /\ InProgram /\ BeforeFork /\ OnSchedule /\ EndsOnTime
        /\ NiceShown /\ ChildShown
=============================================================================
