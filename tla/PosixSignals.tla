---------------------------- MODULE PosixSignals ----------------------------
(***************************************************************************)
(* External: what a Unix kernel does with the signals of one process, as   *)
(* far as the programs of signals/ use it.  A process has the record       *)
(*   [pending |-> signals generated and not yet delivered,                 *)
(*    mask    |-> signals that are blocked,                                *)
(*    act     |-> [signal |-> what sigaction installed for it]]            *)
(* A signal pending twice is pending once: pending is a set.  A program    *)
(* that catches a signal steps only while nothing is Deliverable to it,    *)
(* since a signal is delivered before the process runs again; a signal may *)
(* stay pending while the process waits for the processor.                 *)
(***************************************************************************)
\* The default action, and a handler f installed with some of the flags
\* "restart" (SA_RESTART), "reset" (SA_RESETHAND) and "nodefer" (SA_NODEFER).
Default == [handler |-> "SIG_DFL", flags |-> {}]
Ignore  == [handler |-> "SIG_IGN", flags |-> {}]
Catch(f, flags) == [handler |-> f, flags |-> flags]

\* A process that has called no signal function.
NoActions(signals) ==
  [pending |-> {}, mask |-> {}, act |-> [s \in signals |-> Default]]

Handler(sig, s) == sig.act[s].handler
Flags(sig, s)   == sig.act[s].flags

IsCaught(sig, s)  == Handler(sig, s) \notin {"SIG_DFL", "SIG_IGN"}
IsIgnored(sig, s) == \/ Handler(sig, s) = "SIG_IGN"
                     \/ Handler(sig, s) = "SIG_DFL" /\ s = "SIGCHLD"

\* kill, or the kernel itself: a signal that is ignored is thrown away.
Generate(sig, s) == IF IsIgnored(sig, s) /\ s \notin sig.mask
                    THEN sig
                    ELSE [sig EXCEPT !.pending = @ \cup {s}]

Deliverable(sig) == sig.pending \ sig.mask

\* The handler of s starts: s is blocked while it runs, unless "nodefer".
Enter(sig, s) ==
  [sig EXCEPT !.pending = @ \ {s},
              !.mask = IF "nodefer" \in Flags(sig, s) THEN @ ELSE @ \cup {s},
              !.act[s] = IF "reset" \in Flags(sig, s) THEN Default ELSE @]

\* sigaction and signal; SIG_IGN throws away what is pending.
Install(sig, s, action) ==
  LET new == [sig EXCEPT !.act[s] = action]
  IN  IF IsIgnored(new, s) THEN [new EXCEPT !.pending = @ \ {s}] ELSE new

\* sigprocmask with SIG_BLOCK and with SIG_SETMASK.
Block(sig, set)   == [sig EXCEPT !.mask = @ \cup set]
SetMask(sig, set) == [sig EXCEPT !.mask = set]

SignalState(signals, handlers) ==
  [pending : SUBSET signals, mask : SUBSET signals,
   act : [signals -> [handler : handlers \cup {"SIG_DFL", "SIG_IGN"},
                      flags : SUBSET {"restart", "reset", "nodefer"}]]]
=============================================================================
