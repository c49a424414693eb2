----------------------------- MODULE FcntlLocks -----------------------------
(***************************************************************************)
(* External: the record locks that fcntl keeps for one file, as far as the *)
(* programs of advanced_io/ use them.  locks[p][b] is the lock that        *)
(* process p has on byte b.  Two bytes are enough to tell the first byte,  *)
(* a range that includes it, a range that does not, and the whole file.    *)
(***************************************************************************)
Bytes     == {0, 1}
FirstByte == {0}      \* l_start = 0, l_len = 1
WholeFile == Bytes    \* l_start = 0, l_len = 0
LockTypes == {"F_RDLCK", "F_WRLCK"}

LockTable(users) == [users -> [Bytes -> LockTypes \cup {"F_UNLCK"}]]
NoLocks(users)   == [p \in users |-> [b \in Bytes |-> "F_UNLCK"]]

\* Another process has a lock on some byte of range that excludes a lock of
\* this type.
Conflict(locks, p, type, range) ==
  \E q \in DOMAIN locks \ {p} : \E b \in range :
    \/ locks[q][b] = "F_WRLCK"
    \/ locks[q][b] = "F_RDLCK" /\ type = "F_WRLCK"

\* What F_SETLK and F_SETLKW do once nothing conflicts; F_UNLCK unlocks.
SetRange(locks, p, type, range) ==
  [locks EXCEPT ![p] = [b \in Bytes |-> IF b \in range THEN type ELSE @[b]]]

\* The process ends: its locks go.
Drop(locks, p) == SetRange(locks, p, "F_UNLCK", Bytes)
=============================================================================
