------------------------------ MODULE FileStat ------------------------------
(***************************************************************************)
(* What files_and_directories/file_stat.c and file_type.c print of a file, *)
(* as functions of its kind and mode.  A mode is the set of its bits: "ur" *)
(* is S_IRUSR, "ox" is S_IXOTH, "svtx" is S_ISVTX.                         *)
(***************************************************************************)
EXTENDS Sequences

\* file_stat.c: the first character.
TypeChar(kind) == CASE kind = "regular"   -> "-"
                    [] kind = "symlink"   -> "l"
                    [] kind = "directory" -> "d"
                    [] kind = "character" -> "c"
                    [] kind = "block"     -> "b"
                    [] kind = "fifo"      -> "f"
                    [] kind = "socket"    -> "s"

\* The character for a read or write bit.
Letter(mode, bit, letter) == IF bit \in mode THEN letter ELSE "-"

\* The character for an execute bit and the special bit that shares its place.
Execute(mode, x, special, both, only) ==
  CASE x \in mode    /\ special \in mode    -> both
    [] x \in mode    /\ special \notin mode -> "x"
    [] x \notin mode /\ special \in mode    -> only
    [] x \notin mode /\ special \notin mode -> "-"

UserExecute(mode)  == Execute(mode, "ux", "suid", "s", "S")

\* Mutant: S_IXUSR for S_IXGRP.
GroupExecuteUser(mode) == Execute(mode, "ux", "sgid", "s", "S")

GroupExecute(mode) == Execute(mode, "gx", "sgid", "s", "S")

\* Line 85 tests for both bits, so that lines 88 to 91 are never reached.
OtherExecute(mode) == IF "ox" \in mode /\ "svtx" \in mode THEN "t" ELSE "-"

Listed(kind, mode) ==
  << TypeChar(kind),
     Letter(mode, "ur", "r"), Letter(mode, "uw", "w"), UserExecute(mode),
     Letter(mode, "gr", "r"), Letter(mode, "gw", "w"), GroupExecute(mode),
     Letter(mode, "or", "r"), Letter(mode, "ow", "w"), OtherExecute(mode) >>

\* What ls -l prints: the same, but for the place of the last bit and a fifo.
LsExecute(mode) == Execute(mode, "ox", "svtx", "t", "T")
LsType(kind)    == IF kind = "fifo" THEN "p" ELSE TypeChar(kind)

\* file_type.c
TypeWord(kind) == CASE kind = "regular"   -> "regular"
                    [] kind = "directory" -> "directory"
                    [] kind = "symlink"   -> "symbolic link"
                    [] kind = "character" -> "character special"
                    [] kind = "block"     -> "block special"
                    [] kind = "socket"    -> "socket"
                    [] kind = "fifo"      -> "fifo"
=============================================================================
