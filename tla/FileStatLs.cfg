\* What file_stat.c lists, compared with ls -l.
SPECIFICATION Spec
CONSTANTS
  MaxRuns = 1
  MaxSent = 0
INVARIANT
  ListedAsLs
