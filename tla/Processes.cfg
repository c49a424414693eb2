\* The three children of sigchld, three ticks in a second, a deadline in the
\* next second, and at most five increments of the counter.
SPECIFICATION FairSpec
CONSTANTS
  NKids = 3
  Ticks = 3
  Interval = 1
  CountMax = 5
  Nices <- MCNices
  Adjs <- MCAdjs
  MaxCommands = 2
  Codes = {0, 44, 300}
  Sigs = {2, 9}
INVARIANTS
  ChldVerdictsRight
  JoinsRight
  NoneCutShort
  EndsOnTime
  NiceShown
  StatusTold
  RecordsRight
  ExitShown
  WriteAsTold
PROPERTIES
  EveryProgramEnds
