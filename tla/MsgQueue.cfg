\* Two processes of up to three lines, a queue of two messages.
SPECIFICATION FairSpec
CONSTANTS
  p1 = p1
  p2 = p2
  NoProc = NoProc
  Procs <- MCProcs
  MaxLines = 3
  Capacity = 2
INVARIANTS
  Accounted
  ReceivedIsPrinted
  QueueLeft
PROPERTIES
  Fifo
  EveryRunEnds
