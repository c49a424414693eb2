\* The same instance, and what the program says of the removal of its queue.
SPECIFICATION Spec
CONSTANTS
  p1 = p1
  p2 = p2
  NoProc = NoProc
  Procs <- MCProcs
  MaxLines = 3
  Capacity = 2
INVARIANT
  RemovalIsNormalEnd
