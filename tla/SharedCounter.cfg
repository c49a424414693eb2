\* Parent and child with three iterations each, killed or not at any point.
SPECIFICATION FairSpec
CONSTANT NLoop <- MCNLoop
INVARIANTS
  MutualExclusion
  FinalCount
PROPERTIES
  Atomic
  EventuallyDone
