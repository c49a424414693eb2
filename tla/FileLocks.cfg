\* Two runs of record_lock and one of mandatory_lock on one file.
SPECIFICATION FairSpec
CONSTANTS
  Runs = {r1, r2}
  Parent = parent
  Child = child
INVARIANTS
  Exclusive
  VerdictRight
PROPERTIES
  AllEnd
