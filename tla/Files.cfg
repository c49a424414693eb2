\* Three programs change the directory while unlink.c runs and gets three signals.
SPECIFICATION FairSpec
CONSTANTS
  MaxRuns = 3
  MaxSent = 3
INVARIANTS
  UnlinkTold
  KeptThenFreed
  ModesTold
PROPERTIES
  TwoSignalsEnd
