\* Inputs of up to six bytes, a buffer of three, a sink with room for up to four.
SPECIFICATION FairSpec
CONSTANTS
  MaxInput = 6
  BufSize = 3
  Capacity = 4
INVARIANTS
  NothingMisplaced
  SuccessMeansCopied
PROPERTIES
  EndsOrSpins
