\* Three signals of other processes at any time; idle and busy machines; children
\* killed or not.
SPECIFICATION FairSpec
CONSTANTS
  MaxSent = 3
INVARIANTS
  CountBound
  OneWaiter
  WaitEndsOnTell
  AllCounted
  AnswersRight
  QuestionsApart
  KilledInWindow
  MasksShown
  JumpsOnce
  PendingShown
PROPERTIES
  EveryProgramEnds
