\* What the program concludes on a kernel that does not queue signals.
SPECIFICATION Spec
INVARIANT
  NotQueued
