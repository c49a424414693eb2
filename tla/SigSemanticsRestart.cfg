\* What the programs conclude from a read that returns data.
SPECIFICATION Spec
INVARIANT
  RestartedIsRight
