SPECIFICATION Spec
CONSTANTS
  Users = {r1}
  Runs = {r1}
INVARIANTS ReleasedWhenSaid
