SPECIFICATION Spec
CONSTANTS
  Results = {r1, r2, r3}
  Values = {v1, v2}
  Errors = {e1, e2}
  Gone = Gone
  None = None
INVARIANTS
  EitherOr
  NoneLost
PROPERTY
  Implements
