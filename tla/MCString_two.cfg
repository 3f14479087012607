SPECIFICATION Spec
CONSTANTS
  SIZE_MAX = 4
  MAX_ALLOC_BYTES = 3
  kMinGrowth = 1
  Block = {Caller, m1, m2, m3}
  Caller = Caller
  Null = Null
  Byte = {0, 1}
  Undef = Undef
  Obj = {x, y}
  CallerBytes <- MCUnterminated
  Slack = 1
  Excluded = {"bare_replace", "view_at_capacity", "shifted_terminator", "inner_view"}
VIEW MCView
SYMMETRY MCSymmetry
INVARIANTS
  Consistent
  Ownership
  NoFault
PROPERTIES
  Implements
