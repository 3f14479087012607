SPECIFICATION Spec
CONSTANTS
  SIZE_MAX = 7
  MAX_ALLOC_BYTES = 6
  kMinGrowth = 1
  Block = {Caller, m1, m2}
  Caller = Caller
  Null = Null
  Byte = {0, 1}
  Undef = Undef
  Obj = {x}
  CallerBytes <- MCTerminated
  Slack = 1
  Excluded = {"bare_replace", "view_at_capacity", "shifted_terminator", "inner_view"}
VIEW MCView
SYMMETRY MCSymmetry
INVARIANTS
  TypeOK
  Consistent
  Initialised
  NoFault
PROPERTIES
  Implements
