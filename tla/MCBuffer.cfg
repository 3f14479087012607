SPECIFICATION Spec
CONSTANTS
  SIZE_MAX = 5
  MAX_ALLOC_BYTES = 3
  kMinGrowth = 1
  Block = {Caller, m1, m2, m3}
  Caller = Caller
  Null = Null
  Byte = {0, 1}
  Undef = Undef
  Obj = {x, y}
  CallerBytes <- MCCallerBytes
  Slack = 0
VIEW MCView
SYMMETRY MCSymmetry
INVARIANTS
  TypeOK
  Consistent
  Initialised
  NoFault
  Ownership
PROPERTIES
  Implements
  DataStable
