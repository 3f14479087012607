SPECIFICATION Spec
CONSTANTS
  SIZE_MAX = 4
  MAX_ALLOC_BYTES = 3
  kMinGrowth = 1
  Block = {Caller, m1, m2, m3}
  Caller = Caller
  Null = Null
  Byte = {0, 1}
  Undef = Undef
  Untouched = Untouched
  Bufs = {b}
  Strs = {s}
  CallerBytes <- MCCallerBytes
  Excluded = {"view_at_capacity"}
VIEW MCView
SYMMETRY MCSymmetry
INVARIANTS
  Sound
  Owned
PROPERTIES
  CountsMatch
  Implements
