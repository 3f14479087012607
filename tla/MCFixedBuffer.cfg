SPECIFICATION Spec
CONSTANTS
  SIZE_MAX = 5
  MAX_ALLOC_BYTES = 5
  kMinGrowth = 1
  N = 3
  Obj = {x, y}
  Caller = Caller
  Null = Null
  Byte = {0, 1}
  CallerBytes <- MCCallerBytes
VIEW MCView
INVARIANTS
  TypeOK
  NoResidue
PROPERTIES
  Implements
