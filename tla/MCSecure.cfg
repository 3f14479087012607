SPECIFICATION SecureSpec
CONSTANTS
  SIZE_MAX = 4
  MAX_ALLOC_BYTES = 3
  kMinGrowth = 1
  Block = {Caller, m1, m2, m3, m4}
  Caller = Caller
  Null = Null
  Byte = {0, 1}
  Undef = Undef
  Bufs = {b}
  Strs = {s, t}
  CallerBytes <- MCCallerBytes
  Excluded = {"view_at_capacity"}
  Habits = {}
VIEW MCView
SYMMETRY MCSymmetry
INVARIANTS
  NoSecretFreed
  NoSecretKept
