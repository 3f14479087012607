SPECIFICATION Spec
CONSTANTS
  SIZE_MAX = 11
  MAX_ALLOC_BYTES = 7
  kMinGrowth = 2
  Widths = {2, 3, 4}
INVARIANTS
  SizesExact
  CastsExact
