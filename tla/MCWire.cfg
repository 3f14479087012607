SPECIFICATION Spec
CONSTANTS
  SIZE_MAX = 11
  MAX_ALLOC_BYTES = 8
  kMinGrowth = 1
  Base = 2
  Prior <- MCPrior
  Raw = {0, 2, 11}
  Values <- MCValues
  MaxFields = 3
VIEW MCView
INVARIANTS
  WritesWhole
  FramesParse
PROPERTIES
  RoundTrip
  Implements
