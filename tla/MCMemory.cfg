SPECIFICATION Spec
CONSTANTS
  Threads = {1, 2}
  virtual_capacity = 130
  physical_capacity = 112
  OFFSET_RANGE = 16777216
  Requests <- Calls
  Samples <- LimitLines
  MaxCalls = 4
INVARIANTS
  TypeOK
  ChunksHaveOneOwner
  CountsExact
  LinesReadBack
  LoadsUntorn
  OnlyRangeChanges
  CompressionExact
PROPERTY CallsReturn
CHECK_DEADLOCK FALSE
