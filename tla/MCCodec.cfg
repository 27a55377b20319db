SPECIFICATION Spec
CONSTANTS
  Data <- MCData
  Zero <- MCZero
  Corrupt = corrupt
  LZ4Size <- MCLZ4Size
INVARIANTS RoundTrip SlotTight
\* One block is compressed and restored, then the caller is done.
CHECK_DEADLOCK FALSE
