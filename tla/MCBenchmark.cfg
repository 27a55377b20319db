SPECIFICATION BenchSpec
CONSTANTS
  zero = zero
  h1 = h1
  h2 = h2
  raw = raw
  Data = {zero, h1, h2, raw}
  Zero = zero
  Corrupt = corrupt
  LZ4Size <- MCLZ4Size
  total_blocks = 4
  pages_per_block = 2
  num_lbas = 4
  Generators <- MCGenerators
  num_workloads = 3
  MaxReads = 1
INVARIANTS
  ReportBalances
  ReportedIsOnFlash
  ReadsDuringFlush
PROPERTIES
  FlushIsAtomic
CHECK_DEADLOCK FALSE
