SPECIFICATION Spec
CONSTANTS
  zero = zero
  h1 = h1
  h2 = h2
  raw = raw
  mid = mid
  Data = {zero, h1, h2, raw}
  Zero = zero
  Corrupt = corrupt
  LZ4Size <- MCLZ4Size
  total_blocks = 3
  pages_per_block = 2
  num_lbas = 2
INVARIANT ReserveHeldFree
