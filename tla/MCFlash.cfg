SPECIFICATION Spec
CONSTANTS
  Data = {zero}
  Zero = zero
  Corrupt = corrupt
  total_blocks = 2
  pages_per_block = 2
  Images <- MCImages
  MaxWear = 2
  MaxReads = 1
INVARIANTS
  InvalidCountExact
  ProgramsCoveredByErases
  WearCoversTelemetry
PROPERTY NoOverwrite
