SPECIFICATION Spec
CONSTANTS
  X = X
  MAX_BLOCK_SIZE = 300
  BlockSet <- AllBlocks
  ProducerGaps = FALSE
  ConsumerStalls = FALSE
  MaxBlocks = 2
  ResetWithin = 24
  MaxResets = 1
INVARIANTS
  BlockDelivered
  WindowHoldsOutput
  CoreInv
PROPERTY EveryBlockCompletes
