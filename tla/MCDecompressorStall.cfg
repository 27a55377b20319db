SPECIFICATION Spec
CONSTANTS
  X = X
  MAX_BLOCK_SIZE = 24
  BlockSet <- ShortBlocks
  ProducerGaps = FALSE
  ConsumerStalls = TRUE
  MaxBlocks = 1
  ResetWithin = 24
  MaxResets = 0
INVARIANT BlockDelivered
