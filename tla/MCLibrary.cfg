SPECIFICATION Spec
CONSTANTS
  Unset = 256
  LZ4_hash4 <- Hash
  Slots <- HashSlots
  IndexLimit = 2800
  ReuseLimit = 90
  Scripts <- AllScripts
  Blocks <- BlockSet
  Damaged <- BlockDamaged
  Rooms <- BlockRooms
  Trailing <- Junk
CHECK_DEADLOCK FALSE
INVARIANTS
  LibraryInv
  EncoderInBounds
  TableBehind
  RoundTrip
  EndObeyed
  OutputFilled
  DecoderInBounds
  DecodedIsContent
  BlockDecodes
  PartialIsPrefix
