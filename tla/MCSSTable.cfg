SPECIFICATION Spec
CONSTANTS
  Key <- Keys
  Value <- Values
  Prefix <- ScanPrefixes
  LastByte = 2
  BLOCK_SIZE = 22
  PREFIX_RESET_INTERVAL = 2
  BLOOM_HASH_COUNT = 3
  h1 <- Hash1
  h2 <- Hash2
CHECK_DEADLOCK FALSE
INVARIANTS
  TypeOK
  GetsReturnWhatWasAdded
  ScansReturnEveryMatch
  FlushKeepsScans
