SPECIFICATION Spec
CONSTANTS
  Field <- Fields
  Index <- Indices
  Malformed <- Truncations
  Chunk = {258}
  Pid = {7}
  MaxLength = 12
  MaxKeys = 2
  MaxSegments = 2
  MaxFrames = 2
CHECK_DEADLOCK FALSE
INVARIANTS
  TypeOK
  RoundTrips
  PrefixScansFindDescendants
  KeysSortLikeIndices
  OvershootIsBounded
  TooLongIsCumulative
