SPECIFICATION Spec
CONSTANTS
  Peer = {1, 5}
  MaxPid = 15
  MaxSeq = 15
  OverflowChecks = TRUE
  MaxWrites = 3
  MaxTime = 3
CHECK_DEADLOCK FALSE
INVARIANT
  LandsBetween
