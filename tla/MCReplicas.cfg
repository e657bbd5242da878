SPECIFICATION Spec
CONSTANTS
  Peer = {1, 5}
  MaxPid = 15
  MaxSeq = 4
  OverflowChecks = FALSE
  MaxWrites = 4
  MaxTime = 4
CHECK_DEADLOCK FALSE
INVARIANTS
  TypeOK
  ReplacedStaysReplaced
  Converges
  LandsAfterPrevious
  LandsBeforeNext
  RunsDoNotInterleave
  IndicesCollideOnlyAtTheEnd
