SPECIFICATION FairSpec
CONSTANTS
  Key = {k1}
  Value = {v1}
  None = None
  EntryLen <- UnitLen
  Writer = {w1, w2}
  Reader = {}
  MemTableSize = 1
  Window = 4
  MaxWal = 2
  MaxCommits = 2
  MaxClock = 1
  MaxReopens = 1
  MaxStaleRestarts = 0
  MaxWalErrors = 1
  MaxOtherErrors = 1
PROPERTIES
  EveryBeginReturns
  LoggedCommitsBecomeVisible
