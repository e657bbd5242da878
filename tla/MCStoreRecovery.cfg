SPECIFICATION Spec
CONSTANTS
  Key = {k1, k2}
  Value = {v1, v2}
  None = None
  EntryLen <- UnitLen
  Writer = {w1}
  Reader = {}
  MemTableSize = 2
  Window = 4
  MaxWal = 3
  MaxCommits = 2
  MaxClock = 2
  MaxReopens = 2
  MaxStaleRestarts = 1
  MaxWalErrors = 0
  MaxOtherErrors = 1
SYMMETRY Symmetric
INVARIANTS
  TypeOK
  SessionSurvives
  RecoversOnlyCommitted
  LaterFlushesHaveGreaterNames
  TempFilesAreBounded
