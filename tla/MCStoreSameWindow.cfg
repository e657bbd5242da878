SPECIFICATION Spec
CONSTANTS
  Key = {k1}
  Value = {v1, v2}
  None = None
  EntryLen <- UnitLen
  Writer = {w1}
  Reader = {}
  MemTableSize = 1
  Window = 4
  MaxWal = 3
  MaxCommits = 3
  MaxClock = 0
  MaxReopens = 1
  MaxStaleRestarts = 1
  MaxWalErrors = 0
  MaxOtherErrors = 0
SYMMETRY Symmetric
INVARIANTS
  CommittedUpdatesAreBacked
