SPECIFICATION Spec
CONSTANTS
  Key = {k1, k2}
  Value = {v1, v2}
  None = None
  EntryLen <- UnitLen
  Writer = {w1, w2}
  Reader = {r1}
  MemTableSize = 2
  Window = 4
  MaxWal = 2
  MaxCommits = 2
  MaxClock = 1
  MaxReopens = 1
  MaxStaleRestarts = 0
  MaxWalErrors = 0
  MaxOtherErrors = 1
SYMMETRY Symmetric
INVARIANTS
  WritersBuildOnLatest
  ScansAgreeWithGets
  IdleLogIsClean
PROPERTIES
  CommitIsAtomic
  ImplementsSnapshotKV
