SPECIFICATION Spec
CONSTANTS
  Key <- Keys
  Value <- Values
  None = None
  EntryLen <- UnitLen
  Half = 2
  Time = {2}
  Entry <- Entries
  MaxRecords = 3
  MaxTorn = 2
INVARIANTS
  TypeOK
  BytesReplayLikeRecords
  OverflowLosesOnlyATail
