SPECIFICATION Spec
CONSTANTS
  Thread = {t1, t2, t3}
  Clock <- SmallClock
  Remote <- SmallRemote
  Window = 4
  Modulus = 16
  OverflowChecks = TRUE
CHECK_DEADLOCK FALSE
SYMMETRY Symmetric
INVARIANTS
  TypeOK
  KnownIsBounded
PROPERTIES
  TimestampsIncrease
  CounterNeverDrops
