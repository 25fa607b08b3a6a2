SPECIFICATION Spec
CONSTANTS
  MaxPack = 2
  NMsg = 3
  Length <- PairLengths
  LimitedLength = 100
  LinkCap = 2
  MaxBurst = 2
  MaxLost = 2
INVARIANT WholeMessages
CHECK_DEADLOCK FALSE
