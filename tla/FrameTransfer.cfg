SPECIFICATION FairSpec
CONSTANTS
  MaxPack = 2
  NMsg = 5
  Length <- SomeLengths
  LimitedLength = 5
  LinkCap = 3
  MaxBurst = 2
  MaxLost = 4
INVARIANTS
  WholeMessages
  LossBudget
PROPERTIES
  ImplementsTransfer
  AllArrive
CHECK_DEADLOCK FALSE
