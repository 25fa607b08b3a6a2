SPECIFICATION FairSpec
CONSTANTS
  Layouts <- AllLayouts
  Boxes = {0, 1}
  Configs <- ShortConfigs
INVARIANTS
  TypeOK
  ValuesArrive
PROPERTY CommsFormed
CHECK_DEADLOCK FALSE
