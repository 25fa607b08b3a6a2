SPECIFICATION GrpSpec
CONSTANTS
  MAX_SLOTS = 3
  MAX_CHANS = 1
  MAX_GRP_CFGS = 2
  Named <- MCNamed
  Words = {0, 1}
  MaxList = 3
INVARIANTS GrpTypeOK GroupsDisjoint
PROPERTIES GroupsKeepTheirs
