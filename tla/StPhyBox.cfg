SPECIFICATION Spec
CONSTANTS
  Tables <- MCTables
  CardAt <- MCCardAt
  Master = 0
  Ikt = 2
  Cycle = 3
  MaxK = 2
  MaxPosts = 2
  Steps = 2
CHECK_DEADLOCK FALSE
INVARIANTS TypeOK OutputsOfOneStep InputsFollowOutputs
PROPERTIES PhaseContinues AmplitudeContinues
