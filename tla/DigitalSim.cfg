SPECIFICATION FairSpec
CONSTANTS
  NumSubnet = 2
  NumBox = 2
  HasAO <- WithAO
  HasDO <- WithDO
  NumAI = 2
  NumDI = 1
  Ikt = 2
  Faults <- AnyFault
  MaxStep = 2
  MaxInput = 2
INVARIANTS
  SimulateTogether
  FramesOfOneStep
  SameInputs
  LagsByOneAtMost
  InputsNeverGoBack
PROPERTY EndsTogether
CHECK_DEADLOCK FALSE
