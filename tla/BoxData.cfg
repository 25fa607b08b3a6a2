SPECIFICATION Spec
CONSTANTS
  Slots = {1, 2, 3, 4}
  Chans = {0, 1}
  Card <- MCCard
  Files <- MCFiles
  MaxFaults = 1
  OutValues = {0, 1, 5}
  MaxFrames = 2
  Steps = 3
  FirstStep = 2
CHECK_DEADLOCK FALSE
INVARIANTS TypeOK InputsAreFresh FrameOfTheStep
