SPECIFICATION FairSpec
CONSTANTS
  Phys <- TwoPhys
  Sims <- TwoSims
  SimProc <- Shared
  BoxCount <- Boxes
  NSteps = 3
  StartStep = 2
  SEC = 10
  Phases = {0, 9}
INVARIANTS TypeOK StepsAreNotMixed NothingLeftUnread StartsWithinSecond
PROPERTIES EveryoneEnds
CHECK_DEADLOCK FALSE
