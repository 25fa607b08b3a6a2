SPECIFICATION FairSpec
CONSTANTS
  Phys <- TwoPhys
  Subs <- TwoSubs
  pcsubnet <- Shared
  MaxK = 1
  Cycle = 2
  MaxNT = 1
INVARIANTS TypeOK SimulateTogether
PROPERTIES EveryoneEnds
CHECK_DEADLOCK FALSE
