SPECIFICATION Spec
CONSTANTS
  MAX_SLOTS = 2
  CardType <- MCCardType
  MaxFaults = 1
  MaxFlight = 1
INVARIANTS
  StatusMeansSimulation
