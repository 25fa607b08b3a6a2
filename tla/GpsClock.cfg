SPECIFICATION ClockSpec
CONSTANTS
  US = 8
  MS = 3
  WORD = 64
  HIGH = 48
  FRAC = 2
  DT = 7
  MaxStale = 2
  MaxWork = 3
  NStep = 8
INVARIANTS
  NeverAhead
  InPhase
  StartsWithSecond
PROPERTIES
  StepTimeIsTrue
