CONSTANTS
  MaxTransitions = 2
  MaxAttempts = 1
  Budget = 2
  MaxSwitches = 2
  MaxToggles = 2
  MaxTicks = 2
SPECIFICATION FairSpec
INVARIANTS
  TypeOK
  PresentationSound
PROPERTIES
  FailuresAreReal
  ReplacementEnds
CHECK_DEADLOCK FALSE
