\* Three maps, a time of waiting, rounds and bonus times of a few ticks.
SPECIFICATION FairSpec
CONSTANTS
  Modes <- MCModes
  WaitingTicks = 2
  PreroundTicks = 1
  BonusTicks = 1
  ThinkTicks = 1
  GraceTicks = 0
  Second = 2
  ScoreMax = 1
  MaxDebt = 1
INVARIANTS
  TypeOK
PROPERTIES
  PhasesEnd
  ImplementsRoundCycle
