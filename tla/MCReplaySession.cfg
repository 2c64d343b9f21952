SPECIFICATION Spec
CONSTANTS
  Records <- MCRecords
  Rates <- MCRates
  Elapsed <- MCElapsed
  Families <- MCFamilies
  MaxRecords = 5
  CheckpointInterval = 2
  MaxSeekRecords = 2
  MaxCheckpoints = 4
  MaxEvents = 4
  MaxEventsPerTick = 3
  MaxStepTicks = 2
  TickInterval = 2
  Grain = 2
  MaxEarned = 12
  SnapshotPlaces <- MCPlaces
INVARIANTS
  TypeOK
  SeeksAreExact
  ClockLedger
PROPERTIES
  ImplementsTimeline
CHECK_DEADLOCK FALSE
