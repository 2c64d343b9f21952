\* Binary32 rounding: three-bit significands, so that 10 - 1 rounds to 8.
CONSTANTS
  Interval = 10
  MinElapsed = 1
  MaxElapsed = 20
  Significand = 8
  MaxQueuedCommands = 1
  MaxQueuedCommandBytes = 1
  MaxPendingFrames = 2
  MaxSnapshotBytes = 1
  MaxEventBytesPerTick = 1
  MaxQueuedPublications = 2
  MaxQueuedSnapshotBytes = 2
  MaxQueuedEventBatches = 3
  MaxQueuedEventBytes = 2
  U64Max = 4
  CommandLengths = {}
  Samples <- MCTwoSamples
SPECIFICATION Spec
PROPERTIES
  ReversalReachesNextTick
