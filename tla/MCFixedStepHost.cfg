\* Time, commands and output queues: at most two ticks per frame, a u64 of 3, two
\* queued commands of one or two bytes, fair pumping and draining.
CONSTANTS
  Interval = 2
  MinElapsed = 1
  MaxElapsed = 4
  Significand = 64
  MaxQueuedCommands = 2
  MaxQueuedCommandBytes = 3
  MaxPendingFrames = 2
  MaxSnapshotBytes = 1
  MaxEventBytesPerTick = 1
  MaxQueuedPublications = 2
  MaxQueuedSnapshotBytes = 2
  MaxQueuedEventBatches = 3
  MaxQueuedEventBytes = 2
  U64Max = 3
  CommandLengths = {1, 2}
  Samples <- MCSamples
SPECIFICATION FairSpec
INVARIANTS
  TypeOK
  TimeLedger
  TickLedger
  CommandsExactlyOnce
  QueuesWithinLimits
PROPERTIES
  AdapterAdvancesInOrder
  ImplementsTickStream
  PendingFrameTaken
