SPECIFICATION Spec
CONSTANTS
  MaxEntities = 3
  MaxDepth = 1
  MaxQueued = 5
  MaxEventsPerTick = 4
  TickUnits = 2
  MapDefinitions <- MCMap
  Spawnable <- MCSpawnable
  Inputs <- MCInputs
  Delays <- MCDelays
  Emitted <- MCEmitted
  Names <- MCNames
  MaxTick = 2
  MaxPhases = 3
  MaxCommands = 2
INVARIANTS
  TypeOK
  LinksSound
  TimersAndRelaysArmed
PROPERTY
  ImplementsPhasedWorld
CHECK_DEADLOCK FALSE
