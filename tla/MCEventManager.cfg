SPECIFICATION FairSpec
CONSTANTS
  MaxEvent = 3
  Frac = 2
  Devices <- MCDevices
  Delays = {2}
  Periods = {3}
  Steps = {1, 2}
  MaxClock = 3
  NULL = NULL
INVARIANTS
  TypeOK
  ListsPartitionSlots
  FireListIsTimely
  LoopsDoNotDrift
PROPERTIES
  EqualsFireInOrder
  ImplementsTimers
  UpdateTerminates
