CONSTANTS
  ProcStatCapacity = 2
  UsageInfoCapacity = 1
  MaxSamples = 5
SPECIFICATION FairSpec
INVARIANTS
  TypeOK
  LockDiscipline
  NoMissedWakeup
  SamplesInOrder
PROPERTIES
  UsageContiguous
  ScreenMovesForward
  ImplementsFeed
  KillStopsAll
