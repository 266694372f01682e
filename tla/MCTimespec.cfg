CONSTANTS
  NsecInSec = 4
  MsInSec = 2
  NsecInMs = 2
  UnsignedMod = 16
  Times <- SmallTimes
  Waits <- SmallWaits
SPECIFICATION TimeSpec
INVARIANTS
  AlarmIsExact
  TimeoutPointIsExact
  LowestIsOldest
