CONSTANTS
  Worker = {"reader", "logger"}
  Allowed = 3
  LockWait = 1
SPECIFICATION FairSpec
INVARIANTS
  TypeOK
  LockDiscipline
  SleepsNoLonger
PROPERTIES
  NoEarlyAlarm
  StoppedIsNoticed
  KillEndsWatchdog
