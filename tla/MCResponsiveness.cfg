CONSTANTS
  Period = 4
  Wait = 16
  Allowed = 16
  Late = 1
  MaxPrint = 1
  MaxOutage = 1
  Spurious <- MCSpurious
  ProcStatCapacity = 2
  UsageInfoCapacity = 1
SPECIFICATION Spec
INVARIANTS
  TypeOK
  AlarmHasCause
  NoticedInTime
  StopsInTime
  ScreenIsFresh
