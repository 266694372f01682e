CONSTANTS
  Period = 4
  Wait = 16
  Allowed = 16
  Late = 1
  MaxPrint = 6
  MaxOutage = 0
  Spurious = {}
  ProcStatCapacity = 2
  UsageInfoCapacity = 1
SPECIFICATION Spec
INVARIANTS
  AlarmHasCause
