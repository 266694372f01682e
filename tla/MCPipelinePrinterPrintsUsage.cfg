CONSTANTS
  ProcStatCapacity = 1
  UsageInfoCapacity = 1
  MaxSamples = 3
SPECIFICATION Spec
INVARIANT PrinterPrintsUsage
