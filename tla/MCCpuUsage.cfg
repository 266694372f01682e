CONSTANTS
  W = 6
  MaxTicks = 4
  Starts <- MCStarts
SPECIFICATION Spec
INVARIANTS
  UsageIsBusyShare
