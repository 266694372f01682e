CONSTANTS
  Processor <- MCProcessor
  OtherLines = 1
  LineLength = 10
  BufferLength = 45
  MaxLines = 5
SPECIFICATION Spec
INVARIANTS
  UsageIsOfOneProcessor
  UndefinedOnlyIfCut
