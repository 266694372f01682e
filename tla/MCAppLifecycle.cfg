CONSTANTS
  Fallible <- Buffer
SPECIFICATION FairSpec
INVARIANTS
  UsedWhileAlive
  ReleasedAtEnd
PROPERTIES
  EndsInTheEnd
