SPECIFICATION Spec
CONSTANTS
  MaxSize = 2
  MaxFiles = 3
  MaxLines = 11
  MaxFaults = 3
CHECK_DEADLOCK FALSE
INVARIANTS
  NumbersAreAges
  RetainsMaxFiles
