SPECIFICATION Spec
CONSTANTS
  ChanCap = 1
  MergedCap = 1
  BufRing = 5
  History = 2
  MaxLines = 7
CHECK_DEADLOCK FALSE
INVARIANTS
  NoTornLine
PROPERTIES
  ShownOnceInOrder
