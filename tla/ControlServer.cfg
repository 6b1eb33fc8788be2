SPECIFICATION ServerFairSpec
CONSTANTS
  c1 = c1
  c2 = c2
  c3 = c3
  c4 = c4
  Conn <- FourConns
  MaxConns = 2
  MaxStreaming = 1
CHECK_DEADLOCK FALSE

  
PROPERTIES
  OnlyCommandsTurnAway
  ConnsAreServed
  StopReturns
