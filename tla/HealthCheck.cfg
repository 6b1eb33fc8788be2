SPECIFICATION FairSpec
CONSTANTS
  chk = chk
  gate = gate
  p1 = p1
  p2 = p2
  None = None
  Checker <- Checks
  Gate <- Gates
  Pid <- Pids
  Threshold = 2
CHECK_DEADLOCK FALSE
INVARIANTS
  VerdictIsTrue
  IdleLoopIsWoken
PROPERTIES
  AlarmsAreEdges
  ProbesEnd
