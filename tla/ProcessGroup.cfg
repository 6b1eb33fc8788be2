SPECIFICATION FairSpec
CONSTANTS
  p1 = p1
  p2 = p2
  None = None
  Pid <- TwoRuns
CHECK_DEADLOCK FALSE
INVARIANTS
  SigKillHitsStoppedRunsOnly
  ShutdownKillsGroup
PROPERTIES
  EscalationReachesGroup
  ShutdownIsBounded
  PipesAreReleased
