CONSTANTS
  Name <- MCName
  BootFiles <- MCBootFiles
  Files <- MCFiles
  Client = {1, 2}
  MaxGen = 2
  MaxEvents = 3
SPECIFICATION Spec
INVARIANTS
  CurrentOrStopped
  
  
  AwaitedRunsAreStopped
CHECK_DEADLOCK FALSE
