SPECIFICATION FairSpec
CONSTANTS
  HoursPerDay = 4
  MinutesPerHour = 2
  Zone <- Fixed
  Exprs <- AllExprs
  Boots <- AllBoots
  MaxTicks = 2
  MaxDelay = 2
CHECK_DEADLOCK FALSE
PROPERTIES
  
  StoppedRunnersEnd
