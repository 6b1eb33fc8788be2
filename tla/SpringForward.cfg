SPECIFICATION Spec
CONSTANTS
  HoursPerDay = 4
  MinutesPerHour = 2
  Zone <- West
  Exprs <- DailyExprs
  Boots <- SpringBoots
  MaxTicks = 4
  MaxDelay = 1
CHECK_DEADLOCK FALSE
INVARIANT SearchAdvances
