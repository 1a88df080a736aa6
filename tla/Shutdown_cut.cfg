CONSTANTS
  None = None
  Interval = 1
  MaxBoots = 2
  MaxRestarts = 1
  MaxSetbacks = 1
  PidReuse = TRUE
SPECIFICATION FairSpec
CHECK_DEADLOCK FALSE
INVARIANTS TypeOK NoStranded KeptOneStart
PROPERTIES CleanCut ButtonCuts EmptyCuts
