CONSTANTS
  None = None
  Interval = 1
  MaxBoots = 2
  MaxRestarts = 1
  MaxSetbacks = 1
  PidReuse = TRUE
SPECIFICATION Spec
CHECK_DEADLOCK FALSE
INVARIANT PreviousBootKept
