CONSTANTS
  Client = {c1, c2, c3}
  Value = {Good, Charging, Empty}
  Charging = Charging
  Empty = Empty
  None = None
  MaxFd = 2
  Stops = TRUE
  Kills = TRUE
SPECIFICATION Spec
SYMMETRY MCSymmetry
CHECK_DEADLOCK FALSE
INVARIANTS TypeOK ServiceInv AnswerTrue OffRequested HaltExplained
PROPERTIES KeepsPromise
