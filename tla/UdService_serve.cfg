CONSTANTS
  Client = {c1, c2, c3}
  Value = {Good, Charging, Empty}
  Charging = Charging
  Empty = Empty
  None = None
  MaxFd = 4
  Stops = FALSE
  Kills = FALSE
SPECIFICATION FairSpec
CHECK_DEADLOCK FALSE
INVARIANTS HaltJustified DaemonSurvives
PROPERTIES OffObeyed Answered ButtonHalts
