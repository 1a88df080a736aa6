CONSTANTS
  Client = {c1, c2}
  Value = {Good, Charging, Empty}
  Charging = Charging
  Empty = Empty
  None = None
  MaxFd = 3
  Stops = FALSE
  Kills = FALSE
SPECIFICATION DaemonFairSpec
CHECK_DEADLOCK FALSE
PROPERTY ButtonHalts
