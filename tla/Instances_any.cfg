CONSTANTS
  Proc = {p1, p2, p3}
  Inode = {i1, i2, i3}
  None = None
  PidReuse = TRUE
  Disciplined = FALSE
  Pins <- MCPins
  Off = "OFF"
  ReqOff = "REQ_OFF_B"
SYMMETRY MCSymmetry
SPECIFICATION Spec
CHECK_DEADLOCK FALSE
INVARIANTS TypeOK LockInv SingletonOnPath PidFileNamesDaemon
PROPERTIES KeepsPromise
