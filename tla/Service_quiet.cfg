CONSTANTS
  Proc = {p1, p2, p3, p4}
  Inode = {i1, i2, i3}
  None = None
  PidReuse = FALSE
  Disciplined = TRUE
  Pins <- MCPins
  Off = "OFF"
  ReqOff = "REQ_OFF_B"
SYMMETRY MCSymmetry
SPECIFICATION ServiceSpec
CHECK_DEADLOCK FALSE
INVARIANTS Singleton CommandsStayCommands HaltJustified LoopHasPins
PROPERTIES PowerOffWorks
