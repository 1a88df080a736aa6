CONSTANTS
  Proc = {p1, p2, p3}
  Inode = {i1, i2, i3}
  None = None
  PidReuse = FALSE
  Disciplined = FALSE
  Pins <- MCPins
  Off = "OFF"
  ReqOff = "REQ_OFF_B"
SYMMETRY MCSymmetry
SPECIFICATION ScriptSpec
CHECK_DEADLOCK FALSE
INVARIANT HaltJustified
