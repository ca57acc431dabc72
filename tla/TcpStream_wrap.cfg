SPECIFICATION Spec
CONSTANTS
  M = 32
  WndMod = 16
  Iss = 28
  Total = 5
  Mss = 1
  TcpWnd = 4
  SndBuf = 5
  NetSize = 3
  FinFits = TRUE
  MaxFaults = 1
PROPERTY ImplementsStream
CHECK_DEADLOCK FALSE
