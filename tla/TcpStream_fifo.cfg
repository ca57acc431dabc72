SPECIFICATION FairSpec
CONSTANTS
  M = 32
  WndMod = 16
  Iss = 30
  Total = 5
  Mss = 2
  TcpWnd = 4
  SndBuf = 4
  NetSize = 3
  FinFits = TRUE
  MaxFaults = 2
INVARIANTS
  EveryByteQueuedOnce
  OoseqInOrder
  WindowsAreRoom
  RetransmissionArmed
PROPERTIES
  ImplementsStream
  RightEdgeNeverShrinks
  ArrivesOrStuck
CHECK_DEADLOCK FALSE
