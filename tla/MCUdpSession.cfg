SPECIFICATION FairSpec
CONSTANTS
  Slots = {s1, s2}
  NoSlot = NoSlot
  MaxSessions = 2
  MaxConns = 3
  BodyLen <- MCBodyLen
  Loads <- MCLoads
  OutFrame = 2
  SockBuf = 1
INVARIANTS WholeFrames MasksFit CountExact
PROPERTIES Delivered Disconnected
CHECK_DEADLOCK FALSE
