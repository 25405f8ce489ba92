SPECIFICATION Spec
CONSTANTS
  Cap = 1
  PktLens <- Shrinking
  MaxSize = 2
  MaxPkt = 4
INVARIANTS
  FrameIsWholePacket
