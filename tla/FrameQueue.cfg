SPECIFICATION FairSpec
CONSTANTS
  Cap = 3
  PktLens <- TwoLengths
  MaxSize = 2
  MaxPkt = 6
INVARIANTS
  NoAliasing
  FetchFindsPacket
PROPERTIES
  FrameStableWhileRead
  ImplementsFifo
  ClientServed
