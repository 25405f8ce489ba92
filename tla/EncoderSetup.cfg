SPECIFICATION FairSpec
CONSTANTS
  Packets <- AnyPacket
  MaxPackets = 2
INVARIANTS
  TypeOK
  MissedOnlyBehindZeros
  ReadyMeansUsable
  OnlyPacketLeaks
  ParameterSetsWhole
PROPERTIES
  ParsingEnds
CHECK_DEADLOCK FALSE
