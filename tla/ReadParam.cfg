SPECIFICATION FairSpec
CONSTANTS
  Char <- Characters
  Files <- SomeFiles
  MaxBuff = 64
INVARIANTS
  TypeOK
  RoundTrip
  BalancedIfAccepted
PROPERTIES
  ReaderEnds
CHECK_DEADLOCK FALSE
