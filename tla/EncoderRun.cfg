SPECIFICATION Spec
CONSTANTS
  Align = 4
  Geometries <- EvenMosaics
  fFrameIntvl = 4
  ClockRange = 7
  MaxWork = 4
  MaxTime = 9
INVARIANTS
  TilesInPlace
  OneByteOutside
  FramedWhereTilesMeet
  MarkInside
  NeverHeldBack
  NeverSpins
CHECK_DEADLOCK FALSE
