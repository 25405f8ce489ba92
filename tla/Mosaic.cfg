SPECIFICATION FairSpec
CONSTANTS
  NPict = 3
  Cams <- OuterCams
  MaxFrame = 3
INVARIANTS
  NoAliasing
  SentPictureWhole
PROPERTIES
  ImplementsMailbox
  PictureNotHeldUp
  LastFrameShown
CHECK_DEADLOCK FALSE
