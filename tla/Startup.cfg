SPECIFICATION FairSpec
CONSTANTS
  MaxCol = 3
  MaxRow = 3
  FileKeys <- SomeKeys
  MaxLines = 3
  ArgLists <- Calls
INVARIANTS
  EverythingInForce
  AcceptedIffKnownAndCorrect
  ErrorNamesCulprit
  CamerasFitEncoder
PROPERTIES
  ReadingEnds
CHECK_DEADLOCK FALSE
