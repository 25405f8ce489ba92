SPECIFICATION FairSpec
CONSTANTS
  NCam = 3
INVARIANTS
  OwnObjectAlive
  CallbackTargetAlive
  CleanExit
PROPERTIES
  EndsTogether
CHECK_DEADLOCK FALSE
