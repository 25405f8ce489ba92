SPECIFICATION FairSpec
CONSTANTS
  Inputs <- SomeInputs
  MaxPicture = 2
INVARIANTS
  ReadyMeansUsable
  FreedWhenDeleted
  OwnPacketsReturned
  NoneRefused
PROPERTIES
  StopsWhenTold
CHECK_DEADLOCK FALSE
