SPECIFICATION Spec
CONSTANTS
  Char <- Characters
  Files <- Commented
  MaxBuff = 64
INVARIANTS
  CommentsRemoved
CHECK_DEADLOCK FALSE
