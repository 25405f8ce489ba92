SPECIFICATION Spec
CONSTANTS
  MaxCol = 3
  MaxRow = 3
  FileKeys <- WideKeys
  MaxLines = 2
  ArgLists <- NoArgs
INVARIANTS
  SlotForEveryCamera
CHECK_DEADLOCK FALSE
