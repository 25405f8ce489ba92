SPECIFICATION Spec
CONSTANTS
  NCam = 1
INVARIANTS
  EncoderOutlivesCalls
CHECK_DEADLOCK FALSE
