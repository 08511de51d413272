SPECIFICATION Spec
CONSTANTS
  STEP_SIZE = 64
  SIZE_MAX = 511
  Inputs <- AllLengths
CHECK_DEADLOCK FALSE
INVARIANTS TypeOK CopiesInBounds DeliveredInOrder
PROPERTIES CursorGrows Terminates
