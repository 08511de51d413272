SPECIFICATION Spec
CONSTANTS
  Algorithms = {"zwegner"}
  STEP_SIZE = 64
  SIZE_MAX = 1000
  W = 16
  NUM_CHUNKS = 4
  Arch = "x86"
  Inputs <- CutInputs
CHECK_DEADLOCK FALSE
INVARIANT TooShortIsDetected
