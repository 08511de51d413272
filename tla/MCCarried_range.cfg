SPECIFICATION Spec
CONSTANTS
  Algorithms = {"range"}
  STEP_SIZE = 64
  SIZE_MAX = 1000
  W = 16
  NUM_CHUNKS = 4
  Arch = "arm64"
  Inputs <- FourByteInputs
CHECK_DEADLOCK FALSE
INVARIANT AcceptsOnlyLegal
