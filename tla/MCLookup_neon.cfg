SPECIFICATION Spec
CONSTANTS
  Algorithms = {"lookup2", "lookup3", "lookup4"}
  STEP_SIZE = 64
  SIZE_MAX = 1000
  W = 16
  NUM_CHUNKS = 4
  Arch = "arm64"
  Inputs <- WideInputs
CHECK_DEADLOCK FALSE
INVARIANTS ErrorIsExact OverlapCaughtElsewhere VerdictCorrect
PROPERTY ImplementsValidation
