SPECIFICATION Spec
CONSTANTS
  Algorithms = {"range", "basic", "zwegner"}
  STEP_SIZE = 8
  SIZE_MAX = 1000
  W = 4
  NUM_CHUNKS = 2
  Arch = "x86"
  Inputs <- SmallInputs
CHECK_DEADLOCK FALSE
INVARIANTS TypeOK ErrorIsExact DemandIsDue VerdictUpToCut
