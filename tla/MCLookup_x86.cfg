SPECIFICATION Spec
CONSTANTS
  Algorithms = {"lookup2", "lookup3", "lookup4"}
  STEP_SIZE = 6
  SIZE_MAX = 1000
  W = 3
  NUM_CHUNKS = 2
  Arch = "x86"
  Inputs <- SmallInputs
CHECK_DEADLOCK FALSE
INVARIANTS TypeOK ErrorIsExact ContextIsCurrent VerdictDecodes
