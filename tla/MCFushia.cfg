SPECIFICATION Spec
CONSTANTS
  Windows = {0, 8, 16, 32}
  Inputs <- AllInputs
CHECK_DEADLOCK FALSE
INVARIANTS TypeOK PosAtBoundary VerdictButOverlong
