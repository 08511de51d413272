SPECIFICATION Spec
CONSTANTS
  val <- FewDraws
  Callers = {"unit", "benchstream"}
  UnitBytes = {0, 2}
  Sizes = {1, 2, 3}
  MaxFlips = 2
CHECK_DEADLOCK FALSE
INVARIANTS TypeOK GeneratedIsWellFormed AbortsOnlyOnOverlong CutAtBoundary
PROPERTY Terminates
