SPECIFICATION Spec
CONSTANTS
  val <- FewDraws
  Callers = {"unit"}
  UnitBytes = {1}
  Sizes = {}
  MaxFlips = 1
CHECK_DEADLOCK FALSE
INVARIANT NeverAborts
