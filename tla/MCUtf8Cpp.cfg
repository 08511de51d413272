SPECIFICATION Spec
CONSTANTS
  Inputs <- AllInputs
CHECK_DEADLOCK FALSE
INVARIANTS TypeOK FoundIsFirstInvalid JudgedByCodePoint
PROPERTY ImplementsValidation
