SPECIFICATION Spec
CONSTANTS
  SMALL = 32
  Validators <- AllValidators
  Inputs <- AllInputs
CHECK_DEADLOCK FALSE
INVARIANTS TypeOK PartsOnTrack VerdictCorrect DfaAcceptsPrefixes
PROPERTY Terminates
