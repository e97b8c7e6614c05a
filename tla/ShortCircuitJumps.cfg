CONSTANTS
  Inputs <- MCInputs
  ReuseFirst = TRUE
SPECIFICATION Spec
INVARIANTS
  Threaded
  Saturated
  UndefinedOnlyOnEmptyLoop
  ErrorOnlyOnMissingBlock
PROPERTIES
  Terminates
CHECK_DEADLOCK FALSE
