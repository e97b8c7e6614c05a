CONSTANTS
  Identifiers <- MCIdentifiers
  Globals <- MCGlobals
  Parameters <- MCParameters
  Bodies <- MCBodies
SPECIFICATION Spec
INVARIANTS
  GrammarAccepted
  ReadAsWritten
  UndefinedOnlyInRecovery
  ScopesRestored
  GetsOn
CHECK_DEADLOCK FALSE
