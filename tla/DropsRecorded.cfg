CONSTANTS
  Identifiers <- MCIdentifiers
  Globals <- MCGlobals
  Parameters <- MCParameters
  Bodies <- MCBodies
SPECIFICATION Spec
INVARIANT DropsRecorded
CHECK_DEADLOCK FALSE
