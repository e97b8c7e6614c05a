CONSTANTS
  Inputs <- MCInputs
SPECIFICATION Spec
INVARIANTS
  UnlinkingInStep
  CrashOnlyOnDanglingJump
  KeptClosed
  DataKept
  MarkedForAReason
CHECK_DEADLOCK FALSE
