CONSTANT Signatures <- MCSignatures
SPECIFICATION Spec
INVARIANTS
  ArgumentsArrive
  ResultArrives
  StackKept
  CallsAccepted
CHECK_DEADLOCK FALSE
