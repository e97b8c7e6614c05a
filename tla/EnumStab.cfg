SPECIFICATION FairSpec
CONSTANTS
  Declarations <- MCDeclarations
  ByteMax = 1
  ShortMax = 3
  IntMax = 7
  LongMax = 15
  Sizes = {1, 2, 3}
INVARIANTS
  ValuesDeclared
  RefusedForReason
  BackingHolds
PROPERTY
  Ends
CHECK_DEADLOCK FALSE
