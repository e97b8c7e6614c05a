CONSTANT
  Listings <- MCListings
  Labels <- MCLabels
SPECIFICATION Spec
INVARIANTS
  ReadsDefined
  LabelsResolved
  AcceptedSelected
CHECK_DEADLOCK FALSE
