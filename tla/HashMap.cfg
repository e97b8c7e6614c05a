SPECIFICATION MapFairSpec
CONSTANTS
  Keys = {1, 2, 3}
  Values = {v1, v2}
  NULL = NULL
  Unset = Unset
  InitCapacity = 2
  Hashes <- MCHashes
  Firsts = {0, 1}
  Seconds = {1, 2, 4}
PROPERTIES
  Implements
  Answered
