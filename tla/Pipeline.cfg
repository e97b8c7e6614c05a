CONSTANTS
  Files <- MCFiles
  Translations <- MCTranslations
  Deviating <- MCDeviating
  ReuseFirst = TRUE
SPECIFICATION PipelineSpec
INVARIANTS
  InputsOK
  UndefinedOnlyIfShared
  RemovedNeverRead
  TargetsKept
  TargetsExist
PROPERTIES
  Implements
  Terminates
CHECK_DEADLOCK FALSE
