CONSTANTS
  Files <- MCFiles
  Translations <- MCTranslations
  Variables = {1, 2, 3}
  Oracles <- MCOracles
  Deviating <- MCDeviating
SPECIFICATION Spec
INVARIANTS
  BlockedMeaningKept
  FinalMeaningKept
CHECK_DEADLOCK FALSE
