CONSTANTS
  Files <- LogicalFiles
  Translations <- MCTranslations
  Variables = {1, 2, 3}
  Oracles <- MCOracles
  Deviating = {}
SPECIFICATION Spec
INVARIANTS
  LogicalOperatorsStandard
CHECK_DEADLOCK FALSE
