CONSTANTS
  Starts <- MCStarts
  Beside <- MCBeside
  Patterns <- MCPatterns
  Conditions <- MCConditions
  Orders <- MCOrders
  Overs <- MCOvers
  MaxUses = 1
SPECIFICATION Spec
INVARIANTS MeansWhatWasBuilt KnowsItself ResultHasItsType
CHECK_DEADLOCK FALSE
