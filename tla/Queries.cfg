CONSTANTS
  TableColumns = {"a", "b"}
  Args = {A1, A2}
  Names <- MCNames
  Values = {1, 2}
  Preparable <- MCPreparable
  Given <- MCGiven
  Selections <- MCSelections
  Findable <- MCFindable
  Databases <- MCDatabases
  Columns <- MCColumns
  RelationsOf <- MCRelationsOf
  MaxPrepared = 2
  MaxRuns = 1
SPECIFICATION Spec
INVARIANTS EveryPlaceholderBound GroupedLegally TreeReturned
CHECK_DEADLOCK FALSE
