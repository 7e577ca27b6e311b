SPECIFICATION Spec
CONSTANTS
  a = a
  b = b
  c = c
  N = 4
  Object = {a, b, c}
  Custom = {c}
  Histories <- Mixed
  OneByOne = FALSE
  MaxRuns = 2
  MaxStops = 1
INVARIANTS SchemaPreserved RecordsTellDatabase StillDeployable
  RefusalChangesNothing OutsideUntouched FoldersFirst
CHECK_DEADLOCK FALSE
