SPECIFICATION Spec
CONSTANTS
  Runner = {p1}
  N = 3
  Plans <- MixedPlans
  Overlapping = {}
  MaxRuns = 3
  MaxFaults = 2
  MaxCrashes = 1
INVARIANTS TypeOK RecordedInForce FailedMigrateLeavesNoTrace
  DownUndoesExactlyFromTarget
PROPERTIES LedgerImplemented
CHECK_DEADLOCK FALSE
