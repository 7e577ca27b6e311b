SPECIFICATION Spec
CONSTANTS
  Runner = {p1}
  N = 2
  Plans <- DefaultPlans
  Overlapping = {}
  MaxRuns = 2
  MaxFaults = 1
  MaxCrashes = 0
INVARIANTS AnnouncedRollbackHappens
CHECK_DEADLOCK FALSE
