SPECIFICATION FairSpec
CONSTANTS
  Runner = {p1, p2}
  N = 2
  Plans <- TwoPlans
  Overlapping = {"migrate"}
  MaxRuns = 2
  MaxFaults = 1
  MaxCrashes = 1
INVARIANTS HeldInForce OneHolder
PROPERTIES EveryRunEnds
CHECK_DEADLOCK FALSE
