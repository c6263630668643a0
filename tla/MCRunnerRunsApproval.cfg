SPECIFICATION Spec
CONSTANTS
  Runs = {r1}
  Workers = {w1}
  Aborters = {a1}
  AppAborters = {}
  Resumers = {p1, p2}
  MaxQueued = 1
  MaxPauses = 2
  MaxCrashes = 1
  MaxFaults = 0
SYMMETRY Symmetry
INVARIANTS OneExecution FinishedJobMatchesRow RunningRowOwned ReconcileOnlyOrphans
PROPERTIES Lifecycle
CHECK_DEADLOCK FALSE
