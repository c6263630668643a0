SPECIFICATION Spec
CONSTANTS
  Runs = {r1}
  Workers = {w1, w2}
  Aborters = {a1}
  AppAborters = {b1}
  Resumers = {}
  MaxQueued = 1
  MaxPauses = 1
  MaxCrashes = 1
  MaxFaults = 0
SYMMETRY Symmetry
INVARIANTS TypeOK AbortSettles AbortStopsExecution
CHECK_DEADLOCK FALSE
