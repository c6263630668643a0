SPECIFICATION Spec
CONSTANTS
  Runs = {r1}
  Workers = {w1}
  Aborters = {}
  AppAborters = {b1}
  Resumers = {}
  MaxQueued = 1
  MaxPauses = 1
  MaxCrashes = 0
  MaxFaults = 0
INVARIANTS AckedAbortSettles
CHECK_DEADLOCK FALSE
