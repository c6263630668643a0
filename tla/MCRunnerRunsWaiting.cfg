SPECIFICATION Spec
CONSTANTS
  Runs = {r1}
  Workers = {w1}
  Aborters = {a1}
  AppAborters = {}
  Resumers = {p1}
  MaxQueued = 1
  MaxPauses = 1
  MaxCrashes = 0
  MaxFaults = 1
PROPERTIES AbortReturns QueuedIsServed
CHECK_DEADLOCK FALSE
