SPECIFICATION SpecNoTick
CONSTANTS
  Runs = {r1, r2}
  Workers = {w1}
  Aborters = {}
  AppAborters = {}
  Resumers = {}
  MaxQueued = 2
  MaxPauses = 0
  MaxCrashes = 0
  MaxFaults = 0
PROPERTIES QueuedIsServed RunningEnds
CHECK_DEADLOCK FALSE
