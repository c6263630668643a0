SPECIFICATION SpecEvicting
CONSTANTS
  MaxTurns = 1
  Asking = {1}
  MaxResumes = 1
  MaxFaults = 0
  MaxAborts = 0
INVARIANTS NoTurnFalselyRunning
CHECK_DEADLOCK FALSE
