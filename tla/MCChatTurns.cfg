SPECIFICATION Spec
CONSTANTS
  MaxTurns = 2
  Asking = {1}
  MaxResumes = 1
  MaxFaults = 2
  MaxAborts = 1
INVARIANTS TypeOK TurnOwned AbortIsFinal RestAgrees
PROPERTIES TurnEnds
CHECK_DEADLOCK FALSE
