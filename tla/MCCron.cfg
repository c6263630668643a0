\* One job, as jobs share nothing but the locked file. Two runs can overlap;
\* the clock passes a scheduled time; three edits add a job, change it
\* and remove it, or remove it and add it again, while runs are under way.
SPECIFICATION Spec
CONSTANTS
  Jobs = {j1}
  Threads = {t1, t2}
  MaxNow = 2
  MaxFaults = 1
  MaxEdits = 3
  MaxStops = 1
INVARIANTS TypeOK ArmedMatchesFile
PROPERTIES RemovedStaysRemoved QuietWhenDisabled ArmedJobRuns
CHECK_DEADLOCK FALSE
