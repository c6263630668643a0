\* Two runs that share the server and may each start one, and a replacement
\* after a crash, a clean-up or a Stop.
SPECIFICATION Spec
CONSTANTS
  Runs = {r1, r2}
  Askers = {r1}
  MaxServers = 2
  MaxFaults = 1
  MaxAsks = 2
INVARIANTS TypeOK
PROPERTIES CleanupSparesHealthy ServersReclaimed CallsReturn
CHECK_DEADLOCK FALSE
