\* One job with callers, and two that are only registered: the second one
\* is active for ever, and the third makes the registry clean up.
SPECIFICATION Spec
CONSTANTS
  Jobs = {j1, j2, j3}
  Busy = {j1}
  Clients = {c1}
  Finishers = {f1, f2}
  Waiters = {w1}
  MaxTracked = 1
  MaxEvents = 2
  SubBuffer = 2
  MaxSeq = 3
  MaxReopens = 1
INVARIANTS TypeOK GapFreeDelivery NoStrandedSubscriber ReplayWindow WaitersWakeable
PROPERTIES TerminalFrozen SubscriptionsEnd ActiveNeverEvicted RegisterRestoresTarget
CHECK_DEADLOCK FALSE
