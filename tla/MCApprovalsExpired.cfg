\* One call, made again after its request has expired.
SPECIFICATION Spec
CONSTANTS
  Callers = {c1}
  Operators = {o1}
  Subjects = {s1}
  LowRisk = {}
  MaxRequests = 2
  MaxNow = 2
  PendingTTL = 1
  TokenTTL = 1
INVARIANTS ExpiredIsReplaced
CHECK_DEADLOCK FALSE
