\* Two racing calls and an operator. The clock reaches the instant at which
\* a request and a token expire, and the one after it.
SPECIFICATION Spec
CONSTANTS
  Callers = {c1, c2}
  Operators = {o1}
  Subjects = {s1, s2}
  LowRisk = {s2}
  MaxRequests = 2
  MaxNow = 2
  PendingTTL = 1
  TokenTTL = 1
INVARIANTS TypeOK TokenOnce TokenBacked SharedRequest
PROPERTIES ResolvedOnce
CHECK_DEADLOCK FALSE
