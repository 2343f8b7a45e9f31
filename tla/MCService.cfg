SPECIFICATION ServiceSpec
CONSTANTS
  Task = {t1, t2}
  MaxDay = 3
  MaxInstances = 3
  Call = {c1, c2}
  Ttl = 2
  Timeout = 2
  MaxNow = 7
  Caller = {a1, a2}
  Deadline = 3
  TokenBudget = 2
  CostBudget = 3
  MaxAttempts = 2
  CircuitHold = 2
  MaxClock = 5
  MaxCalls = 3
SYMMETRY Interchangeable
INVARIANTS     CallsWithinBudget
 
CHECK_DEADLOCK FALSE
