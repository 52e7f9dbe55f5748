SPECIFICATION FairSpec
CONSTANTS
  r1 = r1
  r2 = r2
  k1 = k1
  k2 = k2
  k3 = k3
  p1 = p1
  p2 = p2
  Call = {k1, k2, k3}
  Process = {p1, p2}
  ProcessOf <- TwoAndOne
  Clients = 1
  Request = {r1, r2}
  Expires <- Lifetimes
  DayLength = 1
  Limit = 1
  MaxTime = 1
  MaxSigned = 2
  None = None
INVARIANTS TypeOK SentIsBooked BudgetKept
PROPERTIES EveryCallEnds
CHECK_DEADLOCK FALSE
