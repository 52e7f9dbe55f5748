CONSTANTS
  w1 = w1
  w2 = w2
  e1 = e1
  e2 = e2
  e3 = e3
  None = None
  Wallet = {w1, w2}
  Entitlement = {e1, e2, e3}
  Receipt = {1, 2, 3}
  IdempotencyKey = {1, 2}
  Day = {0, 1}
  DayOf <- TwoDays
  MaxTime = 2
  RewardLuna = 2
  DailyBudgetLuna = 5
  AttemptLimit <- Limits
  MaxReservations = 2
  ReservationTtl = 2
  ClaimTtl = 1
  PeiRequired = TRUE
SPECIFICATION Spec
INVARIANTS TypeOK BudgetConserved  OneOpenAttempt AttemptsNumbered ReceiptBacksOneStart ClaimsMatchPayouts
PROPERTIES KeepsPrizeLoom
SYMMETRY Ids
CHECK_DEADLOCK FALSE
