CONSTANTS
  a = a
  b = b
  x = x
  y = y
  Nobody = Nobody
  NoTx = NoTx
  Entitlement = {x, y}
  Committed = 2
  Worker = {a, b}
  MaxHeight = 4
  Window = 1
  MacroGap = 2
  LeaseCanDrop = FALSE
  CanFail = TRUE
  CanRevert = TRUE
  MaxCrashes = 1
SPECIFICATION Spec
INVARIANTS TypeOK ReviewedIsUnpaid PaidOnce
PROPERTY KeepsPayoutPromise
CHECK_DEADLOCK FALSE
