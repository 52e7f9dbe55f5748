CONSTANTS
  a = a
  b = b
  x = x
  y = y
  Nobody = Nobody
  NoTx = NoTx
  Entitlement = {x}
  Committed = 2
  Worker = {a, b}
  MaxHeight = 4
  Window = 1
  MacroGap = 2
  LeaseCanDrop = TRUE
  CanFail = FALSE
  CanRevert = FALSE
  MaxCrashes = 0
SPECIFICATION Spec
INVARIANT PaidOnce
CHECK_DEADLOCK FALSE
