CONSTANTS
  a = a
  b = b
  x = x
  y = y
  Nobody = Nobody
  NoTx = NoTx
  Entitlement = {x}
  Committed = 2
  Worker = {a}
  MaxHeight = 4
  Window = 1
  MacroGap = 2
  LeaseCanDrop = FALSE
  CanFail = TRUE
  CanRevert = FALSE
  MaxCrashes = 0
SPECIFICATION FairSpec
PROPERTY FailedIsReviewed
CHECK_DEADLOCK FALSE
