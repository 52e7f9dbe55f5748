CONSTANTS
  a = a
  b = b
  x = x
  y = y
  Nobody = Nobody
  NoTx = NoTx
  Entitlement = {x}
  Committed = 1
  Worker = {a, b}
  MaxHeight = 4
  Window = 1
  MacroGap = 2
  LeaseCanDrop = TRUE
  CanFail = FALSE
  CanRevert = FALSE
  MaxCrashes = 0
SPECIFICATION FairSpec
INVARIANTS OneTransaction FinalizedIsPaid
 
CHECK_DEADLOCK FALSE
