SPECIFICATION Spec
CONSTANTS
  v = v
  w = w
  k1 = k1
  k2 = k2
  Wallet = {v, w}
  MaxJourney = 2
  MaxSpend = 2
  MaxTx = 2
  Call = {k1, k2}
  Ttl = 2
  MaxTime = 2
  None = None
SYMMETRY Symmetric
INVARIANTS TypeOK ReceiptIsEarned OneReceiptPerReturn ReturnIsHonoured
CHECK_DEADLOCK FALSE
