SPECIFICATION FairSpec
CONSTANTS
  s1 = s1
  s2 = s2
  k1 = k1
  k2 = k2
  k3 = k3
  None = None
  Session <- Sessions
  Socket = {k1, k2}
  Token <- Tokens
  MaxSessions = 2
  Ttl = 2
  Grace = 1
  Recovery = 1
INVARIANTS
  TypeOK
  IndexesAgree
  LostAnswerRecoverable
PROPERTIES
  DeadTransportEnds
