SPECIFICATION FairSpec
CONSTANTS
  s1 = s1
  s2 = s2
  c1 = c1
  c2 = c2
  None = None
  Session <- TheSession
  Challenge <- TheChallenge
  MaxFaults = 1
  MaxCrashes = 1
INVARIANTS
  TypeOK
  InProgressIsOwned
  MatchIsBacked
  LedgerAgrees
PROPERTIES
  MatchesClose
