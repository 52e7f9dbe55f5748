SPECIFICATION Spec
CONSTANTS
  ActionTicks = 4
  RetreatTicks = 1
  ProjectileTicks = 2
  SettlingTicks = 2
  MaxAirTicks = 3
  MaxTurns = 3
  LeaseTicks = 2
  RefreshTicks = 1
  MaxIntents = 12
  MaxBarriers = 2
  MaxStitching = 3
  ShieldPoints = 1
  FirstThread <- Thread0
  ShotPrice = 2
  UtilityPrice = 2
  TurnCredit = 3
  MaxThread = 9
  DwellTicks = 1
  PlanTicks = 1
  Batch = 1
  Debt = 2
  Scenario <- Matches
INVARIANTS
  
  
  ReplayProves
PROPERTIES
  NoStaleInput
CHECK_DEADLOCK FALSE
