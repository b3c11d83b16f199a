\* November and December 2026: two expiries, the third after the year end.
CONSTANTS
  None = None
  FirstOfMonth <- MCFirstOfMonth
  FirstWeekday = 6
  FirstDay = 5
  LastDay = 55
  RollWindow = 5
  MinDte = 30
  MaxDte = 45
  TargetDelta = 30
  Multiplier = 100
  TargetDollars = 5250
  MinReturns = 21
  MinGarchReturns = 100
  Markets <- MCMarkets
SPECIFICATION HedgeSpec
INVARIANTS
  RollFollowsTheCalendar
  PutIsNearestUsable
  SizedToTheTarget
PROPERTIES
  ContractOnlyAdvances
