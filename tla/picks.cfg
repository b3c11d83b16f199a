\* A workflow and scripts run by hand, on a Friday and a Saturday: three more
\* runs after the Friday's Stage 4, one of them faulty.
CONSTANTS
  w1 = w1
  w2 = w2
  NoDate = NoDate
  Workflows = {w1, w2}
  Scripts = {w2}
  LastDay = 1
  MaxRuns = 5
  MaxFaults = 1
SPECIFICATION SpecFromStage5
INVARIANTS
  RerunsReplace
  OnlyMidnightStarves
  PicksAreOfOneDay
CHECK_DEADLOCK FALSE
