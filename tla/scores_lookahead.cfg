\* The instance of scores.cfg, on its second date: the backfill's runs alone.
SPECIFICATION ScoringSpec
CONSTANTS
  t1 = t1
  t2 = t2
  t3 = t3
  Tickers = {t1, t2, t3}
  Sector <- MCSector
  EnoughOn <- MCEnoughOn
  Reports <- MCReports
  Drops <- MCDrops
  FirstDate = 1
  Mondays = {0, 1}
  LastDate = 1
  MaxRegular = 0
  MaxBackfills = 3
  MaxFaults = 1
CHECK_DEADLOCK FALSE
INVARIANT PointInTime
