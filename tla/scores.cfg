\* Three tickers of two sectors, two Mondays, a run of the cron or the GUI, and
\* one fault.
SPECIFICATION FairScoringSpec
CONSTANTS
  t1 = t1
  t2 = t2
  t3 = t3
  Tickers = {t1, t2, t3}
  Sector <- MCSector
  EnoughOn <- MCEnoughOn
  Reports <- MCReports
  Drops <- MCDrops
  FirstDate = 0
  Mondays = {0, 1}
  LastDate = 1
  MaxRegular = 1
  MaxBackfills = 3
  MaxFaults = 1
CHECK_DEADLOCK FALSE
INVARIANTS OneCompletePerDate PeersAreComparable
PROPERTIES EveryMondayScored FailureStaysVisible
