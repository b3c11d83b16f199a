\* Two tickers, one of them without CIK and prices at first; two calls a day,
\* and both failing in a row ends the run.
CONSTANTS
  t1 = t1
  t2 = t2
  Tickers = {t1, t2}
  MaxRetryCount = 1
  MaxConsecutiveFailures = 2
  StalenessDays = 0
  CooldownDays = 0
  DailyBudget = 2
  CallsPerTicker = 1
  GuiTickers = {t1}
  LateTickers = {t2}
  MaxLost = 1
SPECIFICATION FairSpec
INVARIANTS
  SpendsWithinBudget
  EveryRowComesBack
PROPERTIES
  ValuationReturns
  EveryTickerAttempted
