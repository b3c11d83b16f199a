\* One job and one score date, on a holiday, under fair scheduling: of the
\* market's days before it one is within the buffer and one is not.
SPECIFICATION FairSpec
CONSTANTS
  t1 = t1
  t2 = t2
  j1 = j1
  Tickers = {t1, t2}
  Prices = {0, 1}
  Jobs = {j1}
  Horizon = 1
  Buffer = 1
  TopNum = 9
  TopDen = 10
  ChunkSize = 1
  MaxRetries = 1
  LastDay = 4
  MarketDays = {0, 1, 4}
  ScoreDates = {2}
INVARIANTS LabelsAreTrue OutperformersDidBetter CompleteMeansStored
PROPERTIES EveryPairLabelled ImplementsStore
CHECK_DEADLOCK FALSE
