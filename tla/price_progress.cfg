\* One run, both providers, the operator and a ticker that comes and goes.
CONSTANTS
  t1 = t1
  t2 = t2
  r1 = r1
  yfinance = yfinance
  tiingo = tiingo
  Tickers = {t1, t2}
  Runs = {r1}
  ActiveProvider = yfinance
  FallbackProvider = tiingo
  UsableProviders = {yfinance, tiingo}
  MaxRetryCount = 2
  MaxConsecutiveFailures = 3
  CircuitThreshold = 1
  CooldownDays = 1
  DailyBudget = 2
  CallsPerTicker = 1
  MidnightsPerRun = 1
  GuiTickers = {t1}
  ChurnTickers = {t2}
SPECIFICATION FairSpec
INVARIANT
  OutageIsContained
PROPERTY
  EveryTickerServed
