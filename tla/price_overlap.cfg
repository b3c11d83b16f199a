\* Two overlapping runs, one of them possibly left over from yesterday.
CONSTANTS
  t1 = t1
  t2 = t2
  r1 = r1
  r2 = r2
  yfinance = yfinance
  tiingo = tiingo
  Tickers = {t1, t2}
  Runs = {r1, r2}
  ActiveProvider = yfinance
  FallbackProvider = tiingo
  UsableProviders = {yfinance}
  MaxRetryCount = 2
  MaxConsecutiveFailures = 3
  CircuitThreshold = 1
  CooldownDays = 0
  DailyBudget = 1
  CallsPerTicker = 1
  MidnightsPerRun = 1
  GuiTickers = {t1}
  ChurnTickers = {}
SPECIFICATION Spec
INVARIANTS
  TypeOK
  NeverStranded
  OverspendIsBounded
SYMMETRY RunSymmetry
