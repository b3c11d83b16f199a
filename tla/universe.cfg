\* One sync process against the operator, the backfills and the feeds.
CONSTANTS
  aapl = aapl
  spy = spy
  sp500 = sp500
  russell1000 = russell1000
  job = job
  Tickers = {aapl, spy}
  Sources = {sp500, russell1000}
  Syncs = {job}
  Spy = spy
  OneFeed = TRUE
SPECIFICATION Spec
INVARIANT
  LogReplays
PROPERTY
  ManualStaysUntilListed
