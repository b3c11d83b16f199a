\* One script at a time: trades in both sleeves and snapshots of three days.
CONSTANTS
  stock = stock
  put = put
  operator = operator
  LongKeys = {stock}
  HedgeKeys = {put}
  Processes = {operator}
  Quantities = {1, 2}
  Prices = {1, 3}
  Fees = {1}
  InitialCapital = 10
  Null = Null
  MaxTrades = 3
  LastDate = 3
SPECIFICATION Spec
INVARIANTS
  TypeOK
  PositionsMatchLedger
  BooksBalance
  DailyPnlAddsUp
PROPERTY
  NavReconciles
