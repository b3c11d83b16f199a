\* Two report dates three months apart; up to two concepts out of order.
CONSTANTS
  None = None
  Filings <- MCFilings
  PriceIndexes <- MCPriceIndexes
  Tolerance = 1
  Trailing = 4
SPECIFICATION Spec
CHECK_DEADLOCK FALSE
INVARIANTS
  NoSilentField
  SharesFromAnySource
  RatiosNeedNoExactDates
  DiagnosesAreTrue
