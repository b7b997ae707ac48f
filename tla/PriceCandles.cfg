CONSTANTS
  Quotes = {0, 1, 2}
  NoQuote = none
  Origin = 5
  Intervals = {1}
  Scale = 12
  QuoteSats = 6
  Traded = {"A"}
  Volumes = {3}
  Retention = 1
  Limit = 5
  MaxBlocks = 1
  MaxClock = 8
  MaxMined = 2
SPECIFICATION PricesSpec
INVARIANTS CandlesAreTrue
CHECK_DEADLOCK FALSE
