\* Three orders of one or two shares at two prices, one book.
SPECIFICATION BookSpec
CONSTANTS
  Symbols = {s1}
  Clients = {c1}
  Kinds = {"MARKET", "LIMIT"}
  Prices = {1, 2}
  Quantities = {1, 2}
  MaxOrders = 3
INVARIANTS
  BookTypeOK
  NeverCrossed
  TradesHonourLimits
  QuantityConserved
PROPERTIES
  PriceTimePriority
  MatchIsAtomic
CHECK_DEADLOCK FALSE
