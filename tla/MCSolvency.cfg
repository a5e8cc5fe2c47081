\* Two workers, three orders and one tick; each client can afford one order of a
\* side.
SPECIFICATION WatchedSpec
CONSTANTS
  a = a
  b = b
  x = x
  y = y
  w1 = w1
  w2 = w2
  Symbols = {x, y}
  Clients = {a, b}
  Kinds = {"MARKET", "LIMIT", "STOP", "LIMIT_STOP"}
  Prices = {1, 2}
  Quantities = {1, 2}
  MaxOrders = 3
  Workers = {w1, w2}
  Watcher = watcher
  Listed = {x}
  Requests <- TightRequests
  InitialCash = 3
  InitialHolding = 1
  InitialPrice = 1
  MaxTime = 1
INVARIANTS
  Solvent
  OnTime
