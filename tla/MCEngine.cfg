\* Two workers and the watcher, three orders on one book; time stands still.
SPECIFICATION TimelessSpec
CONSTANTS
  a = a
  b = b
  x = x
  w1 = w1
  w2 = w2
  Symbols = {x}
  Clients = {a, b}
  Kinds = {"MARKET", "LIMIT", "STOP"}
  Prices = {1, 2}
  Quantities = {1, 2}
  MaxOrders = 3
  Workers = {w1, w2}
  Watcher = watcher
  Listed = {x}
  Requests <- ConcurrentRequests
  InitialCash = 3
  InitialHolding = 1
  InitialPrice = 1
  MaxTime = 0
INVARIANTS
  EngineTypeOK
  OneOwner
  NoTradeForgotten
  StopsAreTriggered
PROPERTIES
  DeadStaysDead
  SettlesEveryTradeOnce
  DueIsReleased
  CommandsReturn
