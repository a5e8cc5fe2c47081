\* A restart; writing the file never fails.
CONSTANTS
  Names = {u, v}
  Connections = {c1, c2}
  Symbols = {x}
  Prices = {1}
  InitialCash = 2
  InitialHolding = 1
  InitialPrice = 1
  MaxClients = 2
  MaxTrades = 0
  MaxStarts = 2
  DiskFails = FALSE
SPECIFICATION Spec
INVARIANTS
  RestartKeepsMoney
CHECK_DEADLOCK FALSE
