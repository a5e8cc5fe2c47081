\* Two users on two connections; the program is started twice, and writing the
\* file may fail.
CONSTANTS
  Names = {u, v}
  Connections = {c1, c2}
  Symbols = {x}
  Prices = {1}
  InitialCash = 2
  InitialHolding = 1
  InitialPrice = 1
  MaxClients = 2
  MaxTrades = 1
  MaxStarts = 2
  DiskFails = TRUE
SPECIFICATION Spec
INVARIANTS
  IdsAreUnique
  CashIsBacked
  FileIsWhole
  AnsweredIsDurable
SYMMETRY Interchangeable
\* The program may have been started and stopped for good.
CHECK_DEADLOCK FALSE
