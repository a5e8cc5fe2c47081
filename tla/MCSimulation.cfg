\* A market maker that quotes twice, a noise trader with a stop and a momentum bot on one book.
SPECIFICATION Spec
CONSTANTS
  noise = noise
  momentum = momentum
  mm = mm
  x = x
  Symbols = {x}
  NoiseTraders = {noise}
  MomentumBots = {momentum}
  MarketMakers = {mm}
  Watcher = watcher
  NoiseOrders <- StopThenMarket
  Prices = {1, 2, 3}
  QuoteSizes = {1}
  TakeSizes = {1}
  HalfSpread = 1
  StopOffset = 1
  WindowSize = 2
  InitialPrice = 2
  InitialCash = 2
  InitialShares = 1
  MaxSteps <- Steps
  MaxOrders = 8
  MaxBacklog = 2
INVARIANTS
  QuotesAreRemembered
  ReportAddsUp
PROPERTIES
  RunEnds
CHECK_DEADLOCK FALSE
