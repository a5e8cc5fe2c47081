SPECIFICATION MakerSpec
CONSTANTS
  s1 = s1
  s2 = s2
  NoSymbol = NoSymbol
  BotSymbols = {s1, s2}
  MaxTicks = 3
INVARIANTS
  AnswersLagByTimeouts
  RememberedUnlessLate
PROPERTY BotEnds
CHECK_DEADLOCK FALSE
