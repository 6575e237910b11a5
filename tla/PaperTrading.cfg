SPECIFICATION Spec
CONSTANTS
  Instruments = {a, b}
  StartingCapital = 1000
  MinPosition = 100
  Requests = {700}
  RecentTrades = 2
  MinTrades = 1
  BarWindow = 1
  Horizons = {1}
  Gains = {10}
  Losses = {10}
  Target = 10
  StopLoss = 15
  AutoPause = TRUE
  AutoResume = TRUE
  MaxPositions = 3
SYMMETRY Symmetry
INVARIANTS
  OneOpenPerSymbol
  CashCovers
PROPERTIES
  PauseWithoutTradesIsFinal
