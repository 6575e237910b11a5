SPECIFICATION FairSpec
CONSTANTS
  Instruments = {a}
  StartingCapital = 1000
  MinPosition = 100
  Requests = {700}
  RecentTrades = 2
  MinTrades = 2
  BarWindow = 2
  Horizons = {1, 2}
  Gains = {20}
  Losses = {10, 5}
  Target = 20
  StopLoss = 10
  AutoPause = TRUE
  AutoResume = TRUE
  MaxPositions = 2
PROPERTIES
  HorizonExits
