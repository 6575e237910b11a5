SPECIFICATION SideSpec
CONSTANTS
  PlanIds = {1, 2}
  Sellables = {3, 4}
  Totals = {2, 3}
  Counts = {1, 2}
  Cadences = {1}
  Spacings = {1}
  Caps = {1, 2}
  Alerts = {a1, a2}
  Conditions = {c1, c2}
  NoHash = NoHash
  DismissDays = 2
  SnoozeDays = 1
  LastDay = 2
  MaxEvents = 3
  Years = {2019, 2020, 2022, 2023, 2024, 2026}
  Salaries = {0, 50000, 100000}
  Sacrifices = {0, 20000}
  Gains = {0, 3000, 6000, 20000}
  Payment = 10
  MaxGross = 160000
  Days = {0, 182, 183, 1094, 1095, 1096, 1825, 1826, 1827}
  Values = {1, 2, 3}
  Kinds = {"PARTNERSHIP", "MATCHING", "DIVIDEND"}
  Scorers = {"auto", "manual"}
  TrainRows = {119, 120}
  ValidationRows = {24, 25}
  Windows = {2, 3, 4}
  SignAccuracies = {540, 995}
  WalkAccuracies = {529, 990}
  WalkReturns = {5, 11}
  MaxModels = 3
  Seeds = {s}
  Generated = {g}
  Outcomes = {"strong", "weak", "collapsed"}
  MaxPromotions = 1
  Traded = {g}
  Instruments = {i1, i2}
  SessionDays = {1}
  Close = 2
  MaxHold = 2
  OpenCaps = {1}
  LastMinute = 3
  LastTradingDay = 3
  MaxTrades = 2
INVARIANTS
  StagedWithinPlan
  NextPoundTaxed
  DayCountsConservative
  ServiceAgrees
  GatedStays
  OneTradePerSession
PROPERTIES
  HiddenByAnswerOnly
  RetiredStays
CHECK_DEADLOCK FALSE
