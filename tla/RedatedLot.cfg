SPECIFICATION ReportSpec
CONSTANTS
  LotIds = {1, 2, 3}
  Acquirable = {"ESPP"}
  Horizon = 1
  Window = 1
  Unit = 1
  Quantities = {2}
  Requests = {1}
  Currencies = {"GBP"}
  Prices = {1, 2}
  MatchDays = 1
  Fraction = 216000
  MaxSales = 1
INVARIANTS
  SoldAfterBought
CHECK_DEADLOCK FALSE
