SPECIFICATION ReportSpec
CONSTANTS
  LotIds = {1, 2}
  Acquirable = {"ESPP", "ISA"}
  Horizon = 2
  Window = 1
  Unit = 1
  Quantities = {1, 2}
  Requests = {1, 2}
  Currencies = {"GBP"}
  Prices = {1}
  MatchDays = 1
  Fraction = 216000
  MaxSales = 4
INVARIANTS
  TypeOK
  EveryShareMatched
PROPERTIES
  SaleIdentification
  SaleCountsFromItsDate
  EarlierEntitlementKept
CHECK_DEADLOCK FALSE
