SPECIFICATION ReportSpec
CONSTANTS
  LotIds = {1, 2, 3}
  Acquirable = {"ESPP", "ESPP_PLUS"}
  Horizon = 1
  Window = 1
  Unit = 2
  Quantities = {3}
  Requests = {2}
  Currencies = {"GBP"}
  Prices = {1}
  MatchDays = 1
  Fraction = 216000
  MaxSales = 2
INVARIANTS
  LotAccounting
  TransferredEmployeeForfeits
  LoopsAgree
  DisposalCostExact
  ReportCostConserved
PROPERTIES
  TransferOldestFirst
  SaleForfeitsWholeMatch
  HoldingSpec
CHECK_DEADLOCK FALSE
