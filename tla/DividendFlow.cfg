SPECIFICATION Spec
CONSTANTS
  Containers = {"BROKER", "ISA"}
  Currencies = {"GBP", "USD"}
  Amounts = {2}
  Rates = {1}
  Fees = {1}
  Original = {"USD"}
  Torn = Torn
  MaxEntries = 6
  MaxTransfers = 1
  MaxDividends = 2
INVARIANTS
  BalancesNonNegative
  LotHasDividend
  PaidOnce
