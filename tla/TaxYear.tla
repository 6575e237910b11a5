------------------------------ MODULE TaxYear ------------------------------
(***************************************************************************)
(* The tax on one employee's year.  The tax engine computes it twice: the  *)
(* liability functions walk the bands, and the marginal-rate functions say *)
(* from closed formulas what the next pound costs.  The pages add the two  *)
(* up side by side: the rates price a purchase or a sale, the liabilities  *)
(* a bonus or a year.  Incomes are whole pounds and even, so that half of  *)
(* a taper is whole; percentages of pounds are pence, and exact.           *)
(***************************************************************************)
EXTENDS Integers, FiniteSetsExt

CONSTANTS
  Years,       \* tax years, by the year they start in
  Salaries,    \* what the salary is, above what is sacrificed of it
  Sacrifices,  \* pension sacrificed from the salary
  Gains,       \* realised capital gains
  Payment,     \* what one payment adds to the income
  MaxGross     \* bound on the income of a year

ASSUME TaxAssumption ==
  /\ Years \subseteq 2019..2035 /\ Salaries \cup Sacrifices \cup Gains \subseteq Nat
  /\ Payment \in Nat \ {0} /\ MaxGross \in Nat
  /\ \A x \in Salaries \cup Sacrifices \cup {Payment} : x % 2 = 0

VARIABLES
  taxYear,    \* TaxContext.tax_year
  gross,      \* TaxContext.gross_employment_income
  sacrifice   \* TaxContext.pension_sacrifice

taxVars == <<taxYear, gross, sacrifice>>

TaxInit ==
  /\ taxYear \in Years /\ sacrifice \in Sacrifices
  /\ \E salary \in Salaries : gross = sacrifice + salary

(* with_additional_income *)
Earn(x) ==
  /\ gross + x <= MaxGross
  /\ gross' = gross + x
  /\ UNCHANGED <<taxYear, sacrifice>>

TaxNext == Earn(Payment)

-----------------------------------------------------------------------------
(* bands.py; the years after 2026-27 carry its figures forward             *)
Bands(year) ==
  LET y == Min({year, 2026})
  IN [pa      |-> IF y <= 2020 THEN 12500 ELSE 12570,
      basic   |-> IF y <= 2020 THEN 50000 ELSE 50270,
      higher  |-> IF y <= 2022 THEN 150000 ELSE 125140,
      taper   |-> 100000,
      ni      |-> CASE y = 2019 -> 8632 [] y = 2020 -> 9500 [] y = 2021 -> 9568
                    [] OTHER -> 12570,
      niRate  |-> CASE y <= 2022 -> 12 [] y = 2023 -> 10 [] OTHER -> 8,
      loan    |-> CASE y = 2019 -> <<18935, 25725>> [] y = 2020 -> <<19390, 26575>>
                    [] y = 2021 -> <<19895, 27295>> [] y = 2022 -> <<20195, 27295>>
                    [] y = 2023 -> <<22015, 27295>> [] y = 2024 -> <<24990, 27295>>
                    [] y = 2025 -> <<26065, 28470>> [] OTHER -> <<26900, 29385>>,
      exempt  |-> CASE y = 2019 -> 12000 [] y \in 2020 .. 2022 -> 12300 [] y = 2023 -> 6000
                    [] OTHER -> 3000,
      cgt     |-> IF y <= 2024 THEN <<10, 20>> ELSE <<18, 24>>]

TaperEnd(b) == b.taper + 2 * b.pa
Positive(x) == Max({0, x})

(* Faulty variant: a pound of allowance for every pound above the start.   *)
AllowanceTakenWhole(b, ani) == Positive(b.pa - Positive(ani - b.taper))

(* personal_allowance *)
Allowance(b, ani) == Positive(b.pa - Positive(ani - b.taper) \div 2)

(* income_tax_liability, as income_tax_on_context calls it                 *)
IncomeTax(b, income, ani) ==
  LET pa      == Allowance(b, ani)
      taxable == Positive(income - pa)
      width   == b.basic - b.pa
      limit   == b.higher - pa
  IN   20 * Min({taxable, width})
     + 40 * Positive(Min({taxable, limit}) - width)
     + 45 * Positive(taxable - limit)

(* marginal_income_tax_rate *)
IncomeTaxRate(b, income, ani) ==
  IF income <= Allowance(b, ani) THEN 0
  ELSE IF income <= b.basic      THEN 20
  ELSE IF ani <= b.taper         THEN 40
  ELSE IF ani <= TaperEnd(b)     THEN 60 ELSE 45

(* ni_liability and marginal_ni_rate *)
Insurance(b, income) ==
  b.niRate * Positive(Min({income, b.basic}) - b.ni) + 2 * Positive(income - b.basic)

InsuranceRate(b, income) ==
  IF income < b.ni THEN 0 ELSE IF income < b.basic THEN b.niRate ELSE 2

(* student_loan_repayment and marginal_student_loan_rate, by plan          *)
Loan(b, income, plan) == 9 * Positive(income - b.loan[plan])
LoanRate(b, income, plan) == IF income > b.loan[plan] THEN 9 ELSE 0

(* calculate_cgt for a gain, and marginal_cgt_rate                         *)
GainsTax(b, gain, taxable) ==
  LET due   == Positive(gain - b.exempt)
      lower == Min({due, Positive(b.basic - b.pa - taxable)})
  IN b.cgt[1] * lower + b.cgt[2] * (due - lower)

GainsRate(b, taxable) == IF b.basic - b.pa > taxable THEN b.cgt[1] ELSE b.cgt[2]

-----------------------------------------------------------------------------
(* Where a payment stays inside one band, every marginal rate is what the  *)
(* liabilities charge for it: income tax with the withdrawal of the        *)
(* allowance, insurance (on its threshold too), loan, and the tax on gains *)
(* while they fit the band the income leaves.  Left out is what the two    *)
(* disagree about: incomes between the end of the taper and an additional  *)
(* rate that starts later (up to 2022-23), and incomes above the start of  *)
(* the additional rate with a sacrifice.                                   *)
NextPoundTaxed ==
  LET b          == Bands(taxYear)
      ani        == gross - sacrifice
      top        == gross + Payment
      Within(x, limits) == \A t \in limits : x > t \/ x + Payment <= t
      comparable ==
        \/ top <= b.higher /\ ani + Payment <= TaperEnd(b)
        \/ sacrifice = 0 /\ b.higher = TaperEnd(b)
      taxable    == Positive(gross - Allowance(b, ani))
  IN /\ comparable /\ Within(gross, {b.pa, b.basic, b.higher})
                   /\ Within(ani, {b.taper, TaperEnd(b)}) /\ gross # b.pa =>
          IncomeTax(b, top, ani + Payment) - IncomeTax(b, gross, ani)
            = Payment * IncomeTaxRate(b, gross, ani)
     /\ (\A t \in {b.ni, b.basic} : ani >= t \/ ani + Payment <= t) =>
          Insurance(b, ani + Payment) - Insurance(b, ani) = Payment * InsuranceRate(b, ani)
     /\ \A plan \in {1, 2} : Within(ani, {b.loan[plan]}) =>
          Loan(b, ani + Payment, plan) - Loan(b, ani, plan) = Payment * LoanRate(b, ani, plan)
     /\ \A gain \in Gains :
          LET room == b.basic - b.pa - taxable
          IN gain >= b.exempt /\ (room <= 0 \/ gain - b.exempt + Payment <= room) =>
               GainsTax(b, gain + Payment, taxable) - GainsTax(b, gain, taxable)
                 = Payment * GainsRate(b, taxable)
=============================================================================
