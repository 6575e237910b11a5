----------------------------- MODULE PlanShares -----------------------------
(***************************************************************************)
(* What leaving the plan costs the holder of employee shares.  Two engines *)
(* decide it from how long the shares were held: sip_rules counts days,    *)
(* and employment_tax_engine adds calendar years to the day of the award.  *)
(* A lot is followed from its award through the days on which either       *)
(* engine changes its mind, at prices that move.                           *)
(***************************************************************************)
EXTENDS Integers, FiniteSetsExt

CONSTANTS
  Days,     \* days after the award that are looked at
  Values,   \* market values the lot may have
  Kinds     \* subset of {"PARTNERSHIP", "MATCHING", "DIVIDEND"}

ASSUME PlanSharesAssumption ==
  Days \subseteq Nat /\ 0 \in Days /\ Values \subseteq Nat
    /\ Kinds \subseteq {"PARTNERSHIP", "MATCHING", "DIVIDEND"}

VARIABLES
  share,   \* the lot: its kind, its value at the award, its anniversaries
  held,    \* days since the award
  value    \* market value today

shareVars == <<share, held, value>>

(* Three and five calendar years in days: none or one leap day, one or two *)
Anniversaries == {<<1095, 1826>>, <<1096, 1826>>, <<1096, 1827>>}

ShareInit ==
  /\ share \in [kind : Kinds, award : Values, years : Anniversaries]
  /\ held = 0 /\ value = share.award

TimePasses(d, v) ==
  /\ d >= held
  /\ held' = d /\ value' = v
  /\ UNCHANGED share

ShareNext == \E d \in Days, v \in Values : TimePasses(d, v)

-----------------------------------------------------------------------------
(* SIPHolding.holding_period_category *)
ThreeYearDays == 3 * 365 + 1

(* Faulty variant: five years without their leap days.                     *)
FiveYearsOf365 == 5 * 365

FiveYearDays == 5 * 365 + 2

Category(days) ==
  IF days < ThreeYearDays THEN "UNDER_THREE_YEARS"
  ELSE IF days < FiveYearDays THEN "THREE_TO_FIVE_YEARS" ELSE "FIVE_PLUS_YEARS"

(* _compute_income_tax_amount: what income tax and insurance are due on    *)
SipBases(s, days, v) ==
  LET c == Category(days)
  IN CASE s.kind = "DIVIDEND" ->
            <<IF c = "UNDER_THREE_YEARS" THEN s.award ELSE 0, 0>>
       [] s.kind # "DIVIDEND" /\ c = "FIVE_PLUS_YEARS"     -> <<0, 0>>
       [] s.kind # "DIVIDEND" /\ c = "THREE_TO_FIVE_YEARS" -> <<Min({v, s.award}), 0>>
       [] s.kind # "DIVIDEND" /\ c = "UNDER_THREE_YEARS"   -> <<v, v>>

(* estimate_employment_tax_for_lot, for an ESPP_PLUS lot                   *)
PlusBases(s, days, v) ==
  CASE s.kind = "MATCHING" /\ days < 183 -> <<0, 0>>
    [] days >= s.years[2]                -> <<0, 0>>
    [] days >= s.years[1] /\ days < s.years[2] -> <<Min({v, s.award}), 0>>
    [] OTHER                             -> <<v, v>>

-----------------------------------------------------------------------------
(* Counting days instead of calendar years is on the safe side ("The day   *)
(* counts above are conservative approximations", sip_rules.py:132): on no *)
(* day, over no pair of leap years and at no price does it report a        *)
(* smaller amount to tax than the calendar does, and dividend shares cost  *)
(* nothing no earlier than the third anniversary.                          *)
DayCountsConservative ==
  LET sip  == SipBases(share, held, value)
      plus == PlusBases(share, held, value)
  IN IF share.kind = "DIVIDEND"
     THEN held < share.years[1] => sip[1] = share.award
     ELSE sip[1] >= plus[1] /\ sip[2] >= plus[2]
=============================================================================
