-------------------------- MODULE SideBySideProofs --------------------------
(***************************************************************************)
(* Proofs about the components of SideBySide, each for any constants: the  *)
(* composition implements every one of them, an alert is hidden by an      *)
(* answer only, the day counts of the share plan are on the safe side, a   *)
(* marginal rate is what the liabilities charge, a plan stages no more     *)
(* than it has, a session has one simulated trade of an instrument, one    *)
(* model is in service, one that passed the gate is never suspended, and a *)
(* generated hypothesis that is retired stays so.                          *)
(***************************************************************************)
EXTENDS SideBySide, SumProofs, SequenceTheorems

PlanSpec == PlanInit /\ [][PlanNext]_planVars
AlertSpec == AlertInit /\ [][AlertNext]_alertVars
TaxSpec == TaxInit /\ [][TaxNext]_taxVars
ShareSpec == ShareInit /\ [][ShareNext]_shareVars

-----------------------------------------------------------------------------
(* The composition *)

\* A behaviour of the components side by side is one of each of them: what is
\* proved of a component holds in the composition.
THEOREM SideBySideImplements ==
  SideSpec => /\ PlanSpec /\ AlertSpec /\ TaxSpec /\ ShareSpec
              /\ ModelSpec /\ HypothesisSpec /\ IntradaySpec
<1>1. SideInit => /\ PlanInit /\ AlertInit /\ TaxInit /\ ShareInit
                  /\ ModelInit /\ HypothesisInit /\ IntradayInit
  BY DEF SideInit
<1>2. [SideNext]_sideVars => /\ [PlanNext]_planVars /\ [AlertNext]_alertVars
                             /\ [TaxNext]_taxVars /\ [ShareNext]_shareVars
                             /\ [ModelNext]_modelVars /\ [HypothesisNext]_hypothesisVars
                             /\ [IntradayNext]_intradayVars
  BY DEF SideNext, sideVars
<1> QED
  BY <1>1, <1>2, PTL DEF SideSpec, PlanSpec, AlertSpec, TaxSpec, ShareSpec, ModelSpec,
     HypothesisSpec, IntradaySpec

-----------------------------------------------------------------------------
(* Alerts *)

Events == [alert : Alerts, state : {"DISMISSED", "SNOOZED", "ACTIVE"},
           hash : Conditions \cup {NoHash}, until : Nat]

AlertTypeOK ==
  /\ condition \in [Alerts -> Conditions]
  /\ events \in Seq(Events)
  /\ now \in Nat

LEMMA AlertTypes == AlertSpec => []AlertTypeOK
<1>1. AlertInit => AlertTypeOK
  BY DEF AlertInit, AlertTypeOK
<1>2. AlertTypeOK /\ [AlertNext]_alertVars => AlertTypeOK'
  <2> SUFFICES ASSUME AlertTypeOK, [AlertNext]_alertVars PROVE AlertTypeOK'
    OBVIOUS
  <2> USE DEF AlertTypeOK
  <2>1. ASSUME NEW a \in Alerts, NEW s \in {"DISMISSED", "SNOOZED", "ACTIVE"},
               NEW h \in Conditions \cup {NoHash}, Answer(a, s, h)
        PROVE  AlertTypeOK'
    <3> DEFINE e == [alert |-> a, state |-> s, hash |-> h,
                     until |-> CASE s = "DISMISSED" -> now + DismissDays
                                 [] s = "SNOOZED"   -> now + SnoozeDays
                                 [] OTHER           -> 0]
    <3>1. e \in Events
      BY AlertAssumption DEF Events
    <3>2. events' = Append(events, e) /\ UNCHANGED <<condition, now>>
      BY <2>1 DEF Answer
    <3> HIDE DEF e
    <3> QED
      BY <3>1, <3>2
  <2>2. ASSUME NEW a \in Alerts, NEW c \in Conditions, ConditionChanges(a, c)
        PROVE  AlertTypeOK'
    BY <2>2 DEF ConditionChanges
  <2>3. CASE DayPasses
    BY <2>3 DEF DayPasses
  <2>4. CASE UNCHANGED alertVars
    BY <2>4 DEF alertVars
  <2> QED
    BY <2>1, <2>2, <2>3, <2>4 DEF AlertNext
<1> QED
  BY <1>1, <1>2, PTL DEF AlertSpec

\* An event hides its alert.
Hides(e, c, day) ==
  e.state \in {"DISMISSED", "SNOOZED"} /\ e.hash \in {NoHash, c} /\ e.until > day

LEMMA SuppressedBy ==
  ASSUME NEW a
  PROVE  /\ Suppressed(a) <=> EventsOf(a) # {} /\ Hides(events[Max(EventsOf(a))], condition[a], now)
         /\ Suppressed(a)' <=> /\ EventsOf(a)' # {}
                               /\ Hides(events'[Max(EventsOf(a)')], condition'[a], now')
<1>1. Suppressed(a) <=> EventsOf(a) # {} /\ Hides(events[Max(EventsOf(a))], condition[a], now)
  BY Zenon DEF Suppressed, Hides
<1>2. Suppressed(a)' <=> EventsOf(a)' # {}
                         /\ Hides(events'[Max(EventsOf(a)')], condition'[a], now')
  BY Zenon DEF Suppressed, Hides
<1> QED
  BY <1>1, <1>2

\* The latest event of an alert with an event.
LEMMA LatestEvent ==
  ASSUME AlertTypeOK, NEW a, EventsOf(a) # {}
  PROVE  Max(EventsOf(a)) \in EventsOf(a)
<1>1. EventsOf(a) \in SUBSET (0 .. Len(events)) /\ Len(events) \in Nat
  BY DEF AlertTypeOK, EventsOf
<1>2. PICK m \in EventsOf(a) : \A k \in EventsOf(a) : k <= m
  BY <1>1, GreatestNatural
<1>3. \A k \in EventsOf(a) : m >= k
  BY <1>1, <1>2
<1> QED
  BY <1>3 DEF Max

\* An alert that shows is hidden only by an answer to that alert, or when its
\* condition turns back into one that was answered (AlertLifecycleService).
THEOREM HiddenByAnAnswer == AlertSpec => HiddenByAnswerOnly
<1>1. ASSUME AlertTypeOK, AlertNext
      PROVE  \A a \in Alerts :
               (~Suppressed(a) /\ Suppressed(a)') =>
                 \/ condition'[a] # condition[a]
                 \/ events' # events /\ events'[Len(events')].alert = a
  <2> SUFFICES ASSUME NEW a \in Alerts, ~Suppressed(a), Suppressed(a)'
               PROVE  \/ condition'[a] # condition[a]
                      \/ events' # events /\ events'[Len(events')].alert = a
    OBVIOUS
  <2>1. ASSUME NEW b \in Alerts, NEW s \in {"DISMISSED", "SNOOZED", "ACTIVE"},
               NEW h \in Conditions \cup {NoHash}, Answer(b, s, h)
        PROVE  events' # events /\ events'[Len(events')].alert = a
    <3>1. PICK e : e.alert = b /\ events' = Append(events, e)
      BY <2>1 DEF Answer
    <3>2. events \in Seq(Events) /\ condition' = condition /\ now' = now
      BY <1>1, <2>1 DEF AlertTypeOK, Answer
    <3>3. /\ Len(events') = Len(events) + 1 /\ events'[Len(events')] = e
          /\ DOMAIN events' = DOMAIN events \cup {Len(events) + 1}
          /\ \A i \in DOMAIN events : events'[i] = events[i]
          /\ events' # events
      BY <3>1, <3>2
    <3>4. ASSUME b # a PROVE FALSE
      <4>1. EventsOf(a)' = EventsOf(a)
        BY <3>1, <3>3, <3>4 DEF EventsOf
      <4>2. EventsOf(a) # {}
        BY <4>1 DEF Suppressed
      <4>3. Max(EventsOf(a)) \in DOMAIN events
        BY <1>1, <4>2, LatestEvent DEF EventsOf
      <4>4. Max(EventsOf(a))' = Max(EventsOf(a))
        BY <4>1
      <4>5. events'[Max(EventsOf(a)')] = events[Max(EventsOf(a))]
        BY <3>3, <4>3, <4>4
      <4> QED
        BY <3>2, <4>1, <4>5, SuppressedBy
    <3> QED
      BY <3>1, <3>3, <3>4
  <2>2. ASSUME NEW b \in Alerts, NEW c \in Conditions, ConditionChanges(b, c)
        PROVE  condition'[a] # condition[a]
    <3> SUFFICES ASSUME condition'[a] = condition[a] PROVE FALSE
      OBVIOUS
    <3>1. EventsOf(a)' = EventsOf(a) /\ events' = events /\ now' = now
      BY <2>2 DEF ConditionChanges, EventsOf
    <3> QED
      BY <3>1 DEF Suppressed
  <2>3. CASE DayPasses
    <3>1. /\ EventsOf(a)' = EventsOf(a) /\ events' = events /\ condition' = condition
          /\ now' = now + 1 /\ now \in Nat
      BY <1>1, <2>3 DEF DayPasses, EventsOf, AlertTypeOK
    <3>2. EventsOf(a) # {}
      BY <3>1 DEF Suppressed
    <3>3. Max(EventsOf(a)) \in DOMAIN events
      BY <1>1, <3>2, LatestEvent DEF EventsOf
    <3>4. events[Max(EventsOf(a))] \in Events
      BY <1>1, <3>3 DEF AlertTypeOK
    <3>5. events[Max(EventsOf(a))].until \in Nat
      BY <3>4 DEF Events
    <3>6. events[Max(EventsOf(a))].until > now' => events[Max(EventsOf(a))].until > now
      BY <3>1, <3>5
    <3> QED
      BY <3>1, <3>2, <3>6, SuppressedBy DEF Hides
  <2> QED
    BY <1>1, <2>1, <2>2, <2>3 DEF AlertNext
<1> QED
  BY <1>1, AlertTypes, PTL DEF AlertSpec, HiddenByAnswerOnly

-----------------------------------------------------------------------------
(* Leaving the share plan *)

LEMMA MinOfTwo ==
  ASSUME NEW a \in Int, NEW b \in Int
  PROVE  Min({a, b}) = IF a <= b THEN a ELSE b
<1> DEFINE m == IF a <= b THEN a ELSE b
<1>1. m \in {a, b} /\ \A y \in {a, b} : m <= y
  OBVIOUS
<1>2. \A x \in {a, b} : (\A y \in {a, b} : x <= y) => x = m
  OBVIOUS
<1> HIDE DEF m
<1>3. Min({a, b}) \in {a, b} /\ \A y \in {a, b} : Min({a, b}) <= y
  BY <1>1 DEF Min
<1> QED
  BY <1>2, <1>3 DEF m

ShareTypeOK ==
  /\ share \in [kind : Kinds, award : Values, years : Anniversaries]
  /\ held \in Nat /\ value \in Values

LEMMA ShareTypes == ShareSpec => []ShareTypeOK
<1>1. ShareInit => ShareTypeOK
  BY DEF ShareInit, ShareTypeOK
<1>2. ShareTypeOK /\ [ShareNext]_shareVars => ShareTypeOK'
  BY PlanSharesAssumption DEF ShareTypeOK, ShareNext, TimePasses, shareVars
<1> QED
  BY <1>1, <1>2, PTL DEF ShareSpec

\* Counting days is on the safe side of counting calendar years, on any day, at
\* any price and over any anniversaries (sip_rules, employment_tax_engine).
THEOREM DayCountsAreSafe == ShareSpec => []DayCountsConservative
<1>1. ShareTypeOK => DayCountsConservative
  <2> SUFFICES ASSUME ShareTypeOK PROVE DayCountsConservative
    OBVIOUS
  <2> DEFINE k == share.kind
             a == share.award
             y3 == share.years[1]
             y5 == share.years[2]
             least == IF value <= a THEN value ELSE a
             sip == SipBases(share, held, value)
             plus == PlusBases(share, held, value)
  <2>1. /\ k \in {"PARTNERSHIP", "MATCHING", "DIVIDEND"} /\ a \in Nat
        /\ y3 \in {1095, 1096} /\ y5 \in {1826, 1827}
        /\ held \in Nat /\ value \in Nat
    <3>1. /\ k \in Kinds /\ a \in Values /\ share.years \in Anniversaries
          /\ held \in Nat /\ value \in Values
      BY DEF ShareTypeOK
    <3>2. y3 \in {1095, 1096} /\ y5 \in {1826, 1827}
      BY <3>1 DEF Anniversaries
    <3>3. k \in {"PARTNERSHIP", "MATCHING", "DIVIDEND"}
      BY <3>1, PlanSharesAssumption, Zenon
    <3>4. a \in Nat /\ held \in Nat /\ value \in Nat
      BY <3>1, PlanSharesAssumption, Zenon
    <3> QED
      BY <3>2, <3>3, <3>4
  <2>2. Min({value, a}) = least
    BY <2>1, MinOfTwo
  <2>3. /\ held < 1096 => Category(held) = "UNDER_THREE_YEARS"
        /\ held >= 1096 /\ held < 1827 => Category(held) = "THREE_TO_FIVE_YEARS"
        /\ held >= 1827 => Category(held) = "FIVE_PLUS_YEARS"
    <3>1. ThreeYearDays = 1096 /\ FiveYearDays = 1827
      BY DEF ThreeYearDays, FiveYearDays
    <3>2. held < 1096 => Category(held) = "UNDER_THREE_YEARS"
      BY <2>1, <3>1 DEF Category
    <3>3. held >= 1096 /\ held < 1827 => Category(held) = "THREE_TO_FIVE_YEARS"
      BY <2>1, <3>1 DEF Category
    <3>4. held >= 1827 => Category(held) = "FIVE_PLUS_YEARS"
      BY <2>1, <3>1 DEF Category
    <3> QED
      BY <3>2, <3>3, <3>4
  <2>4. k = "DIVIDEND" =>
          sip = <<IF Category(held) = "UNDER_THREE_YEARS" THEN a ELSE 0, 0>>
    BY DEF SipBases
  <2>5. k # "DIVIDEND" =>
          /\ Category(held) = "FIVE_PLUS_YEARS"     => sip = <<0, 0>>
          /\ Category(held) = "THREE_TO_FIVE_YEARS" => sip = <<Min({value, a}), 0>>
          /\ Category(held) = "UNDER_THREE_YEARS"   => sip = <<value, value>>
    BY DEF SipBases
  <2>6. /\ held >= y5 => plus = <<0, 0>>
        /\ held >= y3 /\ held < y5 => plus = <<Min({value, a}), 0>>
        /\ held < y3 => plus = <<0, 0>> \/ plus = <<value, value>>
    BY <2>1 DEF PlusBases
  <2> HIDE DEF k, a, y3, y5, sip, plus
  <2>7. CASE k = "DIVIDEND"
    <3>1. held < y3 => sip[1] = a
      BY <2>1, <2>3, <2>4, <2>7
    <3> QED
      BY <2>7, <3>1 DEF DayCountsConservative, k, a, y3, sip
  <2>8. CASE k # "DIVIDEND"
    <3>1. sip[1] >= plus[1] /\ sip[2] >= plus[2]
      <4>1. CASE held < 1096
        <5>1. sip = <<value, value>>
          BY <2>3, <2>5, <2>8, <4>1
        <5>2. plus \in {<<0, 0>>, <<least, 0>>, <<value, value>>}
          BY <2>1, <2>2, <2>6
        <5>3. least <= value /\ least \in Nat
          BY <2>1
        <5> HIDE DEF least
        <5> QED
          BY <2>1, <5>1, <5>2, <5>3
      <4>2. CASE held >= 1096 /\ held < 1827
        <5>1. sip = <<least, 0>>
          BY <2>2, <2>3, <2>5, <2>8, <4>2
        <5>2. plus \in {<<0, 0>>, <<least, 0>>}
          BY <2>1, <2>2, <2>6, <4>2
        <5>3. least \in Nat
          BY <2>1
        <5> HIDE DEF least
        <5> QED
          BY <5>1, <5>2, <5>3
      <4>3. CASE held >= 1827
        <5>1. sip = <<0, 0>> /\ plus = <<0, 0>>
          BY <2>1, <2>3, <2>5, <2>6, <2>8, <4>3
        <5> QED
          BY <5>1
      <4> QED
        BY <2>1, <4>1, <4>2, <4>3
    <3> QED
      BY <2>8, <3>1 DEF DayCountsConservative, k, sip, plus
  <2> QED
    BY <2>7, <2>8
<1> QED
  BY <1>1, ShareTypes, PTL

-----------------------------------------------------------------------------
(* The tax of a year *)

LEMMA PositiveIs ==
  ASSUME NEW x \in Int
  PROVE  Positive(x) = IF x <= 0 THEN 0 ELSE x
<1> DEFINE m == IF x <= 0 THEN 0 ELSE x
<1>1. m \in {0, x} /\ \A y \in {0, x} : m >= y
  OBVIOUS
<1>2. \A z \in {0, x} : (\A y \in {0, x} : z >= y) => z = m
  OBVIOUS
<1> HIDE DEF m
<1>3. Max({0, x}) \in {0, x} /\ \A y \in {0, x} : Max({0, x}) >= y
  BY <1>1 DEF Max
<1> QED
  BY <1>2, <1>3 DEF m, Positive

\* What the proofs use of a year's figures.
BandsOK(b) ==
  /\ b.pa \in Nat /\ b.basic \in Nat /\ b.higher \in Nat /\ b.taper \in Nat
  /\ 0 < b.pa /\ b.pa < b.basic /\ b.basic < b.taper
  /\ TaperEnd(b) = b.taper + 2 * b.pa /\ TaperEnd(b) <= b.higher
  /\ b.ni \in Nat /\ b.ni <= b.basic /\ b.niRate \in {8, 10, 12}
  /\ \A plan \in {1, 2} : b.loan[plan] \in Nat
  /\ b.exempt \in Nat /\ b.cgt \in {<<10, 20>>, <<18, 24>>}

LEMMA BandsAreOrdered ==
  ASSUME NEW year \in 2019 .. 2035
  PROVE  BandsOK(Bands(year))
<1> DEFINE y == Min({year, 2026})
           b == Bands(year)
<1>1. y \in 2019 .. 2026
  BY MinOfTwo
<1> HIDE DEF y
<1>2. /\ b.pa = (IF y <= 2020 THEN 12500 ELSE 12570)
      /\ b.basic = (IF y <= 2020 THEN 50000 ELSE 50270)
      /\ b.higher = (IF y <= 2022 THEN 150000 ELSE 125140)
      /\ b.taper = 100000
  BY DEF Bands, y
<1>3. b.ni \in {8632, 9500, 9568, 12570}
  BY <1>1 DEF Bands, y
<1>4. b.niRate \in {8, 10, 12}
  BY <1>1 DEF Bands, y
<1>5. \A plan \in {1, 2} : b.loan[plan] \in Nat
  BY <1>1 DEF Bands, y
<1>6. b.exempt \in Nat /\ b.cgt \in {<<10, 20>>, <<18, 24>>}
  BY <1>1 DEF Bands, y
<1>7. TaperEnd(b) = b.taper + 2 * b.pa
  BY DEF TaperEnd
<1> HIDE DEF b
<1>8. /\ b.pa \in Nat /\ b.basic \in Nat /\ b.higher \in Nat /\ b.taper \in Nat
      /\ 0 < b.pa /\ b.pa < b.basic /\ b.basic < b.taper /\ TaperEnd(b) <= b.higher
  BY <1>1, <1>2, <1>7
<1>9. b.ni \in Nat /\ b.ni <= b.basic
  BY <1>1, <1>2, <1>3
<1> QED
  BY <1>4, <1>5, <1>6, <1>7, <1>8, <1>9 DEF BandsOK, b

TaxTypeOK ==
  /\ taxYear \in 2019 .. 2035 /\ sacrifice \in Nat /\ gross \in Nat
  /\ sacrifice <= gross
  /\ gross % 2 = 0 /\ sacrifice % 2 = 0

LEMMA TaxTypes == TaxSpec => []TaxTypeOK
<1>1. TaxInit => TaxTypeOK
  <2> SUFFICES ASSUME TaxInit PROVE TaxTypeOK
    OBVIOUS
  <2>1. PICK salary \in Salaries : gross = sacrifice + salary
    BY DEF TaxInit
  <2>2. /\ taxYear \in 2019 .. 2035
        /\ sacrifice \in Nat /\ sacrifice % 2 = 0
        /\ salary \in Nat /\ salary % 2 = 0
    BY TaxAssumption DEF TaxInit
  <2> QED
    BY <2>1, <2>2 DEF TaxTypeOK
<1>2. TaxTypeOK /\ [TaxNext]_taxVars => TaxTypeOK'
  <2> SUFFICES ASSUME TaxTypeOK, [TaxNext]_taxVars PROVE TaxTypeOK'
    OBVIOUS
  <2>1. CASE TaxNext
    <3>1. Payment \in Nat /\ Payment % 2 = 0
      BY TaxAssumption
    <3>2. gross' = gross + Payment /\ taxYear' = taxYear /\ sacrifice' = sacrifice
      BY <2>1 DEF TaxNext, Earn
    <3> QED
      BY <3>1, <3>2 DEF TaxTypeOK
  <2>2. CASE UNCHANGED taxVars
    BY <2>2 DEF taxVars, TaxTypeOK
  <2> QED
    BY <2>1, <2>2
<1> QED
  BY <1>1, <1>2, PTL DEF TaxSpec

\* The allowance: whole up to the taper, half a pound less for every pound in
\* it, nothing behind it.
LEMMA AllowanceIs ==
  ASSUME NEW b, BandsOK(b), NEW ani \in Nat, (ani - b.taper) % 2 = 0
  PROVE  /\ Allowance(b, ani) \in 0 .. b.pa
         /\ ani <= b.taper => Allowance(b, ani) = b.pa
         /\ b.taper <= ani /\ ani <= TaperEnd(b) =>
              2 * Allowance(b, ani) = 2 * b.pa - (ani - b.taper)
         /\ ani >= TaperEnd(b) => Allowance(b, ani) = 0
<1> DEFINE over == Positive(ani - b.taper)
           a == Allowance(b, ani)
<1>1. ani - b.taper \in Int /\ b.pa \in Nat /\ b.taper \in Nat /\ TaperEnd(b) = b.taper + 2 * b.pa
  BY DEF BandsOK
<1>2. over = IF ani - b.taper <= 0 THEN 0 ELSE ani - b.taper
  BY <1>1, PositiveIs
<1>3. a = Positive(b.pa - over \div 2)
  BY DEF Allowance
<1> HIDE DEF over, a
<1>4. over \in Nat /\ over % 2 = 0
  BY <1>1, <1>2
<1>5. over \div 2 \in Nat /\ over = 2 * (over \div 2)
  BY <1>4
<1>6. a = IF b.pa - over \div 2 <= 0 THEN 0 ELSE b.pa - over \div 2
  BY <1>1, <1>3, <1>5, PositiveIs
<1> DEFINE h == over \div 2
<1>7. h \in Nat /\ over = 2 * h /\ a = IF b.pa - h <= 0 THEN 0 ELSE b.pa - h
  BY <1>5, <1>6
<1> HIDE DEF h
<1> DEFINE t == b.taper
           p == b.pa
<1>8. t \in Nat /\ p \in Nat /\ TaperEnd(b) = t + 2 * p
  BY <1>1
<1>9. over = (IF ani - t <= 0 THEN 0 ELSE ani - t) /\ a = IF p - h <= 0 THEN 0 ELSE p - h
  BY <1>2, <1>7
<1> HIDE DEF t, p
<1>10. a \in 0 .. p
  BY <1>7, <1>8, <1>9
<1>11. ani <= t => a = p
  BY <1>7, <1>8, <1>9
<1>12. t <= ani /\ ani <= t + 2 * p => 2 * a = 2 * p - (ani - t)
  BY <1>7, <1>8, <1>9
<1>13. ani >= t + 2 * p => a = 0
  BY <1>7, <1>8, <1>9
<1> QED
  BY <1>8, <1>10, <1>11, <1>12, <1>13 DEF a, t, p

\* What the bands charge, piece by piece.
LEMMA IncomeTaxIs ==
  ASSUME NEW b, BandsOK(b), NEW income \in Nat, NEW ani \in Nat, (ani - b.taper) % 2 = 0
  PROVE  LET a == Allowance(b, ani)
             width == b.basic - b.pa
             tax == IncomeTax(b, income, ani)
         IN /\ income <= a => tax = 0
            /\ income >= a /\ income - a <= width => tax = 20 * (income - a)
            /\ income - a >= width /\ income <= b.higher =>
                 tax = 20 * width + 40 * (income - a - width)
            /\ income >= b.higher =>
                 tax = 20 * width + 40 * (b.higher - a - width) + 45 * (income - b.higher)
<1> DEFINE a == Allowance(b, ani)
           width == b.basic - b.pa
           limit == b.higher - a
           taxable == Positive(income - a)
           second == Positive(Min({taxable, limit}) - width)
           third == Positive(taxable - limit)
           tax == IncomeTax(b, income, ani)
<1>1. /\ a \in 0 .. b.pa /\ b.pa \in Nat /\ b.basic \in Nat /\ b.higher \in Nat
      /\ b.pa < b.basic /\ b.basic < b.higher
  <2>1. a \in 0 .. b.pa
    BY AllowanceIs
  <2> HIDE DEF a
  <2> QED
    BY <2>1 DEF BandsOK
<1>2. tax = 20 * Min({taxable, width}) + 40 * second + 45 * third
  BY DEF IncomeTax
<1> HIDE DEF a, tax
<1>3. taxable = (IF income - a <= 0 THEN 0 ELSE income - a) /\ taxable \in Nat
  BY <1>1, PositiveIs
<1>4. width \in Nat /\ limit \in Nat /\ width < limit
  BY <1>1
<1>5. Min({taxable, width}) = IF taxable <= width THEN taxable ELSE width
  BY <1>3, <1>4, MinOfTwo
<1>6. second = IF taxable <= width THEN 0
               ELSE IF taxable <= limit THEN taxable - width ELSE limit - width
  <2> HIDE DEF taxable, width, limit
  <2>1. Min({taxable, limit}) = IF taxable <= limit THEN taxable ELSE limit
    BY <1>3, <1>4, MinOfTwo
  <2>2. Min({taxable, limit}) - width \in Int
    BY <1>3, <1>4, <2>1
  <2>3. second = IF Min({taxable, limit}) - width <= 0 THEN 0 ELSE Min({taxable, limit}) - width
    BY <2>2, PositiveIs
  <2> QED
    BY <1>3, <1>4, <2>1, <2>3
<1>7. third = IF taxable <= limit THEN 0 ELSE taxable - limit
  <2> HIDE DEF taxable, limit
  <2>1. taxable - limit \in Int
    BY <1>3, <1>4
  <2>2. third = IF taxable - limit <= 0 THEN 0 ELSE taxable - limit
    BY <2>1, PositiveIs
  <2> QED
    BY <1>3, <1>4, <2>2
<1> DEFINE least == Min({taxable, width})
           p == b.pa
           top == b.basic
           high == b.higher
<1>8. tax = 20 * least + 40 * second + 45 * third
  BY <1>2
<1>9. p \in Nat /\ top \in Nat /\ high \in Nat /\ p < top /\ top < high /\ a \in 0 .. p
  BY <1>1
<1> HIDE DEF taxable, second, third, least, p, top, high
<1>10. width = top - p /\ limit = high - a
  BY DEF top, p, high
<1> HIDE DEF width, limit
<1>11. income <= a => tax = 0
  BY <1>3, <1>4, <1>5, <1>6, <1>7, <1>8, <1>9, <1>10 DEF least
<1>12. income >= a /\ income - a <= width => tax = 20 * (income - a)
  BY <1>3, <1>4, <1>5, <1>6, <1>7, <1>8, <1>9, <1>10 DEF least
<1>13. income - a >= width /\ income <= high => tax = 20 * width + 40 * (income - a - width)
  BY <1>3, <1>4, <1>5, <1>6, <1>7, <1>8, <1>9, <1>10 DEF least
<1>14. income >= high => tax = 20 * width + 40 * (high - a - width) + 45 * (income - high)
  BY <1>3, <1>4, <1>5, <1>6, <1>7, <1>8, <1>9, <1>10 DEF least
<1> QED
  BY <1>11, <1>12, <1>13, <1>14 DEF a, tax, width, high

\* What the income tax charges for a payment x inside one band.
LEMMA IncomeTaxSlope ==
  ASSUME NEW b, BandsOK(b), NEW income \in Nat, NEW ani \in Nat, NEW x \in Nat \ {0},
         ani <= income, (ani - b.taper) % 2 = 0, x % 2 = 0,
         \/ income + x <= b.higher /\ ani + x <= TaperEnd(b)
         \/ ani = income /\ b.higher = TaperEnd(b),
         \A t \in {b.pa, b.basic, b.higher} : income > t \/ income + x <= t,
         \A t \in {b.taper, TaperEnd(b)} : ani > t \/ ani + x <= t,
         income # b.pa
  PROVE  IncomeTax(b, income + x, ani + x) - IncomeTax(b, income, ani)
           = x * IncomeTaxRate(b, income, ani)
<1> DEFINE p == b.pa
           basic == b.basic
           high == b.higher
           t == b.taper
           e == TaperEnd(b)
           m == ani + x
           i == income + x
           a == Allowance(b, ani)
           c == Allowance(b, m)
           old == IncomeTax(b, income, ani)
           new == IncomeTax(b, i, m)
           rate == IncomeTaxRate(b, income, ani)
<1>1. /\ p \in Nat /\ basic \in Nat /\ high \in Nat /\ t \in Nat /\ e = t + 2 * p /\ e <= high
      /\ 0 < p /\ p < basic /\ basic < t
  BY DEF BandsOK
<1>2. (m - t) % 2 = 0 /\ m \in Nat /\ i \in Nat
  BY <1>1
<1>3. /\ a \in 0 .. p
      /\ ani <= t => a = p
      /\ t <= ani /\ ani <= e => 2 * a = 2 * p - (ani - t)
      /\ ani >= e => a = 0
  BY AllowanceIs
<1>4. /\ c \in 0 .. p
      /\ m <= t => c = p
      /\ t <= m /\ m <= e => 2 * c = 2 * p - (m - t)
      /\ m >= e => c = 0
  <2> HIDE DEF m
  <2> QED
    BY <1>2, AllowanceIs
<1>5. /\ income <= a => old = 0
      /\ income >= a /\ income - a <= basic - p => old = 20 * (income - a)
      /\ income - a >= basic - p /\ income <= high =>
           old = 20 * (basic - p) + 40 * (income - a - (basic - p))
      /\ income >= high =>
           old = 20 * (basic - p) + 40 * (high - a - (basic - p)) + 45 * (income - high)
  BY IncomeTaxIs
<1>6. /\ i <= c => new = 0
      /\ i >= c /\ i - c <= basic - p => new = 20 * (i - c)
      /\ i - c >= basic - p /\ i <= high =>
           new = 20 * (basic - p) + 40 * (i - c - (basic - p))
      /\ i >= high =>
           new = 20 * (basic - p) + 40 * (high - c - (basic - p)) + 45 * (i - high)
  <2> HIDE DEF m, i
  <2> QED
    BY <1>2, IncomeTaxIs
<1>7. rate = IF income <= a THEN 0 ELSE IF income <= basic THEN 20
             ELSE IF ani <= t THEN 40 ELSE IF ani <= e THEN 60 ELSE 45
  BY DEF IncomeTaxRate
<1>8. /\ income > p \/ income + x <= p
      /\ income > basic \/ income + x <= basic
      /\ income > high \/ income + x <= high
      /\ ani > t \/ ani + x <= t
      /\ ani > e \/ ani + x <= e
      /\ income # p
      /\ \/ income + x <= high /\ ani + x <= e
         \/ ani = income /\ high = e
  OBVIOUS
<1> HIDE DEF p, basic, high, t, e, a, c, old, new, rate
<1>9. new - old = x * rate
  <2>1. CASE income <= a
    <3>1. income + x <= p /\ ani + x <= t
      BY <1>1, <1>3, <1>8, <2>1
    <3>2. a = p /\ c = p /\ old = 0 /\ new = 0 /\ rate = 0
      BY <1>1, <1>3, <1>4, <1>5, <1>6, <1>7, <2>1, <3>1
    <3> QED
      BY <3>2
  <2>2. CASE income > a /\ income <= basic
    <3>1. ani + x <= t /\ income + x <= basic
      BY <1>1, <1>8, <2>2
    <3>2. a = p /\ c = p /\ rate = 20
      BY <1>1, <1>3, <1>4, <1>7, <2>2, <3>1
    <3>3. old = 20 * (income - p) /\ new = 20 * (income + x - p)
      BY <1>1, <1>5, <1>6, <2>2, <3>1, <3>2
    <3> QED
      BY <1>1, <3>2, <3>3
  <2>3. CASE income > a /\ income > basic /\ ani <= t
    <3>1. ani + x <= t /\ income + x <= high
      BY <1>1, <1>8, <2>3
    <3>2. a = p /\ c = p /\ rate = 40
      BY <1>1, <1>3, <1>4, <1>7, <2>3, <3>1
    <3>3. /\ old = 20 * (basic - p) + 40 * (income - p - (basic - p))
          /\ new = 20 * (basic - p) + 40 * (income + x - p - (basic - p))
      BY <1>1, <1>5, <1>6, <2>3, <3>1, <3>2
    <3> QED
      BY <1>1, <3>2, <3>3
  <2>4. CASE income > a /\ income > basic /\ ani > t /\ ani <= e
    <3>1. ani + x <= e /\ income + x <= high
      BY <1>1, <1>8, <2>4
    <3>2. 2 * a = 2 * p - (ani - t) /\ 2 * c = 2 * p - (ani + x - t) /\ rate = 60
      BY <1>1, <1>3, <1>4, <1>7, <2>4, <3>1
    <3>3. /\ old = 20 * (basic - p) + 40 * (income - a - (basic - p))
          /\ new = 20 * (basic - p) + 40 * (income + x - c - (basic - p))
      BY <1>1, <1>3, <1>4, <1>5, <1>6, <2>4, <3>1
    <3> QED
      BY <1>1, <1>3, <1>4, <3>2, <3>3
  <2>5. CASE income > a /\ income > basic /\ ani > e
    <3>1. ani = income /\ high = e
      BY <1>1, <1>8, <2>5
    <3>2. a = 0 /\ c = 0 /\ rate = 45
      BY <1>1, <1>3, <1>4, <1>7, <2>5
    <3>3. /\ old = 20 * (basic - p) + 40 * (high - (basic - p)) + 45 * (income - high)
          /\ new = 20 * (basic - p) + 40 * (high - (basic - p)) + 45 * (income + x - high)
      BY <1>1, <1>5, <1>6, <2>5, <3>1, <3>2
    <3> QED
      BY <1>1, <3>2, <3>3
  <2>6. income \in Nat /\ ani \in Nat /\ a \in Nat /\ basic \in Nat /\ t \in Nat /\ e \in Nat
    BY <1>1, <1>3
  <2> QED
    BY <2>1, <2>2, <2>3, <2>4, <2>5, <2>6
<1> QED
  BY <1>9 DEF new, old, rate

LEMMA InsuranceSlope ==
  ASSUME NEW b, BandsOK(b), NEW income \in Nat, NEW x \in Nat \ {0},
         \A t \in {b.ni, b.basic} : income >= t \/ income + x <= t
  PROVE  Insurance(b, income + x) - Insurance(b, income) = x * InsuranceRate(b, income)
<1> DEFINE n == b.ni
           basic == b.basic
           r == b.niRate
           Lower(i) == IF i <= n THEN 0 ELSE IF i <= basic THEN i - n ELSE basic - n
           Upper(i) == IF i <= basic THEN 0 ELSE i - basic
<1>1. n \in Nat /\ basic \in Nat /\ n <= basic /\ r \in {8, 10, 12}
  BY DEF BandsOK
<1>2. \A i \in Nat : Insurance(b, i) = r * Lower(i) + 2 * Upper(i)
  <2> SUFFICES ASSUME NEW i \in Nat PROVE Insurance(b, i) = r * Lower(i) + 2 * Upper(i)
    OBVIOUS
  <2>1. Insurance(b, i) = r * Positive(Min({i, basic}) - n) + 2 * Positive(i - basic)
    BY DEF Insurance
  <2> HIDE DEF n, basic, r
  <2>2. Min({i, basic}) = (IF i <= basic THEN i ELSE basic)
    BY <1>1, MinOfTwo
  <2>3. Min({i, basic}) - n \in Int /\ i - basic \in Int
    BY <1>1, <2>2
  <2>4. Positive(Min({i, basic}) - n) = Lower(i)
    <3>1. Positive(Min({i, basic}) - n)
            = IF Min({i, basic}) - n <= 0 THEN 0 ELSE Min({i, basic}) - n
      BY <2>3, PositiveIs
    <3> QED
      BY <1>1, <2>2, <3>1
  <2>5. Positive(i - basic) = Upper(i)
    <3>1. Positive(i - basic) = IF i - basic <= 0 THEN 0 ELSE i - basic
      BY <2>3, PositiveIs
    <3> QED
      BY <1>1, <3>1
  <2> QED
    BY <2>1, <2>4, <2>5
<1>3. InsuranceRate(b, income) = IF income < n THEN 0 ELSE IF income < basic THEN r ELSE 2
  BY DEF InsuranceRate
<1>4. /\ income >= n \/ income + x <= n
      /\ income >= basic \/ income + x <= basic
  OBVIOUS
<1>5. /\ Insurance(b, income) = r * Lower(income) + 2 * Upper(income)
      /\ Insurance(b, income + x) = r * Lower(income + x) + 2 * Upper(income + x)
  BY <1>2
<1> HIDE DEF n, basic, r
<1>6. CASE income < n
  <2>1. Lower(income) = 0 /\ Lower(income + x) = 0 /\ Upper(income) = 0 /\ Upper(income + x) = 0
    BY <1>1, <1>4, <1>6
  <2> HIDE DEF Lower, Upper
  <2> QED
    BY <1>1, <1>3, <1>5, <1>6, <2>1
<1>7. CASE income >= n /\ income < basic
  <2>1. /\ Lower(income) = income - n /\ Lower(income + x) = income + x - n
        /\ Upper(income) = 0 /\ Upper(income + x) = 0
    BY <1>1, <1>4, <1>7
  <2>2. InsuranceRate(b, income) = r
    BY <1>1, <1>3, <1>7
  <2> HIDE DEF Lower, Upper
  <2>3. \A u, v : u = r * (income + x - n) + 2 * 0 /\ v = r * (income - n) + 2 * 0
                    => u - v = x * r
    BY <1>1
  <2>4. /\ Insurance(b, income) = r * (income - n) + 2 * 0
        /\ Insurance(b, income + x) = r * (income + x - n) + 2 * 0
    BY <1>5, <2>1, Zenon
  <2> QED
    BY <2>2, <2>3, <2>4, Zenon
<1>8. CASE income >= basic
  <2>1. /\ Lower(income) = basic - n /\ Lower(income + x) = basic - n
        /\ Upper(income) = income - basic /\ Upper(income + x) = income + x - basic
    BY <1>1, <1>8
  <2>2. InsuranceRate(b, income) = 2
    BY <1>1, <1>3, <1>8
  <2> HIDE DEF Lower, Upper
  <2>3. \A k \in Int : \A u, v : /\ u = k + 2 * (income + x - basic)
                               /\ v = k + 2 * (income - basic)
                                 => u - v = x * 2
    BY <1>1
  <2>4. r * (basic - n) \in Int
    BY <1>1
  <2>5. /\ Insurance(b, income) = r * (basic - n) + 2 * (income - basic)
        /\ Insurance(b, income + x) = r * (basic - n) + 2 * (income + x - basic)
    BY <1>5, <2>1, Zenon
  <2> QED
    BY <2>2, <2>3, <2>4, <2>5, Zenon
<1> QED
  BY <1>1, <1>6, <1>7, <1>8

LEMMA LoanSlope ==
  ASSUME NEW b, BandsOK(b), NEW plan \in {1, 2}, NEW income \in Nat, NEW x \in Nat \ {0},
         income > b.loan[plan] \/ income + x <= b.loan[plan]
  PROVE  Loan(b, income + x, plan) - Loan(b, income, plan) = x * LoanRate(b, income, plan)
<1> DEFINE t == b.loan[plan]
           i == income + x
           new == Loan(b, i, plan)
           old == Loan(b, income, plan)
           rate == LoanRate(b, income, plan)
<1>1. t \in Nat
  BY DEF BandsOK
<1>2. new = 9 * Positive(i - t) /\ old = 9 * Positive(income - t)
  BY DEF Loan
<1>3. rate = IF income > t THEN 9 ELSE 0
  BY DEF LoanRate
<1> HIDE DEF t, new, old, rate
<1>4. /\ Positive(i - t) = (IF i - t <= 0 THEN 0 ELSE i - t)
      /\ Positive(income - t) = (IF income - t <= 0 THEN 0 ELSE income - t)
  BY <1>1, PositiveIs
<1>5. income > t \/ income + x <= t
  BY DEF t
<1>6. new - old = x * rate
  <2>1. CASE income > t
    BY <1>1, <1>2, <1>3, <1>4, <2>1
  <2>2. CASE income <= t
    BY <1>1, <1>2, <1>3, <1>4, <1>5, <2>2
  <2> QED
    BY <1>1, <2>1, <2>2
<1> QED
  BY <1>6 DEF new, old, rate

\* A gain that fits the room the income leaves in the band, and one behind it.
LEMMA GainsTaxIs ==
  ASSUME NEW b, BandsOK(b), NEW gain \in Nat, NEW taxable \in Nat, gain >= b.exempt
  PROVE  LET room == b.basic - b.pa - taxable
             tax == GainsTax(b, gain, taxable)
         IN /\ room <= 0 => tax = b.cgt[2] * (gain - b.exempt)
            /\ room > 0 /\ gain - b.exempt <= room => tax = b.cgt[1] * (gain - b.exempt)
<1> DEFINE room == b.basic - b.pa - taxable
           due == Positive(gain - b.exempt)
           left == Positive(room)
           lower == Min({due, left})
           tax == GainsTax(b, gain, taxable)
           r1 == b.cgt[1]
           r2 == b.cgt[2]
<1>1. room \in Int /\ gain - b.exempt \in Nat
  BY DEF BandsOK
<1>2. r1 \in {10, 18} /\ r2 \in {20, 24}
  BY DEF BandsOK
<1>3. tax = r1 * lower + r2 * (due - lower)
  BY DEF GainsTax
<1>4. due = gain - b.exempt
  <2> DEFINE g == gain - b.exempt
  <2> HIDE DEF g
  <2>1. g \in Nat
    BY <1>1 DEF g
  <2>2. Positive(g) = g
    BY <2>1, PositiveIs
  <2> QED
    BY <2>2 DEF g
<1>5. left = (IF room <= 0 THEN 0 ELSE room) /\ left \in Nat
  BY <1>1, PositiveIs
<1> HIDE DEF room, tax, r1, r2, left, due
<1>6. due \in Nat
  BY <1>1, <1>4
<1>7. lower = IF due <= left THEN due ELSE left
  BY <1>5, <1>6, MinOfTwo
<1> HIDE DEF lower
<1>8. room <= 0 => tax = r2 * due
  <2> SUFFICES ASSUME room <= 0 PROVE tax = r2 * due
    OBVIOUS
  <2>1. lower = 0
    BY <1>1, <1>5, <1>6, <1>7
  <2>2. tax = r1 * 0 + r2 * (due - 0)
    BY <1>3, <2>1
  <2> QED
    BY <1>2, <1>6, <2>2
<1>9. room > 0 /\ due <= room => tax = r1 * due
  <2> SUFFICES ASSUME room > 0, due <= room PROVE tax = r1 * due
    OBVIOUS
  <2>1. lower = due
    BY <1>1, <1>5, <1>6, <1>7
  <2>2. tax = r1 * due + r2 * (due - due)
    BY <1>3, <2>1
  <2> QED
    BY <1>2, <1>6, <2>2
<1> QED
  BY <1>4, <1>8, <1>9 DEF room, tax, r1, r2

\* What is charged on a gain while it fits the room the income leaves in the band.
LEMMA GainsSlope ==
  ASSUME NEW b, BandsOK(b), NEW gain \in Nat, NEW taxable \in Nat, NEW x \in Nat \ {0},
         gain >= b.exempt,
         b.basic - b.pa - taxable <= 0 \/ gain - b.exempt + x <= b.basic - b.pa - taxable
  PROVE  GainsTax(b, gain + x, taxable) - GainsTax(b, gain, taxable) = x * GainsRate(b, taxable)
<1> DEFINE room == b.basic - b.pa - taxable
           i == gain + x
           e == b.exempt
           new == GainsTax(b, i, taxable)
           old == GainsTax(b, gain, taxable)
           rate == GainsRate(b, taxable)
           r1 == b.cgt[1]
           r2 == b.cgt[2]
<1>1. room \in Int /\ e \in Nat /\ i \in Nat /\ i >= e /\ gain >= e
  BY DEF BandsOK
<1>2. r1 \in {10, 18} /\ r2 \in {20, 24}
  BY DEF BandsOK
<1>3. /\ room <= 0 => old = r2 * (gain - e)
      /\ room > 0 /\ gain - e <= room => old = r1 * (gain - e)
  BY GainsTaxIs
<1>4. /\ room <= 0 => new = r2 * (i - e)
      /\ room > 0 /\ i - e <= room => new = r1 * (i - e)
  <2> HIDE DEF i
  <2> QED
    BY <1>1, GainsTaxIs
<1>5. rate = IF room > 0 THEN r1 ELSE r2
  BY <1>2 DEF GainsRate, BandsOK
<1>6. room <= 0 \/ i - e <= room
  BY <1>1
<1> HIDE DEF room, new, old, rate, r1, r2, e
<1>7. new - old = x * rate
  <2>1. CASE room <= 0
    <3>1. old = r2 * (gain - e) /\ new = r2 * (i - e) /\ rate = r2
      BY <1>1, <1>3, <1>4, <1>5, <2>1
    <3> QED
      BY <1>1, <1>2, <3>1
  <2>2. CASE room > 0
    <3>1. old = r1 * (gain - e) /\ new = r1 * (i - e) /\ rate = r1
      BY <1>1, <1>3, <1>4, <1>5, <1>6, <2>2
    <3> QED
      BY <1>1, <1>2, <3>1
  <2> QED
    BY <1>1, <2>1, <2>2
<1> QED
  BY <1>7 DEF new, old, rate

\* The next pound costs what the marginal rates say, in every year from 2019-20
\* to 2035-36, for every income, sacrifice and gain (tax_engine): the two ways
\* of computing the tax agree wherever NextPoundTaxed compares them.
THEOREM MarginalRatesCharged == TaxSpec => []NextPoundTaxed
<1>1. TaxTypeOK => NextPoundTaxed
  <2> SUFFICES ASSUME TaxTypeOK PROVE NextPoundTaxed
    OBVIOUS
  <2> DEFINE b == Bands(taxYear)
             ani == gross - sacrifice
             taxable == Positive(gross - Allowance(b, ani))
  <2>1. /\ BandsOK(b) /\ gross \in Nat /\ ani \in Nat /\ ani <= gross
        /\ Payment \in Nat \ {0} /\ Payment % 2 = 0
        /\ sacrifice = 0 => ani = gross
    <3>1. taxYear \in 2019 .. 2035 /\ sacrifice \in Nat /\ gross \in Nat /\ sacrifice <= gross
      BY DEF TaxTypeOK
    <3> QED
      BY <3>1, BandsAreOrdered, TaxAssumption
  <2>2. (ani - b.taper) % 2 = 0
    <3>1. b.taper = 100000
      BY DEF Bands
    <3>2. ani % 2 = 0
      BY DEF TaxTypeOK
    <3> QED
      BY <2>1, <3>1, <3>2
  <2>3. taxable \in Nat
    <3> HIDE DEF b, ani
    <3>1. Allowance(b, ani) \in Nat
      BY <2>1, <2>2, AllowanceIs DEF BandsOK
    <3>2. gross - Allowance(b, ani) \in Int
      BY <2>1, <3>1
    <3>3. taxable = IF gross - Allowance(b, ani) <= 0 THEN 0 ELSE gross - Allowance(b, ani)
      BY <3>2, PositiveIs
    <3> QED
      BY <3>2, <3>3
  <2> HIDE DEF b, ani, taxable
  <2>4. ASSUME \/ gross + Payment <= b.higher /\ ani + Payment <= TaperEnd(b)
               \/ sacrifice = 0 /\ b.higher = TaperEnd(b),
               \A t \in {b.pa, b.basic, b.higher} : gross > t \/ gross + Payment <= t,
               \A t \in {b.taper, TaperEnd(b)} : ani > t \/ ani + Payment <= t,
               gross # b.pa
        PROVE  IncomeTax(b, gross + Payment, ani + Payment) - IncomeTax(b, gross, ani)
                 = Payment * IncomeTaxRate(b, gross, ani)
    BY <2>1, <2>2, <2>4, IncomeTaxSlope
  <2>5. (\A t \in {b.ni, b.basic} : ani >= t \/ ani + Payment <= t) =>
          Insurance(b, ani + Payment) - Insurance(b, ani) = Payment * InsuranceRate(b, ani)
    BY <2>1, InsuranceSlope
  <2>6. \A plan \in {1, 2} : (ani > b.loan[plan] \/ ani + Payment <= b.loan[plan]) =>
          Loan(b, ani + Payment, plan) - Loan(b, ani, plan) = Payment * LoanRate(b, ani, plan)
    BY <2>1, LoanSlope
  <2>7. \A gain \in Gains :
          gain >= b.exempt /\ (b.basic - b.pa - taxable <= 0
                               \/ gain - b.exempt + Payment <= b.basic - b.pa - taxable) =>
            GainsTax(b, gain + Payment, taxable) - GainsTax(b, gain, taxable)
              = Payment * GainsRate(b, taxable)
    <3>1. Gains \subseteq Nat
      BY TaxAssumption
    <3> QED
      BY <2>1, <2>3, <3>1, GainsSlope
  <2> QED
    BY <2>4, <2>5, <2>6, <2>7 DEF NextPoundTaxed, b, ani, taxable
<1> QED
  BY <1>1, TaxTypes, PTL

-----------------------------------------------------------------------------
(* Sell plans *)

LEMMA Division ==
  ASSUME NEW a \in Nat, NEW n \in Nat \ {0}
  PROVE  a \div n \in Nat /\ a % n \in 0 .. n - 1 /\ a % n = a - n * (a \div n)
<1>1. a \div n \in Int /\ a % n \in 0 .. n - 1
  OBVIOUS
<1>2. a % n = a - n * (a \div n)
  OBVIOUS
<1>3. a \div n \in Nat
  <2> SUFFICES ASSUME a \div n <= -1 PROVE FALSE
    BY <1>1
  <2>1. n * (a \div n) <= -n
    BY <1>1
  <2> QED
    BY <1>1, <1>2, <2>1
<1> QED
  BY <1>1, <1>2, <1>3

LEMMA Products ==
  ASSUME NEW a \in Nat, NEW b \in Nat
  PROVE  /\ a * b \in Nat
         /\ (a + 1) * b = a * b + b
         /\ \A c \in Nat : b > 0 /\ a * b = c * b => a = c
<1>1. a * b \in Nat
  OBVIOUS
<1>2. (a + 1) * b = a * b + b
  OBVIOUS
<1>3. ASSUME NEW c \in Nat, b > 0, a * b = c * b
      PROVE  a = c
  <2>1. (a - c) * b = 0
    BY <1>3
  <2>2. a - c = 0
    BY <1>3, <2>1
  <2> QED
    BY <2>2
<1> QED
  BY <1>1, <1>2, <1>3

\* The tranches sell the whole quantity, neither more nor less.
LEMMA SplitAddsUp ==
  ASSUME NEW total \in Nat, NEW n \in Nat \ {0}
  PROVE  /\ \A i \in 1 .. n : Split(total, n)[i] \in Nat
         /\ SumFunctionOnSet(Split(total, n), 1 .. n) = total
<1> DEFINE q == total \div n
           r == total % n
           f == Split(total, n)
           T == {k \in Nat : k <= n => SumFunctionOnSet(f, 1 .. k) = k * q + (IF k <= r THEN k ELSE r)}
<1>1. q \in Nat /\ r \in 0 .. n - 1 /\ r = total - n * q
  BY Division
<1>2. \A i \in 1 .. n : f[i] = q + (IF i <= r THEN 1 ELSE 0)
  BY DEF Split
<1> HIDE DEF q, r, f
<1>3. \A i \in 1 .. n : f[i] \in Nat
  BY <1>1, <1>2
<1>4. 0 \in T
  <2>1. 1 .. 0 = {}
    OBVIOUS
  <2>2. 0 * q + (IF 0 <= r THEN 0 ELSE r) = 0
    BY <1>1
  <2> QED
    BY <2>1, <2>2, SumOfNone
<1>5. ASSUME NEW k \in T PROVE k + 1 \in T
  <2> SUFFICES ASSUME k + 1 <= n
               PROVE  SumFunctionOnSet(f, 1 .. k + 1)
                        = (k + 1) * q + (IF k + 1 <= r THEN k + 1 ELSE r)
    OBVIOUS
  <2>1. k \in Nat /\ k <= n
    OBVIOUS
  <2>2. 1 .. k + 1 = (1 .. k) \cup {k + 1} /\ k + 1 \notin 1 .. k /\ IsFiniteSet(1 .. k)
    <3>1. IsFiniteSet(1 .. k)
      BY <2>1, FS_Interval
    <3> QED
      BY <2>1, <3>1
  <2>3. \A i \in (1 .. k) \cup {k + 1} : f[i] \in Int
    BY <1>3, <2>1
  <2>4. SumFunctionOnSet(f, (1 .. k) \cup {k + 1}) = SumFunctionOnSet(f, 1 .. k) + f[k + 1]
    BY <2>2, <2>3, SumAdd
  <2>5. SumFunctionOnSet(f, 1 .. k) = k * q + (IF k <= r THEN k ELSE r)
    BY <2>1
  <2>6. f[k + 1] = q + (IF k + 1 <= r THEN 1 ELSE 0)
    BY <1>2, <2>1
  <2>7. k * q \in Nat /\ (k + 1) * q = k * q + q
    BY <1>1, <2>1, Products
  <2>8. \A m \in Nat : m + (IF k <= r THEN k ELSE r) + (q + (IF k + 1 <= r THEN 1 ELSE 0))
                         = m + q + (IF k + 1 <= r THEN k + 1 ELSE r)
    BY <1>1, <2>1
  <2> QED
    BY <2>2, <2>4, <2>5, <2>6, <2>7, <2>8
<1>6. T = Nat
  <2> HIDE DEF T
  <2>1. T \in SUBSET Nat
    BY DEF T
  <2> QED
    BY <1>4, <1>5, <2>1, NatsAll
<1>7. SumFunctionOnSet(f, 1 .. n) = n * q + (IF n <= r THEN n ELSE r)
  BY <1>6
<1>8. (IF n <= r THEN n ELSE r) = r /\ n * q + r = total
  BY <1>1
<1> QED
  BY <1>3, <1>7, <1>8 DEF f

Terms == [total : Nat \ {0}, sellable : Nat, count : Nat \ {0}, cadence : Nat \ {0},
          spacing : Nat \ {0}, cap : Nat \ {0}]

\* Terms create_plan accepts.
Accepted(terms) ==
  /\ terms \in Terms
  /\ terms.total <= terms.sellable /\ terms.count <= terms.total
  /\ WithinConstraints(terms)

PlanRow(terms) ==
  [status : {"ACTIVE", "COMPLETED", "CANCELLED"}, approved : BOOLEAN,
   tranches : [1 .. terms.count ->
                [day : Nat, qty : Nat, status : {"PLANNED", "EXECUTED", "CANCELLED"}]]]

\* The order a plan of these terms stages for its i-th tranche.
OrderOf(p, terms, i) ==
  [id |-> <<p, i, (i - 1) * terms.cadence>>, plan |-> p, day |-> (i - 1) * terms.cadence,
   qty |-> Split(terms.total, terms.count)[i]]

\* The tranches of a plan keep the days and quantities it was made with, and all
\* that was staged, whatever has become of the plan since, is an order of one of
\* its tranches.
PlanInv ==
  /\ \A p \in DOMAIN made : Accepted(made[p])
  /\ DOMAIN plans \subseteq DOMAIN made
  /\ plans = [p \in DOMAIN plans |-> plans[p]]
  /\ \A p \in DOMAIN plans :
       /\ plans[p] \in PlanRow(made[p])
       /\ \A i \in 1 .. made[p].count :
            /\ plans[p].tranches[i].day = (i - 1) * made[p].cadence
            /\ plans[p].tranches[i].qty = Split(made[p].total, made[p].count)[i]
  /\ \A o \in staged :
       /\ o.plan \in DOMAIN made
       /\ \E i \in 1 .. made[o.plan].count : o = OrderOf(o.plan, made[o.plan], i)

LEMMA PlanStep == PlanInv /\ [PlanNext]_planVars => PlanInv'
<1> SUFFICES ASSUME PlanInv, [PlanNext]_planVars PROVE PlanInv'
  OBVIOUS
<1>1. ASSUME NEW p \in PlanIds, NEW terms \in Terms, CreatePlan(p, terms)
      PROVE  PlanInv'
  <2>1. /\ p \notin DOMAIN made /\ Accepted(terms)
        /\ DOMAIN made' = DOMAIN made \cup {p} /\ DOMAIN plans' = DOMAIN plans \cup {p}
        /\ made'[p] = terms /\ \A x \in DOMAIN made : made'[x] = made[x]
        /\ staged' = staged
    BY <1>1 DEF CreatePlan, Accepted
  <2>2. /\ plans'[p] = [status |-> "ACTIVE", approved |-> FALSE, tranches |-> Tranches(terms)]
        /\ plans' = [x \in DOMAIN plans' |-> plans'[x]]
    BY <1>1 DEF CreatePlan
  <2>3. \A x \in DOMAIN plans : x \in DOMAIN made /\ x # p /\ plans'[x] = plans[x]
    BY <1>1, <2>1 DEF CreatePlan, PlanInv
  <2>4. \A i \in 1 .. terms.count : /\ Tranches(terms)[i].day = (i - 1) * terms.cadence
                                    /\ Tranches(terms)[i].qty = Split(terms.total, terms.count)[i]
    BY DEF Tranches
  <2>5. Tranches(terms) \in [1 .. terms.count ->
          [day : Nat, qty : Nat, status : {"PLANNED", "EXECUTED", "CANCELLED"}]]
    <3> SUFFICES ASSUME NEW i \in 1 .. terms.count
                 PROVE  (i - 1) * terms.cadence \in Nat /\ Split(terms.total, terms.count)[i] \in Nat
      BY DEF Tranches
    <3>1. terms.count \in Nat \ {0} /\ terms.total \in Nat /\ terms.cadence \in Nat /\ i - 1 \in Nat
      BY DEF Terms
    <3> QED
      BY <3>1, SplitAddsUp, Products
  <2>6. plans'[p] \in PlanRow(terms)
    BY <2>2, <2>5 DEF PlanRow
  <2>7. \A x \in DOMAIN made' : Accepted(made'[x])
    BY <2>1 DEF PlanInv
  <2>8. \A x \in DOMAIN plans' :
          /\ plans'[x] \in PlanRow(made'[x])
          /\ \A i \in 1 .. made'[x].count :
               /\ plans'[x].tranches[i].day = (i - 1) * made'[x].cadence
               /\ plans'[x].tranches[i].qty = Split(made'[x].total, made'[x].count)[i]
    <3> SUFFICES ASSUME NEW x \in DOMAIN plans'
                 PROVE  /\ plans'[x] \in PlanRow(made'[x])
                        /\ \A i \in 1 .. made'[x].count :
                             /\ plans'[x].tranches[i].day = (i - 1) * made'[x].cadence
                             /\ plans'[x].tranches[i].qty = Split(made'[x].total, made'[x].count)[i]
      OBVIOUS
    <3>1. CASE x = p
      <4>1. plans'[p].tranches = Tranches(terms)
        BY <2>2
      <4>2. plans'[p] \in PlanRow(made'[p])
        BY <2>1, <2>6
      <4>3. \A i \in 1 .. made'[p].count :
              /\ plans'[p].tranches[i].day = (i - 1) * made'[p].cadence
              /\ plans'[p].tranches[i].qty = Split(made'[p].total, made'[p].count)[i]
        BY <2>1, <2>4, <4>1
      <4> QED
        BY <3>1, <4>2, <4>3
    <3>2. CASE x # p
      <4>1. x \in DOMAIN plans /\ plans'[x] = plans[x] /\ made'[x] = made[x]
        BY <2>1, <2>3, <3>2
      <4> QED
        BY <4>1 DEF PlanInv
    <3> QED
      BY <3>1, <3>2
  <2>9. \A o \in staged' :
          /\ o.plan \in DOMAIN made'
          /\ \E i \in 1 .. made'[o.plan].count : o = OrderOf(o.plan, made'[o.plan], i)
    BY <2>1 DEF PlanInv
  <2>10. DOMAIN plans' \subseteq DOMAIN made'
    BY <2>1 DEF PlanInv
  <2> QED
    BY <2>2, <2>7, <2>8, <2>9, <2>10 DEF PlanInv
<1>2. ASSUME NEW p \in DOMAIN plans, NEW approved \in BOOLEAN, SetApproval(p, approved)
      PROVE  PlanInv'
  <2>1. /\ plans[p] \in PlanRow(made[p]) /\ plans = [x \in DOMAIN plans |-> plans[x]]
        /\ p \in DOMAIN made
    BY DEF PlanInv
  <2>2. plans' = [plans EXCEPT ![p].approved = approved] /\ UNCHANGED <<made, staged>>
    BY <1>2 DEF SetApproval
  <2>3. /\ DOMAIN plans' = DOMAIN plans /\ \A x \in DOMAIN plans : x # p => plans'[x] = plans[x]
        /\ plans' = [x \in DOMAIN plans' |-> plans'[x]]
    BY <2>1, <2>2
  <2>4. plans'[p] \in PlanRow(made[p]) /\ plans'[p].tranches = plans[p].tranches
    BY <2>1, <2>2 DEF PlanRow
  <2> QED
    BY <2>2, <2>3, <2>4 DEF PlanInv
<1>3. ASSUME NEW p \in DOMAIN plans, NEW i \in DOMAIN plans[p].tranches,
             NEW s \in {"PLANNED", "EXECUTED", "CANCELLED"}, SetTrancheStatus(p, i, s)
      PROVE  PlanInv'
  <2> DEFINE tranches == [plans[p].tranches EXCEPT ![i].status = s]
             row == plans'[p]
  <2>1. /\ plans[p] \in PlanRow(made[p]) /\ plans = [x \in DOMAIN plans |-> plans[x]]
        /\ p \in DOMAIN made
    BY DEF PlanInv
  <2>2. /\ tranches \in [1 .. made[p].count ->
             [day : Nat, qty : Nat, status : {"PLANNED", "EXECUTED", "CANCELLED"}]]
        /\ \A k \in 1 .. made[p].count : /\ tranches[k].day = plans[p].tranches[k].day
                                         /\ tranches[k].qty = plans[p].tranches[k].qty
    BY <2>1 DEF PlanRow
  <2>3. StatusOf(tranches) \in {"ACTIVE", "COMPLETED", "CANCELLED"}
    BY DEF StatusOf
  <2>4. /\ plans' = [plans EXCEPT ![p].tranches = tranches, ![p].status = StatusOf(tranches)]
        /\ UNCHANGED <<made, staged>>
    BY <1>3 DEF SetTrancheStatus
  <2> HIDE DEF tranches
  <2>5. /\ DOMAIN plans' = DOMAIN plans /\ \A x \in DOMAIN plans : x # p => plans'[x] = plans[x]
        /\ plans' = [x \in DOMAIN plans' |-> plans'[x]]
    BY <2>1, <2>4
  <2>6. plans'[p] \in PlanRow(made[p]) /\ plans'[p].tranches = tranches
    BY <2>1, <2>2, <2>3, <2>4 DEF PlanRow
  <2> QED
    BY <2>2, <2>4, <2>5, <2>6 DEF PlanInv
<1>4. ASSUME NEW p \in DOMAIN plans, NEW closed \in BOOLEAN, Export(p, closed)
      PROVE  PlanInv'
  <2>1. /\ p \in DOMAIN made /\ UNCHANGED <<plans, made>>
        /\ DOMAIN plans[p].tranches = 1 .. made[p].count
    BY <1>4 DEF Export, PlanInv, PlanRow
  <2>2. ASSUME NEW o \in staged', o \notin staged
        PROVE  o.plan = p /\ \E i \in 1 .. made[p].count : o = OrderOf(p, made[p], i)
    <3>1. PICK i \in DOMAIN plans[p].tranches :
            o = [id  |-> ExternalId(p, i), plan |-> p, day |-> plans[p].tranches[i].day,
                 qty |-> plans[p].tranches[i].qty]
      BY <1>4, <2>2 DEF Export
    <3>2. /\ plans[p].tranches[i].day = (i - 1) * made[p].cadence
          /\ plans[p].tranches[i].qty = Split(made[p].total, made[p].count)[i]
      BY <2>1 DEF PlanInv
    <3> QED
      BY <2>1, <3>1, <3>2 DEF ExternalId, OrderOf
  <2> QED
    BY <2>1, <2>2 DEF PlanInv
<1>5. ASSUME NEW p \in DOMAIN plans, DeletePlan(p) PROVE PlanInv'
  BY <1>5 DEF DeletePlan, PlanInv, Restrict
<1>6. CASE TornSave
  BY <1>6 DEF TornSave, NoPlans, PlanInv
<1>7. CASE UNCHANGED planVars
  BY <1>7 DEF planVars, PlanInv
<1>8. \A total \in Totals, sellable \in Sellables, count \in Counts, cadence \in Cadences,
         spacing \in Spacings, cap \in Caps :
        [total |-> total, sellable |-> sellable, count |-> count,
         cadence |-> cadence, spacing |-> spacing, cap |-> cap] \in Terms
  BY PlanAssumption DEF Terms
<1> QED
  BY <1>1, <1>2, <1>3, <1>4, <1>5, <1>6, <1>7, <1>8 DEF PlanNext

LEMMA OrdersFit ==
  ASSUME PlanInv
  PROVE  StagedWithinPlan
<1> SUFFICES ASSUME NEW p \in DOMAIN made
             PROVE  LET mine   == {o \in staged : o.plan = p}
                        sum(S) == SumFunctionOnSet([o \in S |-> o.qty], S)
                    IN /\ sum(mine) <= made[p].sellable
                       /\ \A o \in mine : sum({x \in mine : x.day = o.day}) <= made[p].cap
  BY DEF StagedWithinPlan
<1> DEFINE terms == made[p]
           n == terms.count
           f == Split(terms.total, n)
           mine == {o \in staged : o.plan = p}
           I == {i \in 1 .. n : OrderOf(p, terms, i) \in mine}
           g == [i \in I |-> OrderOf(p, terms, i)]
           qty == [o \in mine |-> o.qty]
<1>1. Accepted(terms)
  BY DEF PlanInv
<1>2. terms \in Terms /\ n \in Nat \ {0} /\ terms.total \in Nat
  BY <1>1 DEF Accepted, Terms
<1>3. mine = {g[i] : i \in I}
  <2>1. \A o \in mine : \E i \in 1 .. n : o = OrderOf(p, terms, i)
    BY DEF PlanInv
  <2> QED
    BY <2>1
<1>4. \A i \in I : g[i].id = <<p, i, (i - 1) * terms.cadence>> /\ g[i].qty = f[i]
                   /\ g[i].day = (i - 1) * terms.cadence
  BY DEF OrderOf
<1>5. (\A i \in 1 .. n : f[i] \in Nat) /\ SumFunctionOnSet(f, 1 .. n) = terms.total
  BY <1>2, SplitAddsUp
<1>6. I \subseteq 1 .. n /\ IsFiniteSet(1 .. n)
  <2>1. IsFiniteSet(1 .. n)
    BY <1>2, FS_Interval
  <2> QED
    BY <2>1
<1>7. \A o \in mine : qty[o] = o.qty
  OBVIOUS
<1>8. SumFunctionOnSet(qty, mine) <= terms.sellable
  <2> HIDE DEF f, mine, I, g, qty, n, terms
  <2>1. IsFiniteSet(I)
    BY <1>6, FS_Subset
  <2>2. \A i, j \in I : g[i] = g[j] => i = j
    BY <1>4
  <2>3. \A i \in I : qty[g[i]] \in Int /\ f[i] = qty[g[i]]
    BY <1>3, <1>4, <1>5, <1>6, <1>7
  <2>4. SumFunctionOnSet(qty, {g[i] : i \in I}) = SumFunctionOnSet(f, I)
    BY <2>1, <2>2, <2>3, SumOfImage
  <2>5. SumFunctionOnSet(f, I) <= SumFunctionOnSet(f, 1 .. n)
    BY <1>5, <1>6, SumOfPart
  <2>6. terms.total <= terms.sellable /\ terms.sellable \in Nat /\ terms.total \in Nat
    BY <1>1 DEF Accepted, Terms
  <2>7. SumFunctionOnSet(f, I) \in Nat
    BY <1>5, <1>6, <2>1, SumNat
  <2>8. SumFunctionOnSet(f, I) <= terms.sellable
    BY <1>5, <2>5, <2>6, <2>7, NatOrder
  <2> QED
    BY <1>3, <2>4, <2>8
<1>9. ASSUME NEW o \in mine
      PROVE  LET day == {x \in mine : x.day = o.day}
             IN SumFunctionOnSet([x \in day |-> x.qty], day) <= terms.cap
  <2> DEFINE day == {x \in mine : x.day = o.day}
  <2>1. PICK i \in I : o = g[i]
    BY <1>3
  <2>2. day = {o}
    <3> SUFFICES ASSUME NEW x \in mine, x.day = o.day PROVE x = o
      OBVIOUS
    <3>1. PICK j \in I : x = g[j]
      BY <1>3
    <3>2. (i - 1) * terms.cadence = (j - 1) * terms.cadence
      BY <1>4, <2>1, <3>1
    <3>3. i - 1 \in Nat /\ j - 1 \in Nat /\ terms.cadence \in Nat /\ terms.cadence > 0
      BY <1>2 DEF Terms
    <3>4. i - 1 = j - 1
      BY <3>2, <3>3, Products
    <3>5. i = j
      BY <3>3, <3>4
    <3> QED
      BY <2>1, <3>1, <3>5
  <2>3. o.qty \in Nat /\ o.qty <= terms.cap
    <3>1. f[i] <= terms.cap
      BY <1>1, <1>6 DEF Accepted, WithinConstraints
    <3> QED
      BY <1>4, <1>5, <1>6, <2>1, <3>1
  <2>4. SumFunctionOnSet([x \in {o} |-> x.qty], {o}) = o.qty
    <3> DEFINE h == [x \in {o} |-> x.qty]
    <3>1. h[o] = o.qty /\ h[o] \in Int
      BY <2>3
    <3> HIDE DEF h
    <3>2. SumFunctionOnSet(h, {o}) = h[o]
      BY <3>1, SumOfOne
    <3> QED
      BY <3>1, <3>2 DEF h
  <2> HIDE DEF mine, day
  <2>5. SumFunctionOnSet([x \in day |-> x.qty], day) <= terms.cap
    BY <2>2, <2>3, <2>4
  <2> QED
    BY <2>5 DEF day
<1> QED
  BY <1>8, <1>9

\* However often a plan is exported, cancelled, put back and exported again, its
\* orders sell what could be sold when it was made, and keep its daily cap
\* (SellPlanService).
THEOREM OrdersWithinPlan == PlanSpec => []StagedWithinPlan
<1>1. PlanInit => PlanInv
  BY DEF PlanInit, NoPlans, PlanInv
<1> QED
  BY <1>1, PlanStep, OrdersFit, PTL DEF PlanSpec

-----------------------------------------------------------------------------
(* Simulated trades of a session *)

Trade == [instrument : Instruments, session : SessionDays, entry : Nat,
          status : {"OPEN", "CLOSED"}, opened : Nat]

IntradayTypeOK ==
  /\ clock \in [day : Nat, minute : Nat]
  /\ seen \in [Instruments -> [SessionDays -> Nat]]
  /\ trades \in Seq(Trade)

IntradayInv == IntradayTypeOK /\ OneTradePerSession

\* Which session a trade is of, and when it was opened, is all the property reads.
SameTrade(t, u) == t.instrument = u.instrument /\ t.session = u.session /\ t.opened = u.opened

\* A trade that is opened has its instrument's newest session, of today.
LEMMA EntryIsTrade ==
  ASSUME IntradayTypeOK, NEW i \in Instruments, NEW s \in {"OPEN", "CLOSED"},
         NewestSession(i) # {}
  PROVE  /\ Entry(i, s) \in Trade
         /\ Entry(i, s).instrument = i /\ Entry(i, s).opened = clock.day
         /\ Entry(i, s).session \in NewestSession(i)
<1> DEFINE r == CHOOSE d \in NewestSession(i) : TRUE
<1>1. r \in NewestSession(i)
  OBVIOUS
<1>2. r \in SessionDays
  BY <1>1 DEF NewestSession
<1>3. Entry(i, s) = [instrument |-> i, session |-> r, entry |-> seen[i][r], status |-> s,
                     opened |-> clock.day]
  BY DEF Entry
<1> HIDE DEF r
<1>4. seen[i][r] \in Nat /\ clock.day \in Nat
  BY <1>2 DEF IntradayTypeOK
<1> QED
  BY <1>1, <1>2, <1>3, <1>4 DEF Trade

\* The loop admits the first of its rows, as many as the cap lets through.
LEMMA AdmittedRows ==
  ASSUME NEW rows \in Seq(Trade)
  PROVE  \E c \in 0 .. Len(rows) :
           /\ Admitted(rows) \in Seq(Trade) /\ Len(Admitted(rows)) = c
           /\ \A n \in 1 .. c : Admitted(rows)[n] = rows[n]
<1> DEFINE open(n) == OpenCount(trades) + OpenCount(SubSeq(rows, 1, n - 1))
           C == {n \in DOMAIN rows : ~policy.live \/ open(n) < policy.cap}
           c == Cardinality(C)
<1>1. Len(rows) \in Nat /\ DOMAIN rows = 1 .. Len(rows) /\ \A n \in 1 .. Len(rows) : rows[n] \in Trade
  BY LenProperties, ElementOfSeq
<1>2. IsFiniteSet(1 .. Len(rows)) /\ Cardinality(1 .. Len(rows)) = Len(rows)
  <2> DEFINE l == Len(rows)
  <2>1. l \in Nat
    BY <1>1
  <2> HIDE DEF l
  <2>2. /\ IsFiniteSet(1 .. l)
        /\ Cardinality(1 .. l) = IF 1 > l THEN 0 ELSE l - 1 + 1
    BY <2>1, FS_Interval
  <2>3. IsFiniteSet(1 .. l) /\ Cardinality(1 .. l) = l
    BY <2>1, <2>2
  <2> QED
    BY <2>3 DEF l
<1>3. C \subseteq 1 .. Len(rows)
  BY <1>1
<1>4. Admitted(rows) = SubSeq(rows, 1, c)
  BY DEF Admitted
<1> HIDE DEF C
<1>5. c \in Nat /\ c <= Len(rows)
  BY <1>2, <1>3, FS_Subset, FS_CardinalityType
<1> HIDE DEF c
<1>6. \A n \in 1 .. c : rows[n] \in Trade
  BY <1>1, <1>5
<1>7. SubSeq(rows, 1, c) \in Seq(Trade)
      /\ Len(SubSeq(rows, 1, c)) = (IF 1 <= c THEN c - 1 + 1 ELSE 0)
      /\ \A n \in 1 .. c - 1 + 1 : SubSeq(rows, 1, c)[n] = rows[1 + n - 1]
  BY <1>5, <1>6, SubSeqProperties
<1>8. Len(SubSeq(rows, 1, c)) = c /\ \A n \in 1 .. c : SubSeq(rows, 1, c)[n] = rows[n]
  BY <1>5, <1>7
<1> QED
  BY <1>1, <1>4, <1>5, <1>7, <1>8

\* A refresh closes trades or not, and opens at most one of each instrument, in a
\* session that has none of today or yesterday.
LEMMA RefreshKeepsOne ==
  ASSUME IntradayInv, Refresh
  PROVE  IntradayInv'
<1>1. PICK chosen \in SUBSET Instruments, outcome \in [DOMAIN trades -> {"OPEN", "CLOSED"}] :
        LET replayed == [k \in DOMAIN trades |-> [trades[k] EXCEPT !.status = outcome[k]]]
        IN \E entered \in SUBSET Candidates(replayed, Focus(chosen)) :
           \E first \in [entered -> {"OPEN", "CLOSED"}], order \in SetToSeqs(entered) :
             LET rows == [n \in DOMAIN order |-> Entry(order[n], first[order[n]])]
             IN trades' = replayed \o Admitted(rows)
  BY DEF Refresh
<1> DEFINE replayed == [k \in DOMAIN trades |-> [trades[k] EXCEPT !.status = outcome[k]]]
<1>2. PICK entered \in SUBSET Candidates(replayed, Focus(chosen)) :
      \E first \in [entered -> {"OPEN", "CLOSED"}], order \in SetToSeqs(entered) :
        trades' = replayed \o Admitted([n \in DOMAIN order |-> Entry(order[n], first[order[n]])])
  BY <1>1
<1>3. PICK first \in [entered -> {"OPEN", "CLOSED"}], order \in SetToSeqs(entered) :
        trades' = replayed \o Admitted([n \in DOMAIN order |-> Entry(order[n], first[order[n]])])
  BY <1>2
<1> DEFINE rows == [n \in DOMAIN order |-> Entry(order[n], first[order[n]])]
           L == Len(trades)
<1>4. /\ trades \in Seq(Trade) /\ L \in Nat /\ DOMAIN trades = 1 .. L
      /\ \A k \in 1 .. L : trades[k] \in Trade
  BY LenProperties, ElementOfSeq DEF IntradayInv, IntradayTypeOK
<1>5. \A k \in 1 .. L : replayed[k] \in Trade /\ SameTrade(replayed[k], trades[k])
  BY <1>4 DEF Trade, SameTrade
<1>6. replayed \in Seq(Trade) /\ Len(replayed) = L
  <2>1. replayed \in [1 .. L -> Trade]
    BY <1>4, <1>5
  <2> HIDE DEF replayed
  <2>2. replayed \in Seq(Trade)
    BY <1>4, <2>1, SeqDef
  <2> QED
    BY <1>4, <2>1, <2>2, LenProperties
<1>7. \A i \in entered : /\ i \in Instruments /\ NewestSession(i) # {}
                         /\ NewestSession(i) \cap TakenSessions(replayed, i) = {}
  <2>1. Focus(chosen) \subseteq Instruments
    BY <1>4 DEF Focus, Trade
  <2> QED
    BY <2>1 DEF Candidates
<1>8. /\ Cardinality(entered) \in Nat
      /\ order \in [1 .. Cardinality(entered) -> entered]
      /\ \A k, n \in 1 .. Cardinality(entered) : k # n => order[k] # order[n]
  <2>1. IsFiniteSet(entered)
    BY <1>7, IntradayAssumption, FS_Subset
  <2> QED
    BY <2>1, FS_CardinalityType DEF SetToSeqs
<1> DEFINE E == Cardinality(entered)
<1> HIDE DEF replayed, E
<1>9. \A n \in 1 .. E : /\ rows[n] \in Trade
                        /\ rows[n].instrument = order[n] /\ order[n] \in entered
                        /\ rows[n].opened = clock.day
                        /\ rows[n].session \in NewestSession(order[n])
  <2> TAKE n \in 1 .. E
  <2>1. order[n] \in entered /\ rows[n] = Entry(order[n], first[order[n]])
    BY <1>8 DEF E
  <2>2. first[order[n]] \in {"OPEN", "CLOSED"}
    BY <2>1
  <2>3. IntradayTypeOK
    BY DEF IntradayInv
  <2> HIDE DEF rows
  <2> QED
    BY <1>7, <2>1, <2>2, <2>3, EntryIsTrade
<1>10. rows \in Seq(Trade) /\ Len(rows) = E
  <2>1. rows \in [1 .. E -> Trade] /\ E \in Nat
    BY <1>8, <1>9 DEF E
  <2> HIDE DEF rows
  <2>2. rows \in Seq(Trade)
    BY <2>1, SeqDef
  <2> QED
    BY <2>1, <2>2, LenProperties
<1>11. trades' = replayed \o Admitted(rows)
  BY <1>3 DEF replayed
<1> HIDE DEF rows
<1>12. PICK c \in 0 .. E : /\ Admitted(rows) \in Seq(Trade) /\ Len(Admitted(rows)) = c
                           /\ \A n \in 1 .. c : Admitted(rows)[n] = rows[n]
  BY <1>10, AdmittedRows
<1>13. E \in Nat
  BY <1>8 DEF E
<1>14. /\ trades' \in Seq(Trade) /\ Len(trades') = L + c
       /\ \A k \in 1 .. L : trades'[k] = replayed[k]
       /\ \A k \in L + 1 .. L + c : trades'[k] = rows[k - L]
  <2>1. /\ trades' \in Seq(Trade) /\ Len(trades') = L + c
        /\ \A k \in 1 .. L + c :
             trades'[k] = IF k <= L THEN replayed[k] ELSE Admitted(rows)[k - L]
    <3> DEFINE a == Admitted(rows)
    <3>1. a \in Seq(Trade) /\ Len(a) = c
      BY <1>12
    <3> HIDE DEF a
    <3>2. /\ replayed \o a \in Seq(Trade)
          /\ Len(replayed \o a) = Len(replayed) + Len(a)
          /\ \A k \in 1 .. Len(replayed) + Len(a) :
               (replayed \o a)[k] = IF k <= Len(replayed) THEN replayed[k] ELSE a[k - Len(replayed)]
      BY <1>6, <3>1, ConcatProperties
    <3>3. trades' = replayed \o a
      BY <1>11 DEF a
    <3> QED
      BY <1>6, <3>1, <3>2, <3>3 DEF a
  <2> HIDE DEF L
  <2> QED
    BY <1>4, <1>12, <1>13, <2>1
<1>15. IntradayTypeOK'
  BY <1>14 DEF IntradayInv, IntradayTypeOK, Refresh
<1>16. OneTradePerSession'
  <2> SUFFICES ASSUME NEW k \in 1 .. L + c, NEW n \in 1 .. L + c, k < n,
                      trades'[k].instrument = trades'[n].instrument,
                      trades'[k].session = trades'[n].session
               PROVE  trades'[n].opened > trades'[k].session + 1
    <3>1. DOMAIN trades' = 1 .. L + c
      BY <1>14, LenProperties
    <3> QED
      BY <3>1 DEF OneTradePerSession
  <2>1. CASE n <= L
    <3>1. k \in 1 .. L /\ n \in 1 .. L
      BY <1>4, <2>1
    <3>2. /\ trades[k].instrument = trades[n].instrument
          /\ trades[k].session = trades[n].session
      BY <1>5, <1>14, <3>1 DEF SameTrade
    <3>3. trades[n].opened > trades[k].session + 1
      BY <1>4, <3>1, <3>2 DEF IntradayInv, OneTradePerSession
    <3> QED
      BY <1>5, <1>14, <3>1, <3>3 DEF SameTrade
  <2>2. CASE k <= L /\ n > L
    <3> DEFINE m == n - L
               i == order[m]
    <3>1. k \in 1 .. L /\ m \in 1 .. E /\ n \in L + 1 .. L + c
      BY <1>4, <1>12, <1>13, <2>2
    <3>2. trades'[n] = rows[m] /\ trades'[k] = replayed[k]
      BY <1>14, <3>1
    <3> HIDE DEF m
    <3>3. i \in entered /\ rows[m].instrument = i /\ rows[m].opened = clock.day
          /\ rows[m].session \in NewestSession(i)
      BY <1>9, <3>1
    <3>4. replayed[k].session \notin TakenSessions(replayed, i)
      BY <1>7, <3>2, <3>3
    <3>5. k \in DOMAIN replayed /\ replayed[k].instrument = i
      BY <1>6, <3>1, <3>2, <3>3, LenProperties
    <3>6. ~(replayed[k].session + 1 >= clock.day)
      BY <3>4, <3>5 DEF TakenSessions
    <3>7. replayed[k].session \in Nat /\ clock.day \in Nat
      <4>1. replayed[k].session \in SessionDays
        BY <1>5, <3>1 DEF Trade
      <4>2. SessionDays \subseteq Nat
        BY IntradayAssumption
      <4>3. clock.day \in Nat
        BY DEF IntradayInv, IntradayTypeOK
      <4> QED
        BY <4>1, <4>2, <4>3
    <3> QED
      BY <3>2, <3>3, <3>6, <3>7
  <2>3. CASE k > L
    <3> DEFINE p == k - L
               m == n - L
    <3>1. p \in 1 .. E /\ m \in 1 .. E /\ p # m
          /\ k \in L + 1 .. L + c /\ n \in L + 1 .. L + c
      BY <1>4, <1>12, <1>13, <2>3
    <3>2. trades'[k] = rows[p] /\ trades'[n] = rows[m]
      BY <1>14, <3>1
    <3> HIDE DEF p, m
    <3>3. order[p] # order[m]
      BY <1>8, <3>1 DEF E
    <3> QED
      BY <1>9, <3>1, <3>2, <3>3
  <2> QED
    BY <1>4, <1>12, <1>13, <2>1, <2>2, <2>3
<1> QED
  BY <1>15, <1>16 DEF IntradayInv

\* A rebuild leaves some of the trades, in their order.
LEMMA RebuildKeepsOne ==
  ASSUME IntradayInv, Rebuild
  PROVE  IntradayInv'
<1>1. PICK chosen \in SUBSET Instruments :
        \E left \in SetToSeqs({k \in DOMAIN trades : trades[k].instrument \notin Focus(chosen)}) :
          /\ \A k, n \in DOMAIN left : k < n => left[k] < left[n]
          /\ trades' = [k \in DOMAIN left |-> trades[left[k]]]
  BY DEF Rebuild
<1> DEFINE kept == {k \in DOMAIN trades : trades[k].instrument \notin Focus(chosen)}
           N == Cardinality(kept)
<1>2. PICK left \in SetToSeqs(kept) :
        /\ \A k, n \in DOMAIN left : k < n => left[k] < left[n]
        /\ trades' = [k \in DOMAIN left |-> trades[left[k]]]
  BY <1>1
<1>3. /\ Len(trades) \in Nat /\ DOMAIN trades = 1 .. Len(trades)
      /\ \A k \in DOMAIN trades : trades[k] \in Trade
  BY LenProperties, ElementOfSeq DEF IntradayInv, IntradayTypeOK
<1>4. kept \subseteq DOMAIN trades
  OBVIOUS
<1> HIDE DEF kept
<1>5. left \in [1 .. N -> kept] /\ N \in Nat
  <2> DEFINE l == Len(trades)
  <2>1. l \in Nat /\ kept \subseteq 1 .. l
    BY <1>3, <1>4
  <2> HIDE DEF l
  <2>2. IsFiniteSet(1 .. l)
    BY <2>1, FS_Interval
  <2>3. IsFiniteSet(kept)
    BY <2>1, <2>2, FS_Subset
  <2> QED
    BY <2>3, FS_CardinalityType DEF SetToSeqs
<1> HIDE DEF N
<1>6. trades' \in [1 .. N -> Trade]
  BY <1>2, <1>3, <1>4, <1>5
<1>7. trades' \in Seq(Trade)
  BY <1>5, <1>6, SeqDef
<1>8. OneTradePerSession'
  <2> SUFFICES ASSUME NEW k \in 1 .. N, NEW n \in 1 .. N, k < n,
                      trades'[k].instrument = trades'[n].instrument,
                      trades'[k].session = trades'[n].session
               PROVE  trades'[n].opened > trades'[k].session + 1
    BY <1>6 DEF OneTradePerSession
  <2>1. /\ left[k] \in DOMAIN trades /\ left[n] \in DOMAIN trades /\ left[k] < left[n]
        /\ trades'[k] = trades[left[k]] /\ trades'[n] = trades[left[n]]
    BY <1>2, <1>4, <1>5
  <2> QED
    BY <2>1 DEF IntradayInv, OneTradePerSession
<1>9. IntradayTypeOK'
  BY <1>7 DEF IntradayInv, IntradayTypeOK, Rebuild
<1> QED
  BY <1>8, <1>9 DEF IntradayInv

\* Every other step leaves the trades, and the observations of a session are minutes.
LEMMA IntradayStep ==
  ASSUME IntradayInv, [IntradayNext]_intradayVars
  PROVE  IntradayInv'
<1>1. IntradayTypeOK /\ SessionDays \subseteq Nat /\ Close \in Nat /\ LastMinute \in Nat
  BY IntradayAssumption DEF IntradayInv
<1>2. ASSUME trades' = trades, IntradayTypeOK' PROVE IntradayInv'
  BY <1>2 DEF IntradayInv, OneTradePerSession
<1>3. CASE Tick
  <2>1. clock' \in [day : Nat, minute : Nat]
    BY <1>1, <1>3 DEF Tick, IntradayTypeOK
  <2> QED
    BY <1>1, <1>2, <1>3, <2>1 DEF Tick, IntradayTypeOK
<1>4. ASSUME NEW i \in Instruments, NEW s \in SessionDays, NEW m \in 1 .. LastMinute, Fetch(i, s, m)
      PROVE  IntradayInv'
  BY <1>1, <1>2, <1>4 DEF Fetch, IntradayTypeOK
<1>5. ASSUME NEW i \in Instruments, Capture(i) PROVE IntradayInv'
  <2>1. PICK s \in SessionDays : /\ bars[i][s] \in 1 .. Close
                                 /\ seen' = [seen EXCEPT ![i][s] = bars[i][s]]
    BY <1>5 DEF Capture
  <2>2. bars[i][s] \in Nat
    BY <1>1, <2>1
  <2>3. seen' \in [Instruments -> [SessionDays -> Nat]]
    BY <1>1, <2>1, <2>2 DEF IntradayTypeOK
  <2> QED
    BY <1>1, <1>2, <1>5, <2>3 DEF Capture, IntradayTypeOK
<1>6. CASE Backfill
  <2>1. PICK at \in [Missing -> 1 .. LastMinute] :
          seen' = [i \in Instruments |-> [s \in SessionDays |->
                     IF <<i, s>> \in Missing THEN at[<<i, s>>] ELSE seen[i][s]]]
    BY <1>6 DEF Backfill
  <2>2. \A i \in Instruments, s \in SessionDays :
          (IF <<i, s>> \in Missing THEN at[<<i, s>>] ELSE seen[i][s]) \in Nat
    BY <1>1 DEF IntradayTypeOK
  <2>3. seen' \in [Instruments -> [SessionDays -> Nat]]
    BY <2>1, <2>2
  <2> QED
    BY <1>1, <1>2, <1>6, <2>3 DEF Backfill, IntradayTypeOK
<1>7. CASE ChangePolicy \/ UNCHANGED intradayVars
  BY <1>1, <1>2, <1>7 DEF ChangePolicy, intradayVars, IntradayTypeOK
<1> QED
  BY <1>3, <1>4, <1>5, <1>6, <1>7, RefreshKeepsOne, RebuildKeepsOne DEF IntradayNext

\* An instrument has one live trade for each session, whatever is fetched, filled in
\* and rebuilt, as long as the session is of today or yesterday: for any instruments,
\* sessions, hours and caps.
THEOREM OneTradeASession == IntradaySpec => []OneTradePerSession
<1>1. IntradayInit => IntradayInv
  <2> SUFFICES ASSUME IntradayInit PROVE IntradayInv
    OBVIOUS
  <2>1. trades \in Seq(Trade) /\ DOMAIN trades = {}
    BY EmptySeq DEF IntradayInit
  <2> QED
    BY <2>1 DEF IntradayInit, IntradayInv, IntradayTypeOK, OneTradePerSession
<1>2. IntradayInv => OneTradePerSession
  BY DEF IntradayInv
<1> QED
  BY <1>1, <1>2, IntradayStep, PTL DEF IntradaySpec

-----------------------------------------------------------------------------
(* The models in service: the invariant *)

KeptEvidence == [rows : Nat, windows : Nat, sign : Nat, walkReturn : Int]
Standings == {"ACTIVE", "CHALLENGER", "SUSPENDED"}
Models ==
  [evidence : KeptEvidence, gate : BOOLEAN, active : BOOLEAN, challenger : BOOLEAN,
   status : Standings, strategy : [active : BOOLEAN, status : Standings]]

Registry(ms) == ms \in Seq(Models)

\* Each model is in service if and only if its strategy is, and one at most.
Agreeing(ms) ==
  /\ \A k \in DOMAIN ms : ms[k].active = ms[k].strategy.active
  /\ \A j, k \in DOMAIN ms : ms[j].active /\ ms[k].active => j = k

\* What passed the gate is trusted for ever: its evidence does not change.
GatedTrusted(ms) ==
  \A k \in DOMAIN ms :
    ms[k].gate => Trustworthy(ms[k].evidence) /\ ms[k].status # "SUSPENDED"

\* A cycle judges a model there is, whatever has become of it.
JudgingType == judging \in [Scorers -> {NotScoring} \cup 0 .. Len(models)]

ModelInv ==
  Registry(models) /\ Agreeing(models) /\ GatedTrusted(models) /\ JudgingType

-----------------------------------------------------------------------------
(* The writes *)

\* The newest of at most one model is that model.
LEMMA NewestOfOne ==
  ASSUME NEW S, S \subseteq Nat \ {0}, \A j, k \in S : j = k
  PROVE  /\ S = {} => Newest(S) = 0
         /\ S # {} => Newest(S) \in S /\ S = {Newest(S)}
<1>1. ASSUME S # {} PROVE Newest(S) \in S
  <2>1. PICK k \in S : TRUE
    BY <1>1
  <2>2. \A j \in S : j <= k
    <3>1. \A j \in S : j = k /\ k \in Nat
      BY <2>1
    <3> QED
      BY <3>1
  <2> QED
    BY <1>1, <2>1, <2>2 DEF Newest
<1> QED
  BY <1>1 DEF Newest

LEMMA SuspendedKeeps ==
  ASSUME NEW ms, Registry(ms), Agreeing(ms), GatedTrusted(ms),
         NEW k \in DOMAIN ms, ~Trustworthy(ms[k].evidence)
  PROVE  LET new == Suspended(ms, k)
         IN /\ Registry(new) /\ Agreeing(new) /\ GatedTrusted(new)
            /\ Len(new) = Len(ms) /\ ~new[k].active
<1> DEFINE new == Suspended(ms, k)
<1>1. DOMAIN new = DOMAIN ms /\ DOMAIN ms = 1 .. Len(ms) /\ Len(ms) \in Nat
  BY DEF Suspended, Registry
<1>2. \A j \in DOMAIN ms : j # k => new[j] = ms[j]
  BY DEF Suspended
<1>3. /\ new[k].active = FALSE /\ new[k].strategy.active = FALSE
      /\ new[k].gate = ms[k].gate /\ new[k].evidence = ms[k].evidence /\ new[k] \in Models
  <2>1. ms[k] \in Models
    BY DEF Registry
  <2>2. new[k] = [ms[k] EXCEPT !.active = FALSE, !.status = "SUSPENDED",
                    !.strategy = IF @.active THEN [active |-> FALSE, status |-> "SUSPENDED"] ELSE @]
    BY <2>1 DEF Suspended, Models
  <2>3. ms[k].strategy \in [active : BOOLEAN, status : Standings]
    BY <2>1 DEF Models
  <2> DEFINE t == IF ms[k].strategy.active THEN [active |-> FALSE, status |-> "SUSPENDED"] ELSE ms[k].strategy
  <2>4. t \in [active : BOOLEAN, status : Standings] /\ t.active = FALSE
    BY <2>3 DEF Standings
  <2>5. new[k] = [ms[k] EXCEPT !.active = FALSE, !.status = "SUSPENDED", !.strategy = t]
    BY <2>1, <2>2 DEF Models
  <2> HIDE DEF t, new
  <2> QED
    BY <2>1, <2>4, <2>5 DEF Models, Standings
<1>4. Registry(new) /\ Len(new) = Len(ms)
  <2>1. new \in [1 .. Len(ms) -> Models]
    BY <1>1, <1>2, <1>3 DEF Suspended, Registry
  <2> QED
    BY <1>1, <2>1 DEF Registry
<1> HIDE DEF new
<1>5. Agreeing(new)
  BY <1>1, <1>2, <1>3 DEF Agreeing
<1>6. GatedTrusted(new)
  BY <1>1, <1>2, <1>3 DEF GatedTrusted
<1> QED
  BY <1>3, <1>4, <1>5, <1>6 DEF new

\* The model in service is replaced and its strategy taken out: none is left.
LEMMA ReplacedLeavesNone ==
  ASSUME NEW ms, Registry(ms), Agreeing(ms), GatedTrusted(ms)
  PROVE  LET k == Newest({j \in DOMAIN ms : ms[j].active})
             new == Deactivated(Replaced(ms, k))
         IN /\ Registry(new) /\ GatedTrusted(new) /\ Len(new) = Len(ms)
            /\ \A j \in DOMAIN new : ~new[j].active /\ ~new[j].strategy.active
<1> DEFINE S == {j \in DOMAIN ms : ms[j].active}
           k == Newest(S)
           mid == Replaced(ms, k)
           new == Deactivated(mid)
<1>1. DOMAIN ms = 1 .. Len(ms) /\ Len(ms) \in Nat
  BY DEF Registry
<1>2. S \subseteq Nat \ {0} /\ \A i, j \in S : i = j
  BY <1>1 DEF Agreeing
<1>3. CASE S = {}
  <2>1. k = 0 /\ mid = ms
    BY <1>2, <1>3, NewestOfOne DEF Replaced
  <2>2. {j \in DOMAIN mid : mid[j].strategy.active} = {}
    BY <1>3, <2>1 DEF Agreeing
  <2>3. new = ms
    BY <2>1, <2>2, NewestOfOne DEF Deactivated
  <2> QED
    BY <1>3, <2>3 DEF Agreeing
<1>4. CASE S # {}
  <2>1. k \in DOMAIN ms /\ S = {k} /\ k # 0
    BY <1>1, <1>2, <1>4, NewestOfOne
  <2> HIDE DEF k
  <2>2. mid = [ms EXCEPT ![k].active = FALSE, ![k].challenger = TRUE]
    BY <2>1 DEF Replaced, k
  <2>3. ms[k] \in Models /\ ms[k].strategy.active
    BY <1>1, <2>1 DEF Registry, Agreeing
  <2>4. /\ DOMAIN mid = DOMAIN ms
        /\ \A j \in DOMAIN ms : j # k => mid[j] = ms[j]
        /\ mid[k] = [ms[k] EXCEPT !.active = FALSE, !.challenger = TRUE]
    BY <2>1, <2>2, <2>3 DEF Models
  <2>a. \A j \in DOMAIN ms : j # k => ~ms[j].strategy.active
    BY <2>1 DEF Agreeing
  <2>b. mid[k].strategy = ms[k].strategy
    BY <2>3, <2>4 DEF Models
  <2>5. {j \in DOMAIN mid : mid[j].strategy.active} = {k}
    BY <2>1, <2>3, <2>4, <2>a, <2>b
  <2> HIDE DEF mid
  <2>6. Newest({j \in DOMAIN mid : mid[j].strategy.active}) = k
    BY <1>1, <2>1, <2>5, NewestOfOne
  <2>7. new = [mid EXCEPT ![k].strategy = [active |-> FALSE, status |-> "SUSPENDED"]]
    BY <2>1, <2>6 DEF Deactivated
  <2>8. /\ DOMAIN new = DOMAIN ms
        /\ \A j \in DOMAIN ms : j # k => new[j] = ms[j]
        /\ new[k] = [mid[k] EXCEPT !.strategy = [active |-> FALSE, status |-> "SUSPENDED"]]
    BY <2>1, <2>4, <2>7
  <2>9. /\ new[k] \in Models /\ ~new[k].active /\ ~new[k].strategy.active
        /\ new[k].gate = ms[k].gate /\ new[k].evidence = ms[k].evidence
        /\ new[k].status = ms[k].status
    <3>1. mid[k] \in Models /\ ~mid[k].active /\ mid[k].gate = ms[k].gate
          /\ mid[k].evidence = ms[k].evidence /\ mid[k].status = ms[k].status
      BY <2>3, <2>4 DEF Models
    <3>2. [active |-> FALSE, status |-> "SUSPENDED"] \in [active : BOOLEAN, status : Standings]
      BY DEF Standings
    <3> QED
      BY <2>8, <3>1, <3>2 DEF Models
  <2>10. Registry(new) /\ Len(new) = Len(ms)
    <3>1. new \in [1 .. Len(ms) -> Models]
      <4>1. \A j \in DOMAIN ms : new[j] \in Models
        BY <2>8, <2>9 DEF Registry
      <4>2. new = [j \in DOMAIN new |-> new[j]]
        BY <2>7
      <4> QED
        BY <1>1, <2>8, <4>1, <4>2
    <3> QED
      BY <1>1, <3>1 DEF Registry
  <2>11. GatedTrusted(new)
    BY <2>8, <2>9 DEF GatedTrusted
  <2>12. \A j \in DOMAIN new : ~new[j].active /\ ~new[j].strategy.active
    BY <2>1, <2>8, <2>9 DEF Agreeing
  <2> QED
    BY <2>10, <2>11, <2>12 DEF k, mid
<1> QED
  BY <1>3, <1>4

LEMMA KeptType ==
  ASSUME NEW e \in Evidence
  PROVE  Kept(e) \in KeptEvidence
<1>1. e.rows \in ValidationRows /\ e.windows \in Windows /\ e.sign \in SignAccuracies
      /\ e.walkReturn \in WalkReturns
  BY DEF Evidence
<1>2. /\ ValidationRows \subseteq Nat /\ Windows \subseteq Nat
      /\ SignAccuracies \subseteq 0 .. 1000 /\ WalkReturns \subseteq Int
  BY EvidenceAssumption
<1>3. e.sign \in 0 .. 1000
  BY <1>1, <1>2
<1>4. e.rows \in Nat /\ e.windows \in Nat
  BY <1>1, <1>2, Zenon
<1>5. e.walkReturn \in Int
  BY <1>1, <1>2, Zenon
<1> QED
  BY <1>3, <1>4, <1>5 DEF Kept, KeptEvidence

\* A new version next to models that agree, or to none in service.
LEMMA VersionAdded ==
  ASSUME NEW ms, Registry(ms), GatedTrusted(ms), Agreeing(ms), NEW e \in Evidence, NEW activated \in BOOLEAN,
         activated => /\ \A j \in DOMAIN ms : ~ms[j].active
                      /\ Trustworthy(Kept(e))
  PROVE  LET new == Append(ms, Version(e, activated))
         IN Registry(new) /\ Agreeing(new) /\ GatedTrusted(new) /\ Len(new) = Len(ms) + 1
<1> DEFINE v == Version(e, activated)
           new == Append(ms, v)
<1>1. v \in Models /\ v.active = activated /\ v.strategy.active = activated /\ v.gate = activated
      /\ v.status # "SUSPENDED" /\ (activated => v.evidence = Kept(e))
  <2>1. Kept(e) \in KeptEvidence /\ NothingKept \in KeptEvidence
    BY KeptType DEF NothingKept, KeptEvidence
  <2>2. CASE activated
    BY <2>1, <2>2 DEF Version, Models, Standings
  <2>3. CASE ~activated
    BY <2>1, <2>3 DEF Version, Models, Standings
  <2> QED
    BY <2>2, <2>3
<1> HIDE DEF v
<1>2. /\ Registry(new) /\ Len(new) = Len(ms) + 1 /\ Len(ms) \in Nat
      /\ \A j \in DOMAIN ms : j \in DOMAIN new /\ new[j] = ms[j]
      /\ DOMAIN new = 1 .. Len(new) /\ DOMAIN ms = 1 .. Len(ms) /\ new[Len(new)] = v
  BY <1>1 DEF Registry
<1>3. \A j \in DOMAIN new : j \in DOMAIN ms \/ j = Len(new)
  BY <1>2
<1> HIDE DEF new
<1>4. Agreeing(new)
  BY <1>1, <1>2, <1>3 DEF Agreeing
<1>5. GatedTrusted(new)
  BY <1>1, <1>2, <1>3 DEF GatedTrusted
<1> QED
  BY <1>2, <1>4, <1>5 DEF new, v

\* The gate asks for what governance asks for.
LEMMA GateTrusts ==
  ASSUME NEW ms, NEW k, NEW e, PassesGate(ms, k, e)
  PROVE  Trustworthy(Kept(e))
BY DEF PassesGate, Trustworthy, Kept, SuspiciouslyPerfect

-----------------------------------------------------------------------------
(* The steps of the registry of models *)

LEMMA GovernedKeeps ==
  ASSUME ModelInv
  PROVE  Registry(Governed) /\ Agreeing(Governed) /\ GatedTrusted(Governed)
         /\ Len(Governed) = Len(models)
<1> DEFINE k == Newest(InService)
<1>1. InService \subseteq Nat \ {0} /\ \A i, j \in InService : i = j
  BY DEF ModelInv, Registry, Agreeing, InService
<1>2. k = 0 \/ k \in DOMAIN models
  BY <1>1, NewestOfOne DEF InService
<1>3. CASE k = 0 \/ Trustworthy(models[k].evidence)
  BY <1>3 DEF Governed, ModelInv
<1>4. CASE ~(k = 0 \/ Trustworthy(models[k].evidence))
  <2>1. Governed = Suspended(models, k)
    BY <1>4 DEF Governed
  <2> HIDE DEF k
  <2> QED
    BY <1>2, <1>4, <2>1, SuspendedKeeps DEF ModelInv
<1> QED
  BY <1>3, <1>4

LEMMA TrainStep ==
  ASSUME ModelInv, NEW e \in Evidence, Train(e)
  PROVE  ModelInv'
<1> DEFINE ms == Governed
           k == Newest({j \in DOMAIN ms : ms[j].active})
           activated == PassesGate(ms, k, e)
<1>1. Registry(ms) /\ Agreeing(ms) /\ GatedTrusted(ms) /\ Len(ms) = Len(models) /\ Len(ms) \in Nat
  BY GovernedKeeps DEF Registry
<1>2. /\ models' = Append(IF activated THEN Deactivated(Replaced(ms, k)) ELSE ms, Version(e, activated))
      /\ judging' = judging
  BY DEF Train
<1>3. activated \in BOOLEAN
  BY DEF PassesGate
<1>4. activated => Trustworthy(Kept(e))
  BY GateTrusts
<1> HIDE DEF ms, activated
<1>5. Registry(models') /\ Agreeing(models') /\ GatedTrusted(models') /\ Len(models') = Len(models) + 1
  <2>1. CASE activated
    <3> DEFINE new == Deactivated(Replaced(ms, k))
    <3>1. /\ Registry(new) /\ GatedTrusted(new) /\ Len(new) = Len(ms)
          /\ \A j \in DOMAIN new : ~new[j].active /\ ~new[j].strategy.active
      BY <1>1, ReplacedLeavesNone
    <3>2. models' = Append(new, Version(e, activated))
      BY <1>2, <2>1
    <3> HIDE DEF new
    <3>3. Agreeing(new)
      <4>1. \A j \in DOMAIN new : new[j].active \in BOOLEAN /\ new[j].strategy.active \in BOOLEAN
        <5>1. \A j \in DOMAIN new : new[j] \in Models
          BY <3>1 DEF Registry
        <5> QED
          BY <5>1 DEF Models
      <4> QED
        BY <3>1, <4>1 DEF Agreeing
    <3> QED
      BY <1>1, <1>3, <1>4, <3>1, <3>2, <3>3, VersionAdded
  <2>2. CASE ~activated
    <3>1. models' = Append(ms, Version(e, activated))
      BY <1>2, <2>2
    <3> QED
      BY <1>1, <1>3, <2>2, <3>1, VersionAdded
  <2> QED
    BY <2>1, <2>2
<1>6. JudgingType'
  <2>1. Len(models) \in Nat
    BY DEF ModelInv, Registry
  <2>2. 0 .. Len(models) \subseteq 0 .. Len(models')
    BY <1>5, <2>1
  <2> QED
    BY <1>2, <2>2 DEF ModelInv, JudgingType
<1> QED
  BY <1>5, <1>6 DEF ModelInv

LEMMA ModelStep ==
  ASSUME ModelInv, [ModelNext]_modelVars
  PROVE  ModelInv'
<1>1. ASSUME UNCHANGED models, judging' \in [Scorers -> {NotScoring} \cup 0 .. Len(models)]
      PROVE  ModelInv'
  BY <1>1 DEF ModelInv, JudgingType
<1>2. CASE UNCHANGED modelVars
  BY <1>2 DEF modelVars, ModelInv, JudgingType
<1>3. ASSUME NEW e \in Evidence, Train(e) PROVE ModelInv'
  BY <1>3, TrainStep
<1>4. ASSUME NEW r \in Scorers, FindModel(r) PROVE ModelInv'
  <2>1. InService \subseteq Nat \ {0} /\ \A i, j \in InService : i = j
    BY DEF ModelInv, Registry, Agreeing, InService
  <2>2. Newest(InService) \in 0 .. Len(models)
    BY <2>1, NewestOfOne DEF InService, ModelInv, Registry
  <2> QED
    BY <1>1, <1>4, <2>2 DEF FindModel, ModelInv, JudgingType
<1>5. ASSUME NEW r \in Scorers, Judge(r) PROVE ModelInv'
  <2>1. judging' \in [Scorers -> {NotScoring} \cup 0 .. Len(models)]
    BY <1>5 DEF Judge, ModelInv, JudgingType
  <2>2. CASE judging[r] = 0 \/ Trustworthy(models[judging[r]].evidence)
    <3>1. models' = models
      BY <1>5, <2>2 DEF Judge
    <3> QED
      BY <1>1, <2>1, <3>1
  <2>3. CASE ~(judging[r] = 0 \/ Trustworthy(models[judging[r]].evidence))
    <3>1. judging[r] \in 1 .. Len(models) /\ DOMAIN models = 1 .. Len(models)
      BY <1>5, <2>3 DEF Judge, ModelInv, JudgingType, Registry
    <3>2. models' = Suspended(models, judging[r])
      BY <1>5, <2>3 DEF Judge
    <3>3. Registry(models') /\ Agreeing(models') /\ GatedTrusted(models') /\ Len(models') = Len(models)
      BY <2>3, <3>1, <3>2, SuspendedKeeps DEF ModelInv
    <3> QED
      BY <2>1, <3>3 DEF ModelInv, JudgingType
  <2> QED
    BY <2>2, <2>3
<1>6. ASSUME NEW r \in Scorers, GiveUp(r) PROVE ModelInv'
  BY <1>1, <1>6 DEF GiveUp, ModelInv, JudgingType
<1> QED
  BY <1>2, <1>3, <1>4, <1>5, <1>6 DEF ModelNext

LEMMA ModelInvInit ==
  ModelInit => ModelInv
<1> SUFFICES ASSUME ModelInit PROVE ModelInv
  OBVIOUS
<1>1. CASE models = << >>
  BY <1>1 DEF ModelInit, ModelInv, Registry, Agreeing, GatedTrusted, JudgingType
<1>2. ASSUME NEW e \in Evidence, models = <<[Version(e, TRUE) EXCEPT !.gate = FALSE]>>
      PROVE  ModelInv
  <2> DEFINE v == [Version(e, TRUE) EXCEPT !.gate = FALSE]
  <2>1. /\ Registry(<< >>) /\ GatedTrusted(<< >>) /\ Agreeing(<< >>)
    BY DEF Registry, GatedTrusted, Agreeing
  <2>2. Kept(e) \in KeptEvidence
    BY KeptType
  <2>3. v \in Models /\ v.active = TRUE /\ v.strategy.active = TRUE /\ v.gate = FALSE
    BY <2>2 DEF Version, Models, Standings
  <2> HIDE DEF v
  <2>4. models = <<v>> /\ Len(models) = 1 /\ DOMAIN models = {1} /\ models[1] = v
    BY <1>2 DEF v
  <2>5. judging \in [Scorers -> {NotScoring} \cup 0 .. Len(models)]
    BY DEF ModelInit
  <2>6. Registry(models)
    BY <2>3, <2>4 DEF Registry
  <2>7. Agreeing(models) /\ GatedTrusted(models)
    BY <2>3, <2>4 DEF Agreeing, GatedTrusted
  <2> QED
    BY <2>5, <2>6, <2>7 DEF ModelInv, JudgingType
<1> QED
  BY <1>1, <1>2 DEF ModelInit

THEOREM RegistrySafe == ModelSpec => []ModelInv
<1>1. ModelInv /\ [ModelNext]_modelVars => ModelInv'
  BY ModelStep
<1> QED
  BY <1>1, ModelInvInit, PTL DEF ModelSpec

\* strategy_service.py and training_service.py: one model is in service at
\* most, and the strategy in service is its own, however trainings and scoring
\* cycles that judge what has been replaced follow each other.
THEOREM OneModelServes == ModelSpec => []ServiceAgrees
<1>1. ModelInv => ServiceAgrees
  <2> SUFFICES ASSUME ModelInv PROVE ServiceAgrees
    OBVIOUS
  <2>1. \A i, j \in InService : i = j
    BY DEF ModelInv, Agreeing, InService
  <2>2. Cardinality(InService) <= 1
    <3>1. CASE InService = {}
      BY <3>1, FS_EmptySet
    <3>2. CASE InService # {}
      <4>1. PICK k \in InService : InService = {k}
        BY <2>1, <3>2
      <4> QED
        BY <4>1, FS_Singleton
    <3> QED
      BY <3>1, <3>2
  <2>3. StrategiesInService = InService
    BY DEF ModelInv, Agreeing, InService, StrategiesInService
  <2> QED
    BY <2>2, <2>3 DEF ServiceAgrees
<1> QED
  BY <1>1, RegistrySafe, PTL

\* _activation_gate and enforce_active_model_governance: what the gate has let
\* in is never suspended.
THEOREM GateImpliesTrust == ModelSpec => []GatedStays
<1>1. ModelInv => GatedStays
  BY DEF ModelInv, GatedTrusted, GatedStays
<1> QED
  BY <1>1, RegistrySafe, PTL

-----------------------------------------------------------------------------
(* The hypotheses *)

HypothesisTypes ==
  /\ status \in [Definitions -> Statuses \cup {"none"}]
  /\ tests \in [Definitions -> [points : 0 .. 3, latest : Grades \cup {"none"}]]
  /\ DOMAIN earned = Definitions

\* What is retired has been tested three times at least, and its newest test is
\* broken: these tests are what keeps it retired.
RetiredRefuted ==
  \A d \in Definitions : status[d] = "RETIRED" =>
    "definitions" \in extended /\ tests[d].points = 3 /\ Broken(tests[d].latest)

HypothesisInv == HypothesisTypes /\ RetiredRefuted

\* The belief retires what three tests have broken, and nothing else.
LEMMA RetiredByTests ==
  ASSUME NEW t \in [points : 0 .. 3, latest : Grades \cup {"none"}], NEW e, NEW m
  PROVE  /\ Assessed(t, e, m) = "RETIRED" => t.points = 3 /\ Broken(t.latest)
         /\ t.points = 3 /\ Broken(t.latest) => Assessed(t, e, m) \in {"RETIRED", "REJECTED"}
<1>1. OnRecord(t, e, m) # "RETIRED"
  BY DEF OnRecord, OnLatest
<1>2. t.points \in 0 .. 3
  OBVIOUS
<1>3. /\ t.points = 0 => Assessed(t, e, m) = "DISCOVERED"
      /\ t.points >= 3 <=> t.points = 3
      /\ t.points = 3 => t.points # 0
  BY <1>2 DEF Assessed
<1> QED
  BY <1>1, <1>3 DEF Assessed

LEMMA BelieveTurns ==
  ASSUME HypothesisInv, Believe, NEW d \in Definitions
  PROVE  /\ status[d] = "none" => status'[d] = "none"
         /\ status[d] # "none" => \E m \in Measures :
              status'[d] = Stored("definitions", Assessed(tests[d], earned[d], m))
         /\ status'[d] \in Statuses \cup {"none"}
<1>1. PICK s \in [Present -> Statuses] :
        /\ \A x \in Present : <<x, s[x]>> \in Assessments
        /\ status' = [x \in Definitions |->
             IF x \in Present THEN Stored("definitions", s[x]) ELSE status[x]]
  BY DEF Believe
<1>2. CASE d \notin Present
  BY <1>1, <1>2 DEF Present
<1>3. CASE d \in Present
  <2>1. <<d, s[d]>> \in Assessments
    BY <1>1, <1>3
  <2>2. PICK m \in Measures : s[d] = Assessed(tests[d], earned[d], m)
    <3>1. PICK x \in Present, m \in Measures : <<d, s[d]>> = <<x, Assessed(tests[x], earned[x], m)>>
      BY <2>1 DEF Assessments
    <3> QED
      BY <3>1
  <2>3. status'[d] = Stored("definitions", s[d])
    BY <1>1, <1>3
  <2>4. Stored("definitions", s[d]) \in Statuses
    BY <1>1, <1>3 DEF Stored, Statuses
  <2> QED
    BY <1>3, <2>2, <2>3, <2>4 DEF Present
<1> QED
  BY <1>2, <1>3

\* What is retired stays, unless a seed is planted anew.
LEMMA HypothesisStep ==
  ASSUME HypothesisInv, [HypothesisNext]_hypothesisVars
  PROVE  /\ HypothesisInv'
         /\ \A d \in Generated : status[d] = "RETIRED" =>
              status'[d] \in {"RETIRED", "REJECTED"} /\ tests'[d] = tests[d]
<1> USE DEF HypothesisInv, HypothesisTypes, RetiredRefuted
<1>a. Generated \subseteq Definitions /\ Generated \cap Seeds = {}
  BY RegistryAssumption DEF Definitions
<1>1. CASE UNCHANGED hypothesisVars
  BY <1>1, <1>a DEF hypothesisVars
<1>2. CASE Seed
  <2>1. status' \in [Definitions -> Statuses \cup {"none"}]
    BY <1>2 DEF Seed, Statuses
  <2>2. \A d \in Definitions : status'[d] = "RETIRED" => status[d] = "RETIRED"
    BY <1>2 DEF Seed
  <2>3. \A d \in Generated : status'[d] = status[d]
    BY <1>2, <1>a DEF Seed
  <2> QED
    BY <1>2, <1>a, <2>1, <2>2, <2>3 DEF Seed
<1>3. CASE Discover
  <2>1. PICK new \in SUBSET {d \in Generated : status[d] = "none"} :
          status' = [d \in Definitions |->
            IF d \in new THEN Stored("definitions", "SCREENED_IN") ELSE status[d]]
    BY <1>3 DEF Discover
  <2>2. Stored("definitions", "SCREENED_IN") \in Statuses \ {"RETIRED"}
    BY DEF Stored, Statuses
  <2>3. status' \in [Definitions -> Statuses \cup {"none"}]
    BY <2>1, <2>2
  <2>4. /\ \A d \in Definitions : status'[d] = "RETIRED" => status[d] = "RETIRED"
        /\ \A d \in Definitions : status[d] = "RETIRED" => status'[d] = "RETIRED"
    BY <2>1, <2>2
  <2> QED
    BY <1>3, <1>a, <2>3, <2>4 DEF Discover
<1>4. CASE Backtest
  <2>1. PICK grade \in [Tested -> Outcomes], fresh \in SUBSET Tested :
          tests' = [d \in Definitions |->
            IF d \in Tested THEN Added(tests[d], grade[d], d \in fresh) ELSE tests[d]]
    BY <1>4 DEF Backtest
  <2>2. \A d \in Definitions : tests'[d] \in [points : 0 .. 3, latest : Grades \cup {"none"}]
    <3>1. ASSUME NEW d \in Tested
          PROVE  Added(tests[d], grade[d], d \in fresh) \in [points : 0 .. 3, latest : Grades \cup {"none"}]
      <4>1. tests[d].points \in 0 .. 3 /\ grade[d] \in Grades
        BY <3>1, RegistryAssumption DEF Tested, Present
      <4>2. tests[d].points < 3 => tests[d].points + 1 \in 0 .. 3
        BY <4>1
      <4> QED
        BY <4>1, <4>2 DEF Added
    <3> QED
      BY <2>1, <3>1
  <2>3. tests' \in [Definitions -> [points : 0 .. 3, latest : Grades \cup {"none"}]]
    BY <2>1, <2>2
  <2>4. \A d \in Definitions : status[d] = "RETIRED" => tests'[d] = tests[d]
    BY <2>1 DEF Tested
  <2> QED
    BY <1>4, <1>a, <2>3, <2>4 DEF Backtest
<1>5. CASE Believe
  <2>1. status' \in [Definitions -> Statuses \cup {"none"}]
    <3>1. status' = [d \in Definitions |-> status'[d]]
      BY <1>5 DEF Believe
    <3> QED
      BY <1>5, <3>1, BelieveTurns
  <2>2. ASSUME NEW d \in Definitions, status'[d] = "RETIRED"
        PROVE  "definitions" \in extended /\ tests[d].points = 3 /\ Broken(tests[d].latest)
    <3>1. PICK m \in Measures : status'[d] = Stored("definitions", Assessed(tests[d], earned[d], m))
      BY <1>5, <2>2, BelieveTurns
    <3>2. "definitions" \in extended /\ Assessed(tests[d], earned[d], m) = "RETIRED"
      BY <2>2, <3>1 DEF Stored
    <3>3. tests[d] \in [points : 0 .. 3, latest : Grades \cup {"none"}]
      OBVIOUS
    <3> QED
      BY <3>2, <3>3, RetiredByTests
  <2>3. ASSUME NEW d \in Definitions, status[d] = "RETIRED"
        PROVE  status'[d] \in {"RETIRED", "REJECTED"}
    <3>1. PICK m \in Measures : status'[d] = Stored("definitions", Assessed(tests[d], earned[d], m))
      BY <1>5, <2>3, BelieveTurns
    <3>2. tests[d] \in [points : 0 .. 3, latest : Grades \cup {"none"}]
      OBVIOUS
    <3>3. Assessed(tests[d], earned[d], m) \in {"RETIRED", "REJECTED"}
      BY <2>3, <3>2, RetiredByTests
    <3> QED
      BY <3>1, <3>3 DEF Stored
  <2> QED
    BY <1>5, <1>a, <2>1, <2>2, <2>3 DEF Believe
<1>6. ASSUME NEW x \in Definitions, Realize(x)
      PROVE  /\ HypothesisInv'
             /\ \A d \in Generated : status[d] = "RETIRED" =>
                  status'[d] \in {"RETIRED", "REJECTED"} /\ tests'[d] = tests[d]
  BY <1>6, <1>a DEF Realize
<1> QED
  BY <1>1, <1>2, <1>3, <1>4, <1>5, <1>6 DEF HypothesisNext

THEOREM HypothesesSafe == HypothesisSpec => []HypothesisInv
<1>1. HypothesisInit => HypothesisInv
  BY DEF HypothesisInit, HypothesisInv, HypothesisTypes, RetiredRefuted, Untested
<1>2. HypothesisInv /\ [HypothesisNext]_hypothesisVars => HypothesisInv'
  BY HypothesisStep
<1> QED
  BY <1>1, <1>2, PTL DEF HypothesisSpec

\* hypothesis_belief_service.py, hypothesis_discovery_service.py and
\* hypothesis_backtest_service.py: a generated definition that is retired is
\* neither found nor tested again, whatever the jobs find and in whatever order.
THEOREM RetiredForGood == HypothesisSpec => RetiredStays
<1>1. HypothesisInv /\ [HypothesisNext]_hypothesisVars =>
        [\A d \in Generated :
           status[d] = "RETIRED" => /\ status'[d] \in {"RETIRED", "REJECTED"}
                                    /\ tests'[d] = tests[d]]_hypothesisVars
  BY HypothesisStep
<1> QED
  BY <1>1, HypothesesSafe, PTL DEF HypothesisSpec, RetiredStays
=============================================================================
