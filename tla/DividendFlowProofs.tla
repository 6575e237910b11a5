------------------------- MODULE DividendFlowProofs -------------------------
(***************************************************************************)
(* Proofs about the cash ledger and the dividends that are paid into it.   *)
(* For any containers, currencies, amounts, rates and fees and however     *)
(* requests end: no balance is negative, a dividend is paid out once, and  *)
(* no reinvestment lot is without its dividend.                            *)
(***************************************************************************)
EXTENDS DividendFlow, SumProofs, SequenceTheorems

-----------------------------------------------------------------------------
(* Bags of entries *)

Counted(es) == \A e \in DOMAIN es : es[e] \in Nat \ {0}

\* Two bags that hold the same entries of a container and a currency.
LEMMA BalanceSame ==
  ASSUME NEW es, NEW fs, NEW c, NEW k,
         \A e : e.container = c /\ e.currency = k =>
                  /\ e \in DOMAIN es <=> e \in DOMAIN fs
                  /\ e \in DOMAIN es => es[e] = fs[e]
  PROVE  Balance(es, c, k) = Balance(fs, c, k)
<1> DEFINE S == {e \in DOMAIN es : e.container = c /\ e.currency = k}
           T == {e \in DOMAIN fs : e.container = c /\ e.currency = k}
<1>1. S = T
  OBVIOUS
<1>2. [e \in S |-> e.amount * es[e]] = [e \in T |-> e.amount * fs[e]]
  BY <1>1
<1> HIDE DEF S, T
<1>3. SumFunctionOnSet([e \in S |-> e.amount * es[e]], S)
        = SumFunctionOnSet([e \in T |-> e.amount * fs[e]], T)
  BY <1>1, <1>2
<1> QED
  BY <1>3 DEF Balance, Total, S, T

LEMMA NothingOwed ==
  ASSUME NEW c, NEW k
  PROVE  Balance(EmptyBag, c, k) = 0
<1>1. {e \in DOMAIN EmptyBag : e.container = c /\ e.currency = k} = {}
  BY DEF EmptyBag, SetToBag
<1>2. Balance(EmptyBag, c, k) = Total(EmptyBag, {})
  BY <1>1 DEF Balance
<1> QED
  BY <1>2, SumOfNone DEF Total

\* What putting entries into a bag makes of the copies of one entry.
LEMMA BagsAdd ==
  ASSUME NEW es, NEW fs, Counted(es), Counted(fs)
  PROVE  /\ Counted(es (+) fs)
         /\ DOMAIN (es (+) fs) = DOMAIN es \cup DOMAIN fs
         /\ \A e \in DOMAIN es : e \notin DOMAIN fs => (es (+) fs)[e] = es[e]
         /\ \A e \in DOMAIN fs : e \notin DOMAIN es => (es (+) fs)[e] = fs[e]
<1>1. DOMAIN (es (+) fs) = DOMAIN es \cup DOMAIN fs
  BY DEF (+)
<1>2. \A e \in DOMAIN es : e \notin DOMAIN fs => (es (+) fs)[e] = es[e]
  BY DEF (+), Counted
<1>3. \A e \in DOMAIN fs : e \notin DOMAIN es => (es (+) fs)[e] = fs[e]
  BY DEF (+), Counted
<1>4. \A e \in DOMAIN es \cap DOMAIN fs : (es (+) fs)[e] \in Nat \ {0}
  BY DEF (+), Counted
<1>5. Counted(es (+) fs)
  BY <1>1, <1>2, <1>3, <1>4 DEF Counted
<1> QED
  BY <1>1, <1>2, <1>3, <1>5

LEMMA BagOfCounts ==
  ASSUME NEW S, NEW legs \in Seq(S)
  PROVE  /\ Counted(BagOf(legs))
         /\ DOMAIN BagOf(legs) = {legs[i] : i \in 1 .. Len(legs)}
         /\ \A e \in DOMAIN BagOf(legs) :
              BagOf(legs)[e] = Cardinality({i \in 1 .. Len(legs) : legs[i] = e})
<1>1. DOMAIN BagOf(legs) = {legs[i] : i \in 1 .. Len(legs)}
  BY DEF BagOf, Range
<1>2. \A e \in DOMAIN BagOf(legs) :
        BagOf(legs)[e] = Cardinality({i \in 1 .. Len(legs) : legs[i] = e})
  BY <1>1 DEF BagOf
<1>3. ASSUME NEW e \in DOMAIN BagOf(legs) PROVE BagOf(legs)[e] \in Nat \ {0}
  <2> DEFINE I == {i \in 1 .. Len(legs) : legs[i] = e}
  <2>1. IsFiniteSet(1 .. Len(legs))
    BY FS_Interval
  <2>2. IsFiniteSet(I) /\ I # {}
    <3>1. I \subseteq 1 .. Len(legs) /\ I # {}
      BY <1>1
    <3> QED
      BY <2>1, <3>1, FS_Subset
  <2> HIDE DEF I
  <2>3. Cardinality(I) \in Nat /\ Cardinality(I) # 0
    BY <2>2, FS_CardinalityType, FS_EmptySet
  <2> QED
    BY <1>2, <2>3 DEF I
<1> QED
  BY <1>1, <1>2, <1>3 DEF Counted

LEMMA BagOfOne ==
  ASSUME NEW e
  PROVE  BagOf(SubSeq(<<e>>, 1, 1)) = SetToBag({e}) /\ Counted(SetToBag({e}))
<1>1. SubSeq(<<e>>, 1, 1) = <<e>>
  <2>1. /\ <<e>> \in Seq({e}) /\ Len(<<e>>) = 1
    OBVIOUS
  <2>2. SubSeq(<<e>>, 1, Len(<<e>>)) = <<e>>
    BY <2>1, SubSeqFull
  <2> QED
    BY <2>1, <2>2
<1>2. Range(<<e>>) = {e} /\ {i \in DOMAIN <<e>> : <<e>>[i] = e} = {1}
  BY DEF Range
<1>3. Cardinality({1}) = 1
  BY FS_Singleton
<1>4. BagOf(<<e>>) = SetToBag({e})
  BY <1>2, <1>3 DEF BagOf, SetToBag
<1>5. Counted(SetToBag({e}))
  BY DEF SetToBag, Counted
<1> QED
  BY <1>1, <1>4, <1>5

\* What is checked leg by leg holds of what the legs leave together.
LEMMA CoveredLeavesNoDebt ==
  ASSUME NEW es, Counted(es), NEW S, NEW legs \in Seq(S), Covered(es, legs),
         NEW c, NEW k, Balance(es, c, k) >= 0
  PROVE  Balance(es (+) BagOf(legs), c, k) >= 0
<1> DEFINE N == {n \in 1 .. Len(legs) : legs[n].container = c /\ legs[n].currency = k}
<1>1. /\ Counted(BagOf(legs))
      /\ DOMAIN BagOf(legs) = {legs[i] : i \in 1 .. Len(legs)}
      /\ \A e \in DOMAIN BagOf(legs) :
           BagOf(legs)[e] = Cardinality({i \in 1 .. Len(legs) : legs[i] = e})
  BY BagOfCounts
<1>2. CASE N = {}
  <2>1. \A e : e.container = c /\ e.currency = k => e \notin DOMAIN BagOf(legs)
    BY <1>1, <1>2
  <2> HIDE DEF N
  <2>2. \A e : e.container = c /\ e.currency = k =>
          /\ e \in DOMAIN (es (+) BagOf(legs)) <=> e \in DOMAIN es
          /\ e \in DOMAIN (es (+) BagOf(legs)) => (es (+) BagOf(legs))[e] = es[e]
    <3>1. DOMAIN (es (+) BagOf(legs)) = DOMAIN es \cup DOMAIN BagOf(legs)
          /\ \A e \in DOMAIN es : e \notin DOMAIN BagOf(legs) => (es (+) BagOf(legs))[e] = es[e]
      BY <1>1, BagsAdd
    <3> QED
      BY <2>1, <3>1
  <2>3. Balance(es (+) BagOf(legs), c, k) = Balance(es, c, k)
    BY <2>2, BalanceSame
  <2> QED
    BY <2>3
<1>3. CASE N # {}
  <2>1. N \in SUBSET (0 .. Len(legs)) /\ Len(legs) \in Nat
    OBVIOUS
  <2>2. PICK n \in N : \A m \in N : m <= n
    <3> HIDE DEF N
    <3> QED
      BY <1>3, <2>1, GreatestNatural
  <2> DEFINE first == SubSeq(legs, 1, n)
  <2>3. /\ n \in 1 .. Len(legs) /\ legs[n].container = c /\ legs[n].currency = k
        /\ \A m \in 1 .. Len(legs) : legs[m].container = c /\ legs[m].currency = k => m <= n
    BY <2>2
  <2>4. first \in Seq(S) /\ Len(first) = n /\ \A i \in 1 .. n : first[i] = legs[i]
    BY <2>3
  <2> HIDE DEF first, N
  <2>5. /\ Counted(BagOf(first))
        /\ DOMAIN BagOf(first) = {first[i] : i \in 1 .. n}
        /\ \A e \in DOMAIN BagOf(first) :
             BagOf(first)[e] = Cardinality({i \in 1 .. n : first[i] = e})
    <3>1. /\ Counted(BagOf(first))
          /\ DOMAIN BagOf(first) = {first[i] : i \in 1 .. Len(first)}
          /\ \A e \in DOMAIN BagOf(first) :
               BagOf(first)[e] = Cardinality({i \in 1 .. Len(first) : first[i] = e})
      BY <2>4, BagOfCounts
    <3> QED
      BY <2>4, <3>1
  <2>6. ASSUME NEW e, e.container = c, e.currency = k
        PROVE  /\ e \in DOMAIN BagOf(legs) <=> e \in DOMAIN BagOf(first)
               /\ e \in DOMAIN BagOf(legs) => BagOf(legs)[e] = BagOf(first)[e]
    <3>1. {i \in 1 .. Len(legs) : legs[i] = e} = {i \in 1 .. n : first[i] = e}
      <4>1. ASSUME NEW i \in 1 .. Len(legs), legs[i] = e
            PROVE  i \in 1 .. n /\ first[i] = e
        BY <2>3, <2>4, <2>6, <4>1
      <4>2. ASSUME NEW i \in 1 .. n, first[i] = e
            PROVE  i \in 1 .. Len(legs) /\ legs[i] = e
        BY <2>3, <2>4, <4>2
      <4> QED
        BY <4>1, <4>2
    <3>2. e \in DOMAIN BagOf(legs) <=> e \in DOMAIN BagOf(first)
      BY <1>1, <2>5, <3>1
    <3> QED
      BY <1>1, <2>5, <3>1, <3>2
  <2>7. ASSUME NEW e, e.container = c, e.currency = k
        PROVE  /\ e \in DOMAIN (es (+) BagOf(legs)) <=> e \in DOMAIN (es (+) BagOf(first))
               /\ e \in DOMAIN (es (+) BagOf(legs)) =>
                    (es (+) BagOf(legs))[e] = (es (+) BagOf(first))[e]
    BY <2>6, <2>7 DEF (+)
  <2>8. Balance(es (+) BagOf(legs), c, k) = Balance(es (+) BagOf(first), c, k)
    BY <2>7, BalanceSame
  <2>9. Balance(es (+) BagOf(first), c, k) >= 0
    BY <2>3 DEF Covered, first
  <2> QED
    BY <2>8, <2>9
<1> QED
  BY <1>2, <1>3

-----------------------------------------------------------------------------
(* The cash ledger *)

\* Copies count, and their dividends have been entered.
EntriesOK ==
  /\ Counted(Entries)
  /\ \A e \in DOMAIN Entries : e.dividend \in 0 .. used

\* Entries' is what was written, or nothing when the file was torn.
LEMMA FileStep ==
  /\ \A es : Save(es) => Entries' \in {es, EmptyBag}
  /\ TearFile => Entries' = EmptyBag
  /\ UNCHANGED file => Entries' = Entries
BY DEF Save, TearFile, Entries

LEMMA EmptyIsSound ==
  /\ Counted(EmptyBag) /\ DOMAIN EmptyBag = {}
  /\ \A c \in Containers, k \in Currencies : Balance(EmptyBag, c, k) >= 0
<1>1. Counted(EmptyBag) /\ DOMAIN EmptyBag = {}
  BY DEF Counted, EmptyBag, SetToBag
<1>2. \A c \in Containers, k \in Currencies : Balance(EmptyBag, c, k) >= 0
  BY NothingOwed
<1> QED
  BY <1>1, <1>2

LEMMA PostIsSound ==
  ASSUME Counted(Entries), BalancesNonNegative, NEW entry, Post(entry)
  PROVE  \/ Entries' = EmptyBag
         \/ /\ Counted(Entries') /\ BalancesNonNegative'
            /\ DOMAIN Entries' = DOMAIN Entries \cup {entry}
            /\ \A e \in DOMAIN Entries : e # entry => Entries'[e] = Entries[e]
            /\ entry \notin DOMAIN Entries => Entries'[entry] = 1
<1> DEFINE es == Entries (+) SetToBag({entry})
           legs == <<entry>>
<1>1. Entries' \in {es, EmptyBag} /\ Covered(Entries, legs)
  BY FileStep DEF Post
<1>2. BagOf(SubSeq(legs, 1, 1)) = SetToBag({entry}) /\ Counted(SetToBag({entry}))
      /\ legs \in Seq({entry}) /\ Len(legs) = 1
  BY BagOfOne
<1>3. BagOf(legs) = SetToBag({entry})
  BY <1>2, SubSeqFull
<1>4. /\ Counted(es) /\ DOMAIN es = DOMAIN Entries \cup {entry}
      /\ \A e \in DOMAIN Entries : e # entry => es[e] = Entries[e]
      /\ entry \notin DOMAIN Entries => es[entry] = 1
  <2>1. DOMAIN SetToBag({entry}) = {entry} /\ SetToBag({entry})[entry] = 1
    BY DEF SetToBag
  <2> QED
    BY <1>2, <2>1, BagsAdd
<1>5. \A c \in Containers, k \in Currencies : Balance(es, c, k) >= 0
  BY <1>1, <1>2, <1>3, CoveredLeavesNoDebt DEF BalancesNonNegative
<1> HIDE DEF es, legs
<1> QED
  BY <1>1, <1>4, <1>5 DEF BalancesNonNegative

Leg(g) == {Entry(g, kind, c, k, a, 0) :
             kind \in {"ISA_TRANSFER_OUT", "ISA_TRANSFER_IN", "FX_CONVERSION_OUT",
                       "FX_CONVERSION_IN", "FX_FEE"},
             c \in Containers, k \in Currencies, a \in Int}

LEMMA LegsAreEntries ==
  ASSUME NEW g, NEW c \in Containers, NEW currency \in Currencies, NEW amount \in Amounts,
         NEW rate \in Rates, NEW fee \in Fees
  PROVE  GbpLegs(g, c, amount) \in Seq(Leg(g)) /\ FxLegs(g, c, currency, amount, rate, fee) \in Seq(Leg(g))
<1>1. amount \in Int /\ rate \in Int /\ fee \in Int /\ "ISA" \in Containers /\ "GBP" \in Currencies
  BY CashAssumption
<1>2. -amount \in Int /\ amount * rate \in Int /\ -fee \in Int /\ amount * rate - fee \in Int
  BY <1>1
<1>3. \A a \in Int, ic \in Containers, ik \in Currencies :
        /\ Entry(g, "ISA_TRANSFER_OUT", ic, ik, a, 0) \in Leg(g)
        /\ Entry(g, "ISA_TRANSFER_IN", ic, ik, a, 0) \in Leg(g)
        /\ Entry(g, "FX_CONVERSION_OUT", ic, ik, a, 0) \in Leg(g)
        /\ Entry(g, "FX_CONVERSION_IN", ic, ik, a, 0) \in Leg(g)
        /\ Entry(g, "FX_FEE", ic, ik, a, 0) \in Leg(g)
  BY DEF Leg
<1>4. \A a \in Int : -a \in Int => GbpLegs(g, c, a) \in Seq(Leg(g))
  <2> HIDE DEF Leg
  <2> QED
    BY <1>1, <1>3 DEF GbpLegs
<1>5. << Entry(g, "FX_CONVERSION_OUT", c, currency, -amount, 0),
         Entry(g, "FX_CONVERSION_IN", c, "GBP", amount * rate, 0) >> \in Seq(Leg(g))
  BY <1>1, <1>2, <1>3
<1>6. << Entry(g, "FX_FEE", c, "GBP", -fee, 0) >> \in Seq(Leg(g)) /\ << >> \in Seq(Leg(g))
  BY <1>1, <1>2, <1>3
<1>7. FxLegs(g, c, currency, amount, rate, fee) \in Seq(Leg(g))
  <2> DEFINE s1 == << Entry(g, "FX_CONVERSION_OUT", c, currency, -amount, 0),
                      Entry(g, "FX_CONVERSION_IN", c, "GBP", amount * rate, 0) >>
             s2 == IF fee > 0 THEN << Entry(g, "FX_FEE", c, "GBP", -fee, 0) >> ELSE << >>
             s3 == GbpLegs(g, c, amount * rate - fee)
  <2>1. s1 \in Seq(Leg(g)) /\ s2 \in Seq(Leg(g))
    BY <1>5, <1>6
  <2>2. s3 \in Seq(Leg(g))
    BY <1>2, <1>4
  <2>3. FxLegs(g, c, currency, amount, rate, fee) = s1 \o s2 \o s3
    BY DEF FxLegs
  <2> HIDE DEF s1, s2, s3
  <2> QED
    BY <2>1, <2>2, <2>3, ConcatProperties
<1> QED
  BY <1>2, <1>4, <1>7, CashAssumption

LEMMA TransferIsSound ==
  ASSUME Counted(Entries), BalancesNonNegative, NEW c \in Containers, NEW currency \in Currencies,
         NEW amount \in Amounts, NEW rate \in Rates, NEW fee \in Fees,
         IsaTransfer(c, currency, amount, rate, fee)
  PROVE  \/ Entries' = EmptyBag
         \/ /\ Counted(Entries') /\ BalancesNonNegative'
            /\ \A e \in DOMAIN Entries' : e \in DOMAIN Entries \/ e.dividend = 0
            /\ \A e \in DOMAIN Entries : e \in DOMAIN Entries'
            /\ \A e \in DOMAIN Entries : e.dividend # 0 => Entries'[e] = Entries[e]
<1> DEFINE g == transfers + 1
           legs == IF currency = "GBP" THEN GbpLegs(g, c, amount)
                   ELSE FxLegs(g, c, currency, amount, rate, fee)
           es == Entries (+) BagOf(legs)
<1>1. Covered(Entries, legs) /\ Entries' \in {es, EmptyBag}
  BY FileStep DEF IsaTransfer
<1>2. legs \in Seq(Leg(g))
  BY LegsAreEntries
<1> HIDE DEF legs
<1>3. /\ Counted(BagOf(legs))
      /\ \A e \in DOMAIN BagOf(legs) : e.dividend = 0
  <2>1. /\ Counted(BagOf(legs))
        /\ DOMAIN BagOf(legs) = {legs[i] : i \in 1 .. Len(legs)}
    BY <1>2, BagOfCounts
  <2>2. \A i \in 1 .. Len(legs) : legs[i] \in Leg(g)
    BY <1>2
  <2>3. \A e \in Leg(g) : e.dividend = 0
    BY DEF Leg, Entry
  <2> QED
    BY <2>1, <2>2, <2>3
<1>4. /\ Counted(es) /\ DOMAIN es = DOMAIN Entries \cup DOMAIN BagOf(legs)
      /\ \A e \in DOMAIN Entries : e \notin DOMAIN BagOf(legs) => es[e] = Entries[e]
  BY <1>3, BagsAdd
<1>5. \A ic \in Containers, ik \in Currencies : Balance(es, ic, ik) >= 0
  BY <1>1, <1>2, CoveredLeavesNoDebt DEF BalancesNonNegative
<1> HIDE DEF es
<1> QED
  BY <1>1, <1>3, <1>4, <1>5 DEF BalancesNonNegative

-----------------------------------------------------------------------------
(* The invariant *)

\* A dividend has no entry, or one of which there is one copy.
OnePayout ==
  \A i \in 1 .. used : Of(i) = {} \/ \E e : Of(i) = {e} /\ Entries[e] = 1

Recorded == used \in Nat /\ DOMAIN dividends \subseteq 1 .. used /\ LotHasDividend

LedgerInv == EntriesOK /\ BalancesNonNegative /\ OnePayout

\* What a request that has been at work relies on when it goes on.
Working ==
  /\ handler \in [step : {"idle", "cash", "stock", "note", "undo", "unpost", "backfill"},
                  id : Nat, container : Containers \cup {"NONE"}, todo : SUBSET Nat]
  /\ handler.step \in {"cash", "stock", "undo", "unpost"} =>
       handler.id \in 1 .. used /\ Of(handler.id) = {}
  /\ handler.step \in {"stock", "undo"} => handler.id \in DOMAIN dividends \ lots
  /\ At("note") => handler.id \in lots
  /\ At("backfill") => \A i \in handler.todo : i \in DOMAIN dividends /\ Of(i) = {}

DividendInv == Recorded /\ LedgerInv /\ Working

LEMMA TornIsSound ==
  ASSUME Entries' = EmptyBag, used' = used
  PROVE  LedgerInv' /\ \A i \in Nat : Of(i)' = {}
<1>1. EntriesOK' /\ BalancesNonNegative'
  BY EmptyIsSound DEF EntriesOK, BalancesNonNegative
<1>2. \A i \in Nat : Of(i)' = {}
  BY EmptyIsSound DEF Of
<1>3. OnePayout'
  BY <1>2 DEF OnePayout, Of
<1> QED
  BY <1>1, <1>2, <1>3 DEF LedgerInv

\* An entry of a dividend that has none.
LEMMA PayoutIsSound ==
  ASSUME Recorded, LedgerInv, NEW id \in 1 .. used, Of(id) = {}, NEW container,
         Post(Payout(id, container)), used' = used
  PROVE  LedgerInv' /\ \A i \in Nat : i # id /\ Of(i) = {} => Of(i)' = {}
<1> DEFINE entry == Payout(id, container)
<1>1. entry.dividend = id
  BY DEF Payout, Entry
<1>2. entry \notin DOMAIN Entries
  BY <1>1 DEF Of
<1> HIDE DEF entry
<1>3. CASE Entries' = EmptyBag
  BY <1>3, TornIsSound
<1>4. CASE /\ Counted(Entries') /\ BalancesNonNegative'
           /\ DOMAIN Entries' = DOMAIN Entries \cup {entry}
           /\ \A e \in DOMAIN Entries : e # entry => Entries'[e] = Entries[e]
           /\ Entries'[entry] = 1
  <2>1. EntriesOK'
    BY <1>1, <1>4 DEF EntriesOK, LedgerInv, Recorded
  <2>2. \A i : i # id => Of(i)' = Of(i)
    BY <1>1, <1>4 DEF Of
  <2>3. Of(id)' = {entry}
    <3>1. {e \in DOMAIN Entries : e.dividend = id} = {}
      BY DEF Of
    <3> QED
      BY <1>1, <1>4, <3>1 DEF Of
  <2>4. OnePayout'
    <3> SUFFICES ASSUME NEW i \in 1 .. used
                 PROVE  Of(i)' = {} \/ \E e : Of(i)' = {e} /\ Entries'[e] = 1
      BY DEF OnePayout, Of
    <3>1. CASE i = id
      BY <1>4, <2>3, <3>1
    <3>2. CASE i # id
      <4>1. Of(i)' = Of(i)
        BY <2>2, <3>2
      <4>2. CASE Of(i) = {}
        BY <4>1, <4>2
      <4>3. CASE \E e : Of(i) = {e} /\ Entries[e] = 1
        <5>1. PICK e : Of(i) = {e} /\ Entries[e] = 1
          BY <4>3
        <5>2. e \in DOMAIN Entries /\ e # entry
          BY <1>2, <5>1 DEF Of
        <5>3. Entries'[e] = 1
          BY <1>4, <5>1, <5>2
        <5> QED
          BY <4>1, <5>1, <5>3
      <4> QED
        BY <4>2, <4>3 DEF LedgerInv, OnePayout
    <3> QED
      BY <3>1, <3>2
  <2> QED
    BY <1>4, <2>1, <2>2, <2>4 DEF LedgerInv
<1> QED
  BY <1>2, <1>3, <1>4, PostIsSound DEF entry, LedgerInv, EntriesOK

\* Entries that are not of a dividend.
LEMMA OtherEntriesAreSound ==
  ASSUME Recorded, LedgerInv, used' = used, Counted(Entries'), BalancesNonNegative',
         \A e \in DOMAIN Entries' : e \in DOMAIN Entries \/ e.dividend = 0,
         \A e \in DOMAIN Entries : e \in DOMAIN Entries',
         \A e \in DOMAIN Entries : e.dividend # 0 => Entries'[e] = Entries[e]
  PROVE  LedgerInv'
<1>1. EntriesOK'
  BY DEF EntriesOK, LedgerInv, Recorded
<1>2. \A i \in 1 .. used : Of(i)' = Of(i)
  <2> SUFFICES ASSUME NEW i \in 1 .. used PROVE Of(i)' = Of(i)
    OBVIOUS
  <2>1. i # 0
    OBVIOUS
  <2> QED
    BY <2>1 DEF Of
<1>3. OnePayout'
  <2> SUFFICES ASSUME NEW i \in 1 .. used
               PROVE  Of(i)' = {} \/ \E e : Of(i)' = {e} /\ Entries'[e] = 1
    BY DEF OnePayout, Of
  <2>1. CASE Of(i) = {}
    BY <1>2, <2>1
  <2>2. CASE \E e : Of(i) = {e} /\ Entries[e] = 1
    <3>1. PICK e : Of(i) = {e} /\ Entries[e] = 1
      BY <2>2
    <3>2. e \in DOMAIN Entries /\ e.dividend = i /\ i # 0
      BY <3>1 DEF Of
    <3> QED
      BY <1>2, <3>1, <3>2
  <2> QED
    BY <2>1, <2>2 DEF LedgerInv, OnePayout
<1> QED
  BY <1>1, <1>3 DEF LedgerInv

LEMMA CashIsSound ==
  ASSUME Recorded, LedgerInv, CashOperation, used' = used
  PROVE  LedgerInv'
<1> USE DEF LedgerInv, EntriesOK
<1>1. CASE \E c \in Containers, k \in Currencies, a \in Amounts, sign \in {1, -1} :
             RecordEntry(c, k, sign * a)
  <2>1. PICK c \in Containers, k \in Currencies, a \in Amounts, sign \in {1, -1} :
          Post(Entry(0, "MANUAL_ADJUSTMENT", c, k, sign * a, 0))
    BY <1>1 DEF RecordEntry
  <2> DEFINE entry == Entry(0, "MANUAL_ADJUSTMENT", c, k, sign * a, 0)
  <2>2. entry.dividend = 0
    BY DEF Entry
  <2>3. Post(entry)
    BY <2>1
  <2> HIDE DEF entry
  <2>4. \/ Entries' = EmptyBag
        \/ /\ Counted(Entries') /\ BalancesNonNegative'
           /\ DOMAIN Entries' = DOMAIN Entries \cup {entry}
           /\ \A e \in DOMAIN Entries : e # entry => Entries'[e] = Entries[e]
    BY <2>3, PostIsSound
  <2>5. CASE Entries' = EmptyBag
    BY <2>5, TornIsSound
  <2>6. CASE /\ Counted(Entries') /\ BalancesNonNegative'
             /\ DOMAIN Entries' = DOMAIN Entries \cup {entry}
             /\ \A e \in DOMAIN Entries : e # entry => Entries'[e] = Entries[e]
    BY <2>2, <2>6, OtherEntriesAreSound
  <2> QED
    BY <2>4, <2>5, <2>6
<1>2. CASE \E c \in Containers, k \in Currencies, a \in Amounts, r \in Rates, f \in Fees :
             IsaTransfer(c, k, a, r, f)
  <2>1. PICK c \in Containers, k \in Currencies, a \in Amounts, r \in Rates, f \in Fees :
          IsaTransfer(c, k, a, r, f)
    BY <1>2
  <2>2. CASE Entries' = EmptyBag
    BY <2>2, TornIsSound
  <2> QED
    BY <2>1, <2>2, TransferIsSound, OtherEntriesAreSound
<1> QED
  BY <1>1, <1>2 DEF CashOperation

LEMMA SameFile ==
  ASSUME UNCHANGED file
  PROVE  Entries' = Entries /\ \A i \in Nat : Of(i)' = Of(i)
BY DEF Entries, Of

LEMMA SameLedger ==
  ASSUME LedgerInv, UNCHANGED <<file, used>>
  PROVE  LedgerInv'
BY DEF LedgerInv, EntriesOK, BalancesNonNegative, OnePayout, Entries, Of

LEMMA DividendInitSound ==
  Init => DividendInv
<1> SUFFICES ASSUME Init PROVE DividendInv
  OBVIOUS
<1>1. file = EmptyBag /\ used = 0 /\ lots = {} /\ noted = {} /\ DOMAIN dividends = {}
  BY DEF Init, CashInit
<1>2. Entries = EmptyBag
  BY <1>1 DEF Entries
<1>3. EntriesOK /\ BalancesNonNegative
  BY <1>2, EmptyIsSound DEF EntriesOK, BalancesNonNegative
<1>4. Recorded /\ OnePayout
  BY <1>1 DEF Recorded, OnePayout, LotHasDividend
<1>5. Working
  BY DEF Init, Working, Idle, At
<1> QED
  BY <1>3, <1>4, <1>5 DEF DividendInv, LedgerInv

\* A request that is over leaves nothing to rely on.
LEMMA IdleWorks ==
  ASSUME Done
  PROVE  Working'
BY DEF Done, Idle, Working, At

LEMMA DividendStepSound ==
  DividendInv /\ [Next]_vars => DividendInv'
<1> SUFFICES ASSUME DividendInv, [Next]_vars PROVE DividendInv'
  OBVIOUS
<1> USE DEF DividendInv
<1> DEFINE H == [step : {"idle", "cash", "stock", "note", "undo", "unpost", "backfill"},
                 id : Nat, container : Containers \cup {"NONE"}, todo : SUBSET Nat]
<1>0. handler \in H /\ used \in Nat
  BY DEF Working, Recorded
<1>1. ASSUME NEW mode \in {"cash", "stock"}, NEW a \in Amounts, NEW k \in Original,
             NEW c \in Containers \cup {"NONE"}, Submit(mode, a, k, c)
      PROVE  DividendInv'
  <2>1. DOMAIN dividends' = DOMAIN dividends \cup {used + 1} /\ used' = used + 1
        /\ lots' = lots /\ noted' = noted /\ UNCHANGED file
    BY <1>1 DEF Submit, cashVars
  <2>2. Recorded'
    BY <1>0, <2>1 DEF Recorded, LotHasDividend
  <2>3. Entries' = Entries /\ \A i \in Nat : Of(i)' = Of(i)
    BY <2>1, SameFile
  <2>4. Of(used + 1) = {}
    BY <1>0 DEF Of, LedgerInv, EntriesOK
  <2>5. \A i \in 1 .. used' : i \in 1 .. used \/ i = used + 1
    BY <1>0, <2>1
  <2>6. LedgerInv'
    <3>1. EntriesOK' /\ BalancesNonNegative'
      BY <1>0, <2>1, <2>3 DEF LedgerInv, EntriesOK, BalancesNonNegative
    <3>2. OnePayout'
      <4> SUFFICES ASSUME NEW i \in 1 .. used'
                   PROVE  Of(i)' = {} \/ \E e : Of(i)' = {e} /\ Entries'[e] = 1
        BY DEF OnePayout, Of
      <4>1. i \in Nat /\ Of(i)' = Of(i)
        BY <2>1, <2>3, <1>0
      <4> QED
        BY <4>1, <2>3, <2>4, <2>5 DEF LedgerInv, OnePayout
    <3> QED
      BY <3>1, <3>2 DEF LedgerInv
  <2>7. Working'
    <3>1. CASE Done
      BY <3>1, IdleWorks
    <3>2. CASE handler' = [Idle EXCEPT !.step = IF mode = "stock" THEN "stock" ELSE "cash",
                                       !.id = used + 1, !.container = c]
      <4>1. handler' = [step |-> IF mode = "stock" THEN "stock" ELSE "cash",
                        id |-> used + 1, container |-> c, todo |-> {}]
        BY <3>2 DEF Idle
      <4>2. handler' \in H /\ handler'.id = used + 1 /\ handler'.step \in {"stock", "cash"}
        BY <1>0, <4>1
      <4>3. PICK n \in Nat : n = used + 1
        BY <1>0
      <4>4. n \in 1 .. used' /\ Of(n)' = {}
        BY <1>0, <2>1, <2>3, <2>4, <4>3
      <4>5. n \in DOMAIN dividends' \ lots'
        BY <1>0, <2>1, <4>3 DEF Recorded, LotHasDividend
      <4>6. handler'.id = n
        BY <4>2, <4>3
      <4> QED
        BY <4>2, <4>4, <4>5, <4>6 DEF Working, At, Of
    <3> QED
      BY <1>1, <3>1, <3>2 DEF Submit
  <2> QED
    BY <2>2, <2>6, <2>7
<1>2. ASSUME PostCash PROVE DividendInv'
  <2>1. UNCHANGED tables /\ Done
    BY <1>2 DEF PostCash
  <2>2. Recorded' /\ Working'
    BY <2>1, IdleWorks DEF Recorded, LotHasDividend, tables
  <2>3. CASE Post(Payout(handler.id, handler.container))
    <3>1. handler.id \in 1 .. used /\ Of(handler.id) = {} /\ used' = used
      BY <1>2, <2>1 DEF PostCash, At, Working, tables
    <3> QED
      BY <2>2, <2>3, <3>1, PayoutIsSound
  <2>4. CASE UNCHANGED file
    BY <2>1, <2>2, <2>4, SameLedger DEF tables
  <2> QED
    BY <1>2, <2>3, <2>4 DEF PostCash
<1>3. ASSUME UNCHANGED <<file, used>>, Recorded', Done PROVE DividendInv'
  BY <1>3, IdleWorks, SameLedger
<1>4. ASSUME AddLot PROVE DividendInv'
  <2>1. handler.id \in DOMAIN dividends /\ At("stock")
    BY <1>4 DEF AddLot, Working, At
  <2>2. UNCHANGED <<file, used, dividends, noted>> /\ lots' = lots \cup {handler.id}
    BY <1>4 DEF AddLot, cashVars
  <2>3. Recorded' /\ LedgerInv'
    BY <2>1, <2>2, SameLedger DEF Recorded, LotHasDividend
  <2>4. handler' = [handler EXCEPT !.step = "note"]
    BY <1>4 DEF AddLot, Go
  <2>5. Working'
    <3>1. handler' \in H /\ handler'.step = "note" /\ handler'.id = handler.id
      BY <1>0, <2>4
    <3> QED
      BY <3>1, <2>2 DEF Working, At
  <2> QED
    BY <2>3, <2>5
<1>5. ASSUME NoteLot PROVE DividendInv'
  <2>1. handler.id \in lots
    BY <1>5 DEF NoteLot, Working, At
  <2>2. UNCHANGED <<file, used, dividends, lots>> /\ noted' = noted \cup {handler.id} /\ Done
    BY <1>5 DEF NoteLot, cashVars
  <2> QED
    BY <1>3, <2>1, <2>2 DEF Recorded, LotHasDividend
<1>6. ASSUME RefuseLot PROVE DividendInv'
  <2>1. UNCHANGED <<file, used, dividends, lots, noted>> /\ At("stock")
    BY <1>6 DEF RefuseLot, cashVars, tables
  <2>2. handler' = [handler EXCEPT !.step = "undo"]
    BY <1>6 DEF RefuseLot, Go
  <2>3. handler' \in H /\ handler'.step = "undo" /\ handler'.id = handler.id
    BY <1>0, <2>2
  <2>4. handler.id \in 1 .. used /\ Of(handler.id) = {} /\ handler.id \in DOMAIN dividends \ lots
    BY <2>1 DEF At, Working
  <2>5. Of(handler.id)' = {e \in DOMAIN Entries' : e.dividend = handler'.id}
    BY DEF Of
  <2>6. Entries' = Entries
    BY <2>1, SameFile
  <2>7. Working'
    BY <2>1, <2>3, <2>4, <2>5, <2>6 DEF Working, At, Of
  <2> QED
    BY <2>1, <2>7, SameLedger DEF Recorded, LotHasDividend
<1>7. ASSUME RefuseAmount PROVE DividendInv'
  BY <1>3, <1>7 DEF RefuseAmount, cashVars, tables, Recorded, LotHasDividend
<1>8. ASSUME DeleteRow PROVE DividendInv'
  <2>1. UNCHANGED <<file, used, lots, noted>> /\ At("undo")
        /\ DOMAIN dividends' = DOMAIN dividends \ {handler.id}
    BY <1>8 DEF DeleteRow, cashVars
  <2>2. handler' = [handler EXCEPT !.step = "unpost"]
    BY <1>8 DEF DeleteRow, Go
  <2>3. handler' \in H /\ handler'.step = "unpost" /\ handler'.id = handler.id
    BY <1>0, <2>2
  <2>4. handler.id \in 1 .. used /\ Of(handler.id) = {} /\ handler.id \in DOMAIN dividends \ lots
    BY <2>1 DEF At, Working
  <2>5. Entries' = Entries
    BY <2>1, SameFile
  <2>6. Working'
    BY <2>1, <2>3, <2>4, <2>5 DEF Working, At, Of
  <2> QED
    BY <2>1, <2>4, <2>6, SameLedger DEF Recorded, LotHasDividend
<1>9. ASSUME Unpost PROVE DividendInv'
  <2>1. Of(handler.id) = {}
    BY <1>9 DEF Unpost, At, Working
  <2> QED
    BY <1>3, <1>9, <2>1 DEF Unpost, tables, Recorded, LotHasDividend
<1>10. ASSUME NEW c \in Containers, StartBackfill(c) PROVE DividendInv'
  <2>1. UNCHANGED <<file, used, dividends, lots, noted>>
    BY <1>10 DEF StartBackfill, cashVars, tables
  <2>2. handler' = [step |-> "backfill", id |-> 0, container |-> c, todo |-> ToBackfill]
    BY <1>10 DEF StartBackfill, Idle
  <2>3. ToBackfill \subseteq Nat
    BY <1>0 DEF ToBackfill, Recorded
  <2>4. handler' \in H /\ handler'.step = "backfill" /\ handler'.todo = ToBackfill
    BY <2>2, <2>3
  <2>5. \A i \in ToBackfill : i \in DOMAIN dividends /\ Of(i) = {}
    BY DEF ToBackfill
  <2>6. Entries' = Entries
    BY <2>1, SameFile
  <2>7. Working'
    BY <2>1, <2>4, <2>5, <2>6 DEF Working, At, Of
  <2> QED
    BY <2>1, <2>7, SameLedger DEF Recorded, LotHasDividend
<1>11. ASSUME NEW id \in 1 .. used, BackfillOne(id) PROVE DividendInv'
  <2>1. UNCHANGED <<used, dividends, lots, noted>> /\ At("backfill") /\ id \in handler.todo
    BY <1>11 DEF BackfillOne, tables
  <2>2. Of(id) = {} /\ \A i \in handler.todo : i \in Nat /\ i \in DOMAIN dividends /\ Of(i) = {}
    BY <1>0, <2>1 DEF Working
  <2>3. Recorded'
    BY <2>1 DEF Recorded, LotHasDividend
  <2>4. LedgerInv' /\ \A i \in Nat : i # id /\ Of(i) = {} => Of(i)' = {}
    <3>1. CASE Post(Payout(id, handler.container))
      BY <2>1, <2>2, <3>1, PayoutIsSound
    <3>2. CASE UNCHANGED file
      BY <2>1, <3>2, SameFile, SameLedger
    <3> QED
      BY <1>11, <3>1, <3>2 DEF BackfillOne
  <2>5. CASE Done
    BY <2>3, <2>4, <2>5, IdleWorks
  <2>6. CASE handler' = [handler EXCEPT !.todo = @ \ {id}]
    <3>1. handler' \in H /\ handler'.step = "backfill" /\ handler'.todo = handler.todo \ {id}
      BY <1>0, <2>1, <2>6 DEF At
    <3>2. \A i \in handler'.todo : i \in DOMAIN dividends' /\ Of(i)' = {}
      BY <2>1, <2>2, <2>4, <3>1
    <3>3. Working'
      BY <3>1, <3>2 DEF Working, At, Of
    <3> QED
      BY <2>3, <2>4, <3>3
  <2> QED
    BY <1>11, <2>5, <2>6 DEF BackfillOne, Done
<1>12. ASSUME Cash PROVE DividendInv'
  <2>1. CashOperation /\ At("idle") /\ UNCHANGED <<used, dividends, lots, noted, handler>>
    BY <1>12 DEF Cash, tables
  <2>2. LedgerInv'
    BY <2>1, CashIsSound
  <2>3. Working'
    BY <1>0, <2>1 DEF Working, At
  <2> QED
    BY <2>1, <2>2, <2>3 DEF Recorded, LotHasDividend
<1>13. ASSUME Abort PROVE DividendInv'
  BY <1>3, <1>13 DEF Abort, cashVars, tables, Recorded, LotHasDividend
<1>14. ASSUME DieWriting PROVE DividendInv'
  <2>1. Entries' = EmptyBag /\ Done /\ UNCHANGED <<used, dividends, lots, noted>>
    BY <1>14, FileStep DEF DieWriting, tables
  <2> QED
    BY <2>1, TornIsSound, IdleWorks DEF Recorded, LotHasDividend
<1>15. CASE UNCHANGED vars
  <2>1. UNCHANGED <<file, used, dividends, lots, noted, handler>>
    BY <1>15 DEF vars, cashVars
  <2>2. Entries' = Entries
    BY <2>1, SameFile
  <2>3. Working'
    BY <2>1, <2>2 DEF Working, At, Of
  <2> QED
    BY <2>1, <2>3, SameLedger DEF Recorded, LotHasDividend
<1> QED
  BY <1>1, <1>2, <1>4, <1>5, <1>6, <1>7, <1>8, <1>9, <1>10, <1>11, <1>12, <1>13, <1>14, <1>15
     DEF Next

THEOREM DividendSafe == Spec => []DividendInv
BY DividendInitSound, DividendStepSound, PTL DEF Spec

\* No reinvestment lot is without its dividend, wherever the request that made
\* it ends (create_stock_reinvestment_lot, delete_dividend_entry).
THEOREM DividendBehindLot == Spec => []LotHasDividend
<1>1. DividendInv => LotHasDividend
  BY DEF DividendInv, Recorded
<1> QED
  BY <1>1, DividendSafe, PTL

\* A dividend is paid out once at most in the cash ledger, whatever was posted,
\* lost with a torn file and filled in again (record_entry, the backfill).
THEOREM PaidOutOnce == Spec => []PaidOnce
<1>1. DividendInv => PaidOnce
  <2> SUFFICES ASSUME DividendInv, NEW i \in 1 .. used
               PROVE  SumFunction([e \in Of(i) |-> Entries[e]]) <= 1
    BY DEF PaidOnce
  <2> DEFINE copies == [e \in Of(i) |-> Entries[e]]
  <2>1. SumFunction(copies) = SumFunctionOnSet(copies, Of(i))
    BY DEF SumFunction
  <2>2. CASE Of(i) = {}
    <3> HIDE DEF copies
    <3>1. SumFunctionOnSet(copies, {}) = 0
      BY SumOfNone
    <3> QED
      BY <2>1, <2>2, <3>1 DEF copies
  <2>3. CASE \E e : Of(i) = {e} /\ Entries[e] = 1
    <3>1. PICK e : Of(i) = {e} /\ Entries[e] = 1
      BY <2>3
    <3>2. copies[e] = 1
      BY <3>1
    <3> HIDE DEF copies
    <3>3. SumFunctionOnSet(copies, {e}) = copies[e]
      BY <3>2, SumOfOne
    <3> QED
      BY <2>1, <3>1, <3>2, <3>3 DEF copies
  <2> QED
    BY <2>2, <2>3 DEF DividendInv, LedgerInv, OnePayout
<1> QED
  BY <1>1, DividendSafe, PTL

\* No container owes money in any currency: what _apply_with_non_negative_check
\* asks of one leg after the other holds of the whole group, and neither a torn
\* file nor the end of a request takes money away.
THEOREM NobodyOwes == Spec => []BalancesNonNegative
<1>1. DividendInv => BalancesNonNegative
  BY DEF DividendInv, LedgerInv
<1> QED
  BY <1>1, DividendSafe, PTL
=============================================================================
