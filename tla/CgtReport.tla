----------------------------- MODULE CgtReport -----------------------------
(***************************************************************************)
(* The capital gains report over the lot ledger.  ReportService matches    *)
(* the disposals all over again, from the rows of the lot table as they    *)
(* are when the report is asked for: their quantity, not what is left of   *)
(* it, and their present acquisition date and price.  So the ledger's own  *)
(* operations run here in full, with the price of every row and the list   *)
(* of the disposals written, and the report is a function of the tables.   *)
(* Day by day it matches same-day lots first, then lots of the next        *)
(* MatchDays days (30 in the code), then the pool of earlier lots at its   *)
(* average cost.                                                           *)
(***************************************************************************)
EXTENDS PooledCost, FiniteSetsExt, Sequences

CONSTANTS
  Prices,     \* prices of a lot a user may enter, in pence per share
  MatchDays,  \* how many days ahead a disposal looks for a repurchase
  Fraction,   \* the part of a penny that costs are counted in
  MaxSales    \* bound on the disposals written

VARIABLE sales  \* the disposals, in the order they were written

reportVars == <<vars, price, sales>>

ASSUME ReportAssumption ==
  /\ Prices \subseteq Nat
  /\ MatchDays \in Nat /\ Fraction \in Nat \ {0} /\ MaxSales \in Nat

ReportInit == Init /\ price = [l \in LotIds |-> 0] /\ sales = <<>>

(* The ledger's operations, with the price of the rows they write: entered *)
(* with a lot and when it is corrected, nothing for matched shares, that   *)
(* of the source for a new BROKERAGE row; a row merged into keeps its own. *)
PricedAdd(l, scheme, d, q, c, p) ==
  /\ AddLot(l, scheme, d, q, c)
  /\ price' = [price EXCEPT ![l] = p]
  /\ UNCHANGED sales

PricedPair(e, m, d, q, qm, c, p) ==
  /\ AddEsppPlusPair(e, m, d, q, qm, c)
  /\ price' = [price EXCEPT ![e] = p, ![m] = 0]
  /\ UNCHANGED sales

PricedEdit(l, d, q, c, p) ==
  /\ EditLot(l, d, q, c)
  /\ price' = [price EXCEPT ![l] = p]
  /\ UNCHANGED sales

PricedMove(l, q, c) ==
  /\ EsppTransfer(l, q, c)
  /\ price' = [k \in LotIds |-> IF ~Live(k) /\ lots'[k].origin # NoLot
                                THEN price[lots'[k].origin] ELSE price[k]]
  /\ UNCHANGED sales

(* A disposal, perhaps dated before one already there, with its rows.      *)
Disposal(q, d, scheme) ==
  /\ Len(sales) < MaxSales
  /\ CommitDisposal(q, d, scheme)
  /\ sales' = Append(sales, [day |-> d, take |-> [l \in LotIds |-> Sold(l)]])
  /\ UNCHANGED price

ReportNext ==
  \/ NextDay /\ UNCHANGED <<price, sales>>
  \/ \E l \in LotIds, d \in Days, q \in Quantities, c \in Currencies, p \in Prices :
       \/ \E scheme \in Acquirable : PricedAdd(l, scheme, d, q, c, p)
       \/ \E m \in LotIds, qm \in Quantities :
            "ESPP_PLUS" \in Acquirable /\ PricedPair(l, m, d, q, qm, c, p)
  \/ \E l \in LotIds, d \in Days, q \in Quantities,
       c \in Currencies \cup {Nothing}, p \in Prices : PricedEdit(l, d, q, c, p)
  \/ \E l \in LotIds, c \in Currencies \cup {Nothing} :
       \/ FullTransfer(l, c) /\ UNCHANGED <<price, sales>>
       \/ \E q \in Requests \cup {AllShares} : PricedMove(l, q, c)
  \/ \E q \in Quantities, d \in Days, scheme \in Schemes \cup {Nothing} :
       Disposal(q, d, scheme)

ReportSpec == ReportInit /\ [][ReportNext]_reportVars

-----------------------------------------------------------------------------
(* What the report reads: the rows that are not in an ISA, with the whole  *)
(* quantity of each, and the disposals that used some of them.             *)
Taxable == {l \in LotIds : Live(l) /\ lots[l].scheme # "ISA"}
bought  == [l \in LotIds |-> IF l \in Taxable THEN lots[l].qty ELSE 0]

(* Faulty variant: a disposal counts with its tax-free shares.             *)
WholeQty(i) == Shares(LotIds, sales[i].take)

TaxableQty(i) == Shares(Taxable, sales[i].take)

disposals ==
  [i \in {i \in DOMAIN sales : TaxableQty(i) > 0} |->
     [qty |-> TaxableQty(i), day |-> sales[i].day]]

LotCost(l, n) == n * price[l] * Fraction
Costs(S, left) == SumFunctionOnSet([l \in S |-> LotCost(l, left[l])], S)

(* How far the report has come: the shares left in each lot, the lots      *)
(* already added to the pool, the pool, and for every disposal the shares  *)
(* matched and their cost.                                                 *)
Fresh ==
  [left   |-> bought,
   pooled |-> {},
   qty    |-> 0,
   cost   |-> 0,
   shares |-> [i \in DOMAIN disposals |-> 0],
   basis  |-> [i \in DOMAIN disposals |-> 0]]

(* Add what is left of the lots to the pool, each lot once.                *)
AddToPool(st, S) ==
  LET new == S \ st.pooled
  IN [st EXCEPT !.pooled = @ \cup S,
                !.qty    = @ + Shares(new, st.left),
                !.cost   = @ + Costs(new, st.left)]

(* Faulty variant: the lots matched keep their shares.                     *)
MatchKeepsShares(st, i, S) ==
  LET take == FifoTake(S, st.left, acqOf, disposals[i].qty - st.shares[i])
  IN [st EXCEPT !.shares[i] = @ + Shares(LotIds, take),
                !.basis[i]  = @ + Costs(LotIds, take)]

(* Match disposal i with the lots, oldest first.                           *)
MatchLots(st, i, S) ==
  LET take == FifoTake(S, st.left, acqOf, disposals[i].qty - st.shares[i])
  IN [st EXCEPT !.left      = [l \in LotIds |-> st.left[l] - take[l]],
                !.shares[i] = @ + Shares(LotIds, take),
                !.basis[i]  = @ + Costs(LotIds, take)]

(* Match the rest of disposal i with the pool, at the average cost; what   *)
(* the pool cannot cover stays unmatched, and costs nothing.               *)
MatchPool(st, i) ==
  LET want  == disposals[i].qty - st.shares[i]
      n     == IF want < st.qty THEN want ELSE st.qty
      share == IF n = 0 THEN 0 ELSE (n * st.cost) \div st.qty
  IN [st EXCEPT !.qty = @ - n, !.cost = @ - share,
                !.shares[i] = @ + n, !.basis[i] = @ + share]

BoughtOn(d)      == {l \in LotIds : acqOf[l] = d}
BoughtBefore(d)  == {l \in LotIds : acqOf[l] < d}
Repurchases(d)   == {l \in LotIds : d < acqOf[l] /\ acqOf[l] <= d + MatchDays}

(* One disposal, and all those of a day in the order they were written.    *)
Match(st, i) ==
  LET d == disposals[i].day
  IN MatchPool(MatchLots(MatchLots(st, i, BoughtOn(d)), i, Repurchases(d)), i)

SalesOf(d) == {i \in DOMAIN disposals : disposals[i].day = d}

MatchDay(st, d) ==
  LET before == AddToPool(st, BoughtBefore(d))
      after  == Loop(Match, before, Max, SalesOf(d))
  IN AddToPool(after, BoughtOn(d))

(* _hmrc_gain_map_for_security: the days with disposals, in order          *)
HmrcMatches == Loop(MatchDay, Fresh, Max, {disposals[i].day : i \in DOMAIN disposals})

-----------------------------------------------------------------------------
(* No lot is dated after a sale that used it.  commit_disposal uses no     *)
(* such lot, but edit_lot may move the date of a lot afterwards.           *)
SoldAfterBought ==
  \A i \in DOMAIN sales : \A l \in Taxable :
    sales[i].take[l] > 0 => lots[l].acq <= sales[i].day

(* As long as no lot is re-dated past one of its sales, the report, which  *)
(* matches other lots than the sales used, still finds every share of      *)
(* every disposal, so none is reported as if it had cost nothing: whatever *)
(* the order in which sales were entered, and whatever was corrected,      *)
(* moved or forfeited before, between or after them.  What it holds when   *)
(* it is done is more than the user has, by exactly the shares that were   *)
(* moved to a BROKERAGE row, which it reads twice, and those that were     *)
(* forfeited, which it goes on pooling: nothing else makes a difference.   *)
EveryShareMatched ==
  SoldAfterBought =>
  LET st    == HmrcMatches
      extra == [l \in LotIds |-> gone[l].moved + gone[l].forfeited]
  IN /\ \A i \in DOMAIN disposals : st.shares[i] = disposals[i].qty
     /\ st.qty + Shares(LotIds \ st.pooled, st.left)
          = Shares(Taxable, remOf) + Shares(Taxable, extra)

(* The report's arithmetic neither loses nor repeats a cost: what it       *)
(* relieves, with what is left in its pool and in the rows not yet pooled, *)
(* is the cost of the rows it read, each counted once.  The rows are not   *)
(* the shares paid for: a moved share is in two of them.                   *)
ReportCostConserved ==
  LET st == HmrcMatches
  IN SumFunctionOnSet(st.basis, DOMAIN disposals) + st.cost + Costs(LotIds \ st.pooled, st.left)
     = Costs(LotIds, bought)
=============================================================================
