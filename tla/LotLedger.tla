------------------------------ MODULE LotLedger ------------------------------
(***************************************************************************)
(* The acquisition lots of one security and everything that moves their    *)
(* shares: PortfolioService.add_lot, add_espp_plus_lot_pair, edit_lot,     *)
(* transfer_lot_to_brokerage and commit_disposal, with the repositories    *)
(* they call.  Every call runs in one write_session inside one async       *)
(* handler without an await, so it is one atomic action; a ValueError      *)
(* rolls the session back, so a refused call is a step that changes        *)
(* nothing and is left out.                                                *)
(*                                                                         *)
(* Days are naturals, quantities count units of a share (Unit units make a *)
(* whole share).  Prices, tax and note texts do not steer any of these     *)
(* operations and are left out.                                            *)
(***************************************************************************)
EXTENDS ShareMatching

CONSTANTS
  LotIds,       \* the lots.id values a run may use
  Horizon,      \* last day of the run
  Window,       \* length of the ESPP+ forfeiture window, 183 days
  Unit,         \* units that make one whole share
  Quantities,   \* quantities of a lot or a sale a user may enter
  Requests,     \* quantities asked to be moved
  Acquirable,   \* schemes of the lots a user adds
  Currencies    \* broker currencies

ASSUME LotIdsAssumption ==
  LotIds \subseteq Nat \ {0} /\ IsFiniteSet(LotIds)
ASSUME SizesAssumption ==
  /\ Horizon \in Nat /\ Window \in Nat /\ Unit \in Nat \ {0}
  /\ Quantities \cup Requests \subseteq Nat \ {0}
  /\ Acquirable \subseteq {"RSU", "ESPP", "ESPP_PLUS", "BROKERAGE", "ISA"}
  /\ Currencies # {}

VARIABLES
  lots,            \* table lots
  sold,            \* lot_disposals joined with transactions: sold[l][day]
  transferEvents,  \* table lot_transfer_events
  taxEvents,       \* lots with an ESPP_PLUS_TRANSFER row in employment_tax_events
  today,           \* date.today()
  gone             \* history: where the shares that left each lot went

vars == <<lots, sold, transferEvents, taxEvents, today, gone>>

Days    == 0..Horizon
NoLot   == 0
Nothing == "-"           \* an optional scheme or currency that is not given
AllShares == 0           \* an optional quantity that is not given

PlanSchemes == {"RSU", "ESPP", "ESPP_PLUS"}
Schemes     == PlanSchemes \cup {"BROKERAGE", "ISA"}

Lot ==
  [scheme : Schemes \cup {"NONE"}, acq : Nat, qty : Nat, rem : Nat,
   end : Nat,                          \* forfeiture_period_end
   match : LotIds \cup {NoLot},        \* matching_lot_id
   origin : LotIds \cup {NoLot},       \* source named by external_id
   ccy : Currencies]                   \* broker_currency

Absent ==
  [scheme |-> "NONE", acq |-> 0, qty |-> 0, rem |-> 0, end |-> 0,
   match |-> NoLot, origin |-> NoLot, ccy |-> CHOOSE c \in Currencies : TRUE]

TransferEvent ==
  [src : LotIds, dst : LotIds, from : Schemes, date : Nat, qty : Nat]

Gone == [sold : Nat, moved : Nat, forfeited : Nat]

-----------------------------------------------------------------------------
Live(l)    == lots[l].scheme # "NONE"
Active(l)  == lots[l].rem > 0
Matched(l) == lots[l].scheme = "ESPP_PLUS" /\ lots[l].match # NoLot
Free       == {l \in LotIds : ~Live(l)}

remOf == [l \in LotIds |-> lots[l].rem]
acqOf == [l \in LotIds |-> lots[l].acq]

ActiveOf(scheme) ==
  {l \in LotIds : Live(l) /\ Active(l) /\ scheme \in {Nothing, lots[l].scheme}}

(* _is_lot_sellable_on *)
Sellable(l, d) ==
  /\ lots[l].scheme = "RSU" => d >= lots[l].acq
  /\ Matched(l) => d >= lots[l].end

(* Faulty variant: the first day of the window is taken to be outside it.  *)
ForfeitableAfterFirstDay(S, d) ==
  {m \in LotIds : /\ Matched(m) /\ Active(m) /\ lots[m].match \in S
                 /\ lots[m].acq < d /\ d < lots[m].end}

(* Matched lots whose window is open on day d and whose employee lot is    *)
(* one of S: what a disposal or a transfer of S forfeits.                  *)
Forfeitable(S, d) ==
  {m \in LotIds : Matched(m) /\ Active(m) /\ lots[m].match \in S /\ d < lots[m].end}

NewLot(scheme, acq, q, c) ==
  [Absent EXCEPT !.scheme = scheme, !.acq = acq, !.qty = q, !.rem = q, !.ccy = c]

(* _record_transfer_event: external_id is the key, a second event with the *)
(* same key is not written.                                                *)
SameTransferKey(e, f) ==
  e.src = f.src /\ e.dst = f.dst /\ e.date = f.date /\ e.qty = f.qty
RecordTransfer(new) ==
  transferEvents \cup
    {e \in new : \A f \in transferEvents : ~SameTransferKey(e, f)}

-----------------------------------------------------------------------------
Init ==
  /\ lots = [l \in LotIds |-> Absent]
  /\ sold = [l \in LotIds |-> [d \in Days |-> 0]]
  /\ transferEvents = {}
  /\ taxEvents = {}
  /\ today = 0
  /\ gone = [l \in LotIds |-> [sold |-> 0, moved |-> 0, forfeited |-> 0]]

NextDay ==
  /\ today < Horizon
  /\ today' = today + 1
  /\ UNCHANGED <<lots, sold, transferEvents, taxEvents, gone>>

(* add_lot: an employee-paid or market acquisition.                        *)
AddLot(l, scheme, d, q, c) ==
  /\ ~Live(l)
  /\ lots' = [lots EXCEPT ![l] = NewLot(scheme, d, q, c)]
  /\ UNCHANGED <<sold, transferEvents, taxEvents, today, gone>>

(* add_espp_plus_lot_pair: employee lot e and matched lot m, all or none.  *)
AddEsppPlusPair(e, m, d, q, qm, c) ==
  /\ e # m /\ ~Live(e) /\ ~Live(m)
  /\ lots' = [lots EXCEPT
       ![e] = NewLot("ESPP_PLUS", d, q, c),
       ![m] = [NewLot("ESPP_PLUS", d, qm, c)
                 EXCEPT !.match = e, !.end = d + Window]]
  /\ UNCHANGED <<sold, transferEvents, taxEvents, today, gone>>

(* Faulty variants: the correction restores the whole quantity; it is not  *)
(* held against what already left the lot.                                 *)
FullRemaining(l, q)           == q
CorrectionAlwaysAllowed(l, q) == TRUE

(* edit_lot: the quantity that already left the lot is preserved, and a    *)
(* quantity below it is refused.                                           *)
CorrectedRemaining(l, q) == q - (lots[l].qty - lots[l].rem)
CorrectionAllowed(l, q)  == CorrectedRemaining(l, q) >= 0
EditLot(l, d, q, c) ==
  /\ Live(l)
  /\ CorrectionAllowed(l, q)
  /\ lots' = [lots EXCEPT ![l].acq = d, ![l].qty = q,
                          ![l].rem = CorrectedRemaining(l, q),
                          ![l].ccy = IF c = Nothing THEN @ ELSE c]
  /\ UNCHANGED <<sold, transferEvents, taxEvents, today, gone>>

(* The BROKERAGE lot that already holds shares moved out of src.           *)
ShadowsOf(src) == {l \in LotIds : Live(l) /\ lots[l].origin = src}
Mergeable(b, c) == lots[b].scheme = "BROKERAGE" /\ lots[b].ccy = c

(* transfer_lot_to_brokerage, ESPP branch.  Whole shares leave the oldest  *)
(* lots first; every source keeps one BROKERAGE lot, found by external_id  *)
(* and merged into, or created under a fresh id.                           *)
EsppTransfer(l, requested, ccy) ==
  LET pool  == ActiveOf("ESPP")
      whole == (Shares(pool, remOf) \div Unit) * Unit
      q     == IF requested = AllShares THEN whole ELSE requested
      take  == FifoTake(pool, remOf, acqOf, q)
      moved == {s \in pool : take[s] > 0}
      first == {s \in moved : ShadowsOf(s) = {}}
      c     == IF ccy = Nothing THEN lots[l].ccy ELSE ccy
  IN /\ l \in pool
     /\ \A k \in pool \ {l} : Older(acqOf, l, k)
     /\ q % Unit = 0 /\ q > 0 /\ q <= whole
     /\ \A s \in moved : \A b \in ShadowsOf(s) : Mergeable(b, c)
     /\ \E dst \in [moved -> LotIds] :
          /\ \A s \in moved : dst[s] \in (IF s \in first THEN Free ELSE ShadowsOf(s))
          /\ \A s, t \in first : dst[s] = dst[t] => s = t
          /\ lots' = [k \in LotIds |->
               LET into == {s \in moved : dst[s] = k}
                   s    == CHOOSE x \in into : TRUE
               IN CASE k \in moved -> [lots[k] EXCEPT !.rem = @ - take[k]]
                    [] k \notin moved /\ into = {} -> lots[k]
                    [] k \notin moved /\ into # {} /\ Live(k) ->
                         [lots[k] EXCEPT !.qty = @ + take[s], !.rem = @ + take[s],
                                         !.ccy = c]
                    [] OTHER ->
                         [NewLot("BROKERAGE", lots[s].acq, take[s], c)
                            EXCEPT !.origin = s]]
          /\ transferEvents' = RecordTransfer(
               {[src |-> s, dst |-> dst[s], from |-> "ESPP",
                 date |-> today, qty |-> take[s]] : s \in moved})
     /\ gone' = [k \in LotIds |-> [gone[k] EXCEPT !.moved = @ + take[k]]]
     /\ UNCHANGED <<sold, taxEvents, today>>

(* transfer_lot_to_brokerage, RSU and ESPP+ branch: the whole lot changes  *)
(* scheme in place; open-window matched lots of an ESPP+ employee lot are  *)
(* forfeited and an employment tax event is written.                       *)
FullTransfer(l, ccy) ==
  LET scheme == lots[l].scheme
      lost   == IF scheme = "ESPP_PLUS" THEN Forfeitable({l}, today) ELSE {}
  IN /\ scheme \in {"RSU", "ESPP_PLUS"}
     /\ Active(l)
     /\ scheme = "RSU" => today >= lots[l].acq
     /\ ~Matched(l)
     /\ lots' = [k \in LotIds |->
          CASE k = l -> [lots[l] EXCEPT !.scheme = "BROKERAGE",
                                        !.ccy = IF ccy = Nothing THEN @ ELSE ccy]
            [] k \in lost -> [lots[k] EXCEPT !.rem = 0]
            [] OTHER -> lots[k]]
     /\ gone' = [k \in LotIds |->
          IF k \in lost THEN [gone[k] EXCEPT !.forfeited = @ + lots[k].rem]
          ELSE gone[k]]
     /\ taxEvents' = IF scheme = "ESPP_PLUS" THEN taxEvents \cup {l} ELSE taxEvents
     /\ transferEvents' = RecordTransfer(
          {[src |-> l, dst |-> l, from |-> scheme, date |-> today, qty |-> lots[l].rem]})
     /\ UNCHANGED <<sold, today>>

(* The LotDisposal row of one lot in a transaction dated d.                *)
DisposalRow(l, d, n) == [sold[l] EXCEPT ![d] = @ + n]

(* commit_disposal: filter the lots, match them, forfeit linked matched    *)
(* lots, then record one LotDisposal per lot.  update_quantity_remaining   *)
(* refuses a negative remainder, which aborts the whole disposal.          *)
CommitDisposal(q, d, scheme) ==
  LET pick == {l \in ActiveOf(scheme) : Sellable(l, d)}
      take == UkTake(pick, remOf, acqOf, d, q)
      lost == Forfeitable({l \in LotIds : take[l] > 0}, d)
      left == [l \in LotIds |-> (IF l \in lost THEN 0 ELSE lots[l].rem) - take[l]]
  IN /\ UkCovers(pick, remOf, acqOf, d, q)
     /\ \A l \in LotIds : left[l] \in 0..lots[l].qty
     /\ lots' = [l \in LotIds |-> [lots[l] EXCEPT !.rem = left[l]]]
     /\ sold' = [l \in LotIds |-> DisposalRow(l, d, take[l])]
     /\ gone' = [l \in LotIds |->
          [gone[l] EXCEPT !.sold = @ + take[l],
                          !.forfeited = @ + IF l \in lost THEN lots[l].rem ELSE 0]]
     /\ UNCHANGED <<transferEvents, taxEvents, today>>

Next ==
  \/ NextDay
  \/ \E l \in LotIds, d \in Days, q \in Quantities, c \in Currencies :
       \/ \E scheme \in Acquirable : AddLot(l, scheme, d, q, c)
       \/ \E m \in LotIds, qm \in Quantities :
            "ESPP_PLUS" \in Acquirable /\ AddEsppPlusPair(l, m, d, q, qm, c)
  \/ \E l \in LotIds, d \in Days, q \in Quantities, c \in Currencies \cup {Nothing} :
       EditLot(l, d, q, c)
  \/ \E l \in LotIds, c \in Currencies \cup {Nothing} :
       \/ FullTransfer(l, c)
       \/ \E q \in Requests \cup {AllShares} : EsppTransfer(l, q, c)
  \/ \E q \in Quantities, d \in Days, scheme \in Schemes \cup {Nothing} :
       CommitDisposal(q, d, scheme)

Spec == Init /\ [][Next]_vars

-----------------------------------------------------------------------------
(* The types of the tables and of the histories.                           *)
TypeOK ==
  /\ lots \in [LotIds -> Lot]
  /\ sold \in [LotIds -> [Days -> Nat]]
  /\ transferEvents \subseteq TransferEvent
  /\ taxEvents \subseteq LotIds
  /\ today \in Days
  /\ gone \in [LotIds -> Gone]

(* A lot never holds more than its quantity, and what it is short of it    *)
(* is exactly what was sold, moved to a BROKERAGE lot or forfeited: no     *)
(* order of sales, merges, forfeitures and corrections loses or invents a  *)
(* share (the Lot invariants of db/models.py, edit_lot's "preserve         *)
(* disposed amount").                                                      *)
LotAccounting ==
  \A l \in LotIds :
    /\ lots[l].rem <= lots[l].qty
    /\ lots[l].qty - lots[l].rem = gone[l].sold + gone[l].moved + gone[l].forfeited

(* An ESPP+ employee lot that was transferred while a matched lot's window *)
(* was open has cost the user that matched lot: a matched lot no share of  *)
(* which ever left is linked to a lot in the plan, or its window ended.    *)
TransferredEmployeeForfeits ==
  \A m \in LotIds :
    (/\ Matched(m) /\ Active(m) /\ gone[m].sold + gone[m].forfeited = 0
     /\ lots[lots[m].match].scheme = "BROKERAGE")
    => lots[m].end <= today

-----------------------------------------------------------------------------
(* What one step may never do.                                             *)
Sold(l)  == gone'[l].sold - gone[l].sold
Moved(l) == gone'[l].moved - gone[l].moved
SaleDay(d) == \E l \in LotIds : sold'[l][d] # sold[l][d]

(* No disposal sells matched shares it also forfeits, and none sells an    *)
(* employee lot inside the window without emptying its matched lots: the   *)
(* lock test on the lots to sell and the window test on the lots to        *)
(* forfeit agree on every date.                                            *)
SaleForfeitsWholeMatch ==
  [][\A d \in Days : SaleDay(d) =>
       \A m \in LotIds :
         /\ Sold(m) > 0 => gone'[m].forfeited = gone[m].forfeited
         /\ (Matched(m) /\ lots[m].match # m /\ Sold(lots[m].match) > 0 /\ d < lots[m].end)
              => lots'[m].rem = 0 /\ Sold(m) = 0]_vars

(* UK identification over the lots a sale may use: never a lot acquired    *)
(* after the sale or still locked on its date; the pool only when every    *)
(* sellable lot of that day in the schemes sold is used up; within the     *)
(* pool the oldest lots first.                                             *)
SaleIdentification ==
  [][\A d \in Days : SaleDay(d) =>
       \A l \in LotIds : Sold(l) > 0 =>
         /\ lots[l].acq <= d /\ Sellable(l, d)
         /\ \A k \in LotIds :
              (/\ Live(k) /\ lots[k].scheme = lots[l].scheme /\ Sellable(k, d)
               /\ lots[l].acq < d
               /\ lots[k].acq = d \/ Older(acqOf, k, l))
              => lots'[k].rem = 0]_vars

(* Moving ESPP shares never skips an older lot that still has some, even a *)
(* fraction of a share.                                                    *)
TransferOldestFirst ==
  [][\A l, k \in LotIds :
       (Moved(l) > 0 /\ Live(k) /\ lots[k].scheme = "ESPP" /\ Older(acqOf, k, l))
         => lots'[k].rem = 0]_vars

-----------------------------------------------------------------------------
(* What DividendService reads back from these tables.                      *)
(* _eligible_lots_by_holding_bucket_on_ex_date: today's remainder, with    *)
(* later sales and transfers undone.                                       *)
EventShares(E) == SumFunctionOnSet([e \in E |-> e.qty], E)

OverAll(part) == SumFunctionOnSet(part, LotIds)

OrNone(n) == IF n > 0 THEN n ELSE 0
SoldAfter(l, d)    == SumFunctionOnSet(sold[l], {t \in Days : t > d})
MovedOutAfter(l, d) == EventShares({e \in transferEvents : e.src = l /\ e.date > d})
MovedInAfter(l, d) ==
  EventShares({e \in transferEvents : e.dst = l /\ e.src # l /\ e.date > d})

\* Faulty variants: sales of the ex-date itself are undone too; arrivals stay in.
EligibleQuantityFromDay(l, d) ==
  IF lots[l].acq >= d \/ ~Live(l) THEN 0
  ELSE OrNone(lots[l].rem + SoldAfter(l, d - 1) + MovedOutAfter(l, d) - MovedInAfter(l, d))
EligibleQuantityWithArrivals(l, d) ==
  IF lots[l].acq >= d \/ ~Live(l) THEN 0 ELSE lots[l].rem + MovedOutAfter(l, d)

EligibleQuantity(l, d) ==
  IF lots[l].acq >= d \/ ~Live(l) THEN 0
  ELSE OrNone(lots[l].rem + SoldAfter(l, d) + MovedOutAfter(l, d) - MovedInAfter(l, d))

(* _eligible_quantity_on_ex_date, without a scope                          *)
Entitlement(d) == OverAll([l \in LotIds |-> EligibleQuantity(l, d)])

(* A sale dated t that forfeits nothing takes the shares it sells, other   *)
(* than those bought on the ex-date or later, off the ex-date d.           *)
CountsOn(d) ==
  Entitlement(d)' = Entitlement(d)
                      - SumFunctionOnSet([l \in LotIds |-> Sold(l)],
                                         {l \in LotIds : lots[l].acq < d})

(* A sale that forfeits nothing counts on its own date and on every        *)
(* ex-date after it, the first as well as the last, once the moves of      *)
(* shares lie before the ex-date.                                          *)
SaleCountsFromItsDate ==
  [][\A t, d \in Days :
       (/\ SaleDay(t) /\ t <= d
        /\ \A e \in transferEvents : e.date <= d
        /\ \A l \in LotIds : gone'[l].forfeited = gone[l].forfeited)
         => CountsOn(d)]_vars

(* Neither a sale nor an ESPP move rewrites the past: what was held on the *)
(* ex-dates before it stays as it was, of every lot the sale does not      *)
(* forfeit, and of both lots of a move that writes its event.              *)
EarlierEntitlementKept ==
  [][/\ \A t \in Days : SaleDay(t) =>
          \A d \in Days, l \in LotIds :
            (d < t /\ gone'[l].forfeited = gone[l].forfeited)
              => EligibleQuantity(l, d)' = EligibleQuantity(l, d)
     /\ \A e \in transferEvents' \ transferEvents : e.src # e.dst =>
          \A d \in Days : d < e.date =>
            /\ EligibleQuantity(e.src, d)' = EligibleQuantity(e.src, d)
            /\ EligibleQuantity(e.dst, d)' = EligibleQuantity(e.dst, d)]_vars

-----------------------------------------------------------------------------
(* The ledger implements ShareHolding: whatever the lots, the schemes and  *)
(* the order of the calls, the holding as a whole changes only by the      *)
(* quantities booked, sold and forfeited, and a transfer changes nothing.  *)
Acquired  == OverAll([l \in LotIds |-> lots[l].qty - gone[l].moved])
Held      == OverAll(remOf)
Disposed  == OverAll([l \in LotIds |-> gone[l].sold])
Forfeited == OverAll([l \in LotIds |-> gone[l].forfeited])

Holding == INSTANCE ShareHolding WITH
  acquired <- Acquired, held <- Held, disposed <- Disposed, forfeited <- Forfeited
HoldingSpec == Holding!Spec

=============================================================================
