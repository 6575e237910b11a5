--------------------------- MODULE LotLedgerProofs ---------------------------
(***************************************************************************)
(* For any lots, days, quantities, schemes and currencies: the ledger's    *)
(* types and the accounting of every lot's shares; what it promises of the *)
(* holding as a whole; which matched lots a move or a sale forfeits; in    *)
(* which order sales and moves take their shares; and what a later call    *)
(* may change of what was held on an ex-date.                              *)
(***************************************************************************)
EXTENDS LotLedger, SumProofs

(* A lot is never asked for more shares than it has, whatever was          *)
(* identified before it.                                                   *)
LEMMA FilledBounds ==
  ASSUME NEW ahead, NEW have \in Nat, NEW want
  PROVE  Filled(ahead, have, want) \in 0..have
<1> DEFINE K == {k \in 1..have : ahead + k <= want}
<1>1. IsFiniteSet(1..have) /\ Cardinality(1..have) = have
  BY FS_Interval
<1>2. IsFiniteSet(K) /\ Cardinality(K) <= have
  BY <1>1, FS_Subset
<1>3. Cardinality(K) \in Nat
  BY <1>2, FS_CardinalityType
<1> QED
  BY <1>2, <1>3 DEF Filled

(* Both identifications take from a lot at most what it has, and nothing   *)
(* from a lot that is not eligible.                                        *)
LEMMA FifoTakeBounds ==
  ASSUME NEW S, NEW rem \in [LotIds -> Nat], NEW acq, NEW q
  PROVE  /\ FifoTake(S, rem, acq, q) \in [LotIds -> Nat]
         /\ \A l \in LotIds : FifoTake(S, rem, acq, q)[l] <= rem[l]
         /\ \A l \in LotIds \ S : FifoTake(S, rem, acq, q)[l] = 0
<1>1. \A l \in LotIds : FifoTake(S, rem, acq, q)[l] \in 0..rem[l]
  BY FilledBounds DEF FifoTake
<1>2. DOMAIN FifoTake(S, rem, acq, q) = LotIds
  BY DEF FifoTake
<1> QED
  BY <1>1, <1>2 DEF FifoTake

LEMMA UkTakeBounds ==
  ASSUME NEW S, NEW rem \in [LotIds -> Nat], NEW acq, NEW d, NEW q
  PROVE  /\ UkTake(S, rem, acq, d, q) \in [LotIds -> Nat]
         /\ \A l \in LotIds : UkTake(S, rem, acq, d, q)[l] <= rem[l]
         /\ \A l \in LotIds \ S : UkTake(S, rem, acq, d, q)[l] = 0
<1> DEFINE take == UkTake(S, rem, acq, d, q)
<1>1. ASSUME NEW l \in LotIds
      PROVE  take[l] \in 0..rem[l] /\ (l \notin S => take[l] = 0)
  <2>1. CASE l \in SameDay(S, acq, d)
    BY <2>1, FilledBounds DEF UkTake, SameDay
  <2>2. CASE l \notin SameDay(S, acq, d) /\ l \in Pool(S, acq, d)
    BY <2>2, FilledBounds DEF UkTake, Pool
  <2>3. CASE l \notin SameDay(S, acq, d) /\ l \notin Pool(S, acq, d)
    BY <2>3 DEF UkTake
  <2> QED
    BY <2>1, <2>2, <2>3
<1>2. take = [l \in LotIds |-> take[l]]
  BY DEF UkTake
<1> HIDE DEF take
<1> QED
  BY <1>1, <1>2 DEF take

-----------------------------------------------------------------------------
(* Which shares are taken first                                            *)

LEMMA FilledFull ==
  ASSUME NEW ahead \in Int, NEW have \in Nat, NEW want \in Int, ahead + have <= want
  PROVE  Filled(ahead, have, want) = have
<1>1. \A k \in 1..have : ahead + k <= want
  OBVIOUS
<1>2. {k \in 1..have : ahead + k <= want} = 1..have
  BY <1>1
<1>3. Cardinality(1..have) = have
  BY FS_Interval
<1> QED
  BY <1>2, <1>3 DEF Filled

LEMMA FilledSome ==
  ASSUME NEW ahead \in Int, NEW have \in Nat, NEW want \in Int,
         Filled(ahead, have, want) > 0
  PROVE  ahead < want
<1>1. CASE {k \in 1..have : ahead + k <= want} = {}
  BY <1>1, FS_EmptySet DEF Filled
<1>2. CASE {k \in 1..have : ahead + k <= want} # {}
  BY <1>2
<1> QED
  BY <1>1, <1>2

(* The shares of a lot and of others, within a set that has them all.      *)
LEMMA SharesWithin ==
  ASSUME NEW rem \in [LotIds -> Nat], NEW S \in SUBSET LotIds, NEW T \in SUBSET S,
         NEW k \in S, k \notin T
  PROVE  /\ Shares(T, rem) \in Nat /\ Shares(S, rem) \in Nat
         /\ Shares(T, rem) + rem[k] <= Shares(S, rem)
<1>1. IsFiniteSet(S) /\ IsFiniteSet(T)
  BY LotIdsAssumption, FS_Subset
<1> DEFINE U == T \cup {k}
<1>2. U \in SUBSET S
  OBVIOUS
<1>3. /\ SumFunctionOnSet(rem, T) \in Nat /\ SumFunctionOnSet(rem, S) \in Nat
  BY <1>1, SumNat
<1>4. SumFunctionOnSet(rem, T \cup {k}) = SumFunctionOnSet(rem, T) + rem[k]
  <2>1. \A y \in T \cup {k} : rem[y] \in Int
    OBVIOUS
  <2> QED
    BY <1>1, <2>1, SumAdd
<1>5. SumFunctionOnSet(rem, U) <= SumFunctionOnSet(rem, S)
  <2>1. \A y \in S : rem[y] \in Nat
    OBVIOUS
  <2> HIDE DEF U
  <2> QED
    BY <1>1, <1>2, <2>1, SumOfPart
<1> QED
  BY <1>3, <1>4, <1>5 DEF Shares

LEMMA OlderThanOlder ==
  ASSUME NEW acq \in [LotIds -> Nat], NEW j \in LotIds, NEW k \in LotIds, NEW l \in LotIds,
         Older(acq, j, k), Older(acq, k, l)
  PROVE  Older(acq, j, l)
BY LotIdsAssumption DEF Older

LEMMA NotOlderThanItself ==
  ASSUME NEW acq \in [LotIds -> Nat], NEW k \in LotIds
  PROVE  ~Older(acq, k, k)
BY LotIdsAssumption DEF Older

(* Oldest first: a lot gives shares only when every older one gives all.   *)
LEMMA FifoOldestFirst ==
  ASSUME NEW S \in SUBSET LotIds, NEW rem \in [LotIds -> Nat], NEW acq \in [LotIds -> Nat],
         NEW q \in Int, NEW k \in S, NEW l \in LotIds, Older(acq, k, l),
         FifoTake(S, rem, acq, q)[l] > 0
  PROVE  FifoTake(S, rem, acq, q)[k] = rem[k]
<1> DEFINE before(x) == {j \in S : Older(acq, j, x)}
<1>1. l \in S
  BY DEF FifoTake
<1>2. /\ FifoTake(S, rem, acq, q)[l] = Filled(Shares(before(l), rem), rem[l], q)
      /\ FifoTake(S, rem, acq, q)[k] = Filled(Shares(before(k), rem), rem[k], q)
  BY <1>1 DEF FifoTake
<1>3. /\ before(l) \in SUBSET LotIds /\ before(k) \in SUBSET before(l)
      /\ k \in before(l) /\ k \notin before(k)
  BY OlderThanOlder, NotOlderThanItself
<1> HIDE DEF before
<1>4. /\ Shares(before(k), rem) \in Nat /\ Shares(before(l), rem) \in Nat
      /\ Shares(before(k), rem) + rem[k] <= Shares(before(l), rem)
  BY <1>3, SharesWithin
<1> DEFINE al == Shares(before(l), rem)
           ak == Shares(before(k), rem)
<1>5. al \in Int /\ ak \in Int /\ rem[l] \in Nat /\ rem[k] \in Nat /\ ak + rem[k] <= al
  BY <1>4
<1>6. Filled(al, rem[l], q) > 0
  BY <1>2
<1> HIDE DEF al, ak
<1>7. al < q
  BY <1>5, <1>6, FilledSome
<1>8. ak + rem[k] <= q
  BY <1>5, <1>7
<1>9. Filled(ak, rem[k], q) = rem[k]
  BY <1>5, <1>8, FilledFull
<1> QED
  BY <1>2, <1>9 DEF ak

-----------------------------------------------------------------------------
(* A lot that was not added yet has no shares, and none has ever left it.  *)
FreeUntouched ==
  \A l \in LotIds :
    ~Live(l) => lots[l].rem = 0 /\ gone[l] = [sold |-> 0, moved |-> 0, forfeited |-> 0]

(* LotAccounting is inductive once an unused id is known to be untouched:  *)
(* a transfer creates BROKERAGE lots under unused ids.                     *)
LedgerInv == TypeOK /\ LotAccounting /\ FreeUntouched

-----------------------------------------------------------------------------
LEMMA InitLedger == Init => LedgerInv
<1> SUFFICES ASSUME Init PROVE LedgerInv
  OBVIOUS
<1>1. Absent \in Lot
  BY SizesAssumption DEF Absent, Lot, NoLot, Schemes, PlanSchemes
<1>2. TypeOK
  BY <1>1, SizesAssumption DEF Init, TypeOK, Days, Gone, TransferEvent
<1>3. LotAccounting /\ FreeUntouched
  BY DEF Init, LotAccounting, FreeUntouched, Live, Absent
<1> QED
  BY <1>2, <1>3 DEF LedgerInv

(* Every quantity, day, scheme and currency a new lot is made of is typed. *)
LEMMA NewLotType ==
  ASSUME NEW s \in Schemes, NEW d \in Nat, NEW q \in Nat, NEW c \in Currencies
  PROVE  /\ NewLot(s, d, q, c) \in Lot
         /\ NewLot(s, d, q, c).qty = q /\ NewLot(s, d, q, c).rem = q
         /\ NewLot(s, d, q, c).scheme = s
BY SizesAssumption DEF NewLot, Absent, Lot, NoLot, Schemes, PlanSchemes

LEMMA NextDayKeeps == LedgerInv /\ NextDay => LedgerInv'
BY SizesAssumption DEF LedgerInv, NextDay, TypeOK, LotAccounting, FreeUntouched, Live, Days

LEMMA AddLotKeeps ==
  ASSUME LedgerInv, NEW l \in LotIds, NEW scheme \in Acquirable, NEW d \in Days,
         NEW q \in Quantities, NEW c \in Currencies, AddLot(l, scheme, d, q, c)
  PROVE  LedgerInv'
<1> DEFINE new == NewLot(scheme, d, q, c)
<1>1. /\ new \in Lot /\ new.qty = q /\ new.rem = q /\ new.scheme = scheme
      /\ q \in Nat /\ scheme # "NONE"
  BY NewLotType, SizesAssumption DEF Days, Schemes, PlanSchemes
<1>2. lots' = [lots EXCEPT ![l] = new]
  BY DEF AddLot
<1> HIDE DEF new
<1>3. TypeOK'
  BY <1>1, <1>2 DEF LedgerInv, TypeOK, AddLot
<1>4. LotAccounting'
  BY <1>1, <1>2 DEF LedgerInv, TypeOK, LotAccounting, FreeUntouched, AddLot
<1>5. FreeUntouched'
  BY <1>1, <1>2 DEF LedgerInv, TypeOK, FreeUntouched, AddLot, Live
<1> QED
  BY <1>3, <1>4, <1>5 DEF LedgerInv

LEMMA AddPairKeeps ==
  ASSUME LedgerInv, NEW e \in LotIds, NEW m \in LotIds, NEW d \in Days,
         NEW q \in Quantities, NEW qm \in Quantities, NEW c \in Currencies,
         AddEsppPlusPair(e, m, d, q, qm, c)
  PROVE  LedgerInv'
<1> DEFINE paid  == NewLot("ESPP_PLUS", d, q, c)
           match == [NewLot("ESPP_PLUS", d, qm, c)
                       EXCEPT !.match = e, !.end = d + Window]
<1>1. /\ paid \in Lot /\ paid.qty = q /\ paid.rem = q /\ paid.scheme = "ESPP_PLUS"
      /\ match \in Lot /\ match.qty = qm /\ match.rem = qm
      /\ match.scheme = "ESPP_PLUS" /\ q \in Nat /\ qm \in Nat
  <2>1. "ESPP_PLUS" \in Schemes /\ d \in Nat /\ q \in Nat /\ qm \in Nat /\ d + Window \in Nat
    BY SizesAssumption DEF Days, Schemes, PlanSchemes
  <2> DEFINE base == NewLot("ESPP_PLUS", d, qm, c)
  <2>2. base \in Lot /\ base.qty = qm /\ base.rem = qm /\ base.scheme = "ESPP_PLUS"
    BY <2>1, NewLotType
  <2>3. paid \in Lot /\ paid.qty = q /\ paid.rem = q /\ paid.scheme = "ESPP_PLUS"
    BY <2>1, NewLotType
  <2>4. match = [base EXCEPT !.match = e, !.end = d + Window]
    OBVIOUS
  <2> HIDE DEF base, match, paid
  <2>5. /\ match \in Lot /\ match.qty = qm /\ match.rem = qm
        /\ match.scheme = "ESPP_PLUS"
    BY <2>1, <2>2, <2>4 DEF Lot
  <2> QED
    BY <2>1, <2>3, <2>5
<1>2. /\ lots' = [lots EXCEPT ![e] = paid, ![m] = match]
      /\ UNCHANGED <<sold, transferEvents, taxEvents, today, gone>>
      /\ e # m /\ ~Live(e) /\ ~Live(m)
  BY DEF AddEsppPlusPair
<1> HIDE DEF paid, match
<1>3. TypeOK'
  BY <1>1, <1>2 DEF LedgerInv, TypeOK
<1>4. LotAccounting'
  <2> SUFFICES ASSUME NEW k \in LotIds
               PROVE  /\ lots'[k].rem <= lots'[k].qty
                      /\ lots'[k].qty - lots'[k].rem
                           = gone[k].sold + gone[k].moved + gone[k].forfeited
    BY <1>2 DEF LotAccounting
  <2>1. CASE k \in {e, m}
    <3>1. gone[k] = [sold |-> 0, moved |-> 0, forfeited |-> 0]
      BY <1>2, <2>1 DEF LedgerInv, FreeUntouched
    <3>2. lots'[k].qty = lots'[k].rem /\ lots'[k].rem \in Nat
      BY <1>1, <1>2, <2>1 DEF LedgerInv, TypeOK
    <3> QED
      BY <3>1, <3>2
  <2>2. CASE k \notin {e, m}
    <3>1. lots'[k] = lots[k]
      BY <1>2, <2>2 DEF LedgerInv, TypeOK
    <3> QED
      BY <3>1 DEF LedgerInv, LotAccounting
  <2> QED
    BY <2>1, <2>2
<1>5. FreeUntouched'
  BY <1>1, <1>2 DEF LedgerInv, TypeOK, FreeUntouched, Live
<1> QED
  BY <1>3, <1>4, <1>5 DEF LedgerInv

LEMMA EditLotKeeps ==
  ASSUME LedgerInv, NEW l \in LotIds, NEW d \in Days, NEW q \in Quantities,
         NEW c \in Currencies \cup {Nothing}, EditLot(l, d, q, c)
  PROVE  LedgerInv'
<1> DEFINE left == CorrectedRemaining(l, q)
           new  == [lots[l] EXCEPT !.acq = d, !.qty = q, !.rem = left,
                                   !.ccy = IF c = Nothing THEN @ ELSE c]
<1>1. lots[l] \in Lot /\ q \in Nat /\ d \in Nat
  BY SizesAssumption DEF LedgerInv, TypeOK, Days
<1>2. left = q - (lots[l].qty - lots[l].rem) /\ left \in Nat /\ left <= q
  BY <1>1 DEF EditLot, CorrectionAllowed, CorrectedRemaining, LedgerInv, LotAccounting, Lot
<1>3. /\ new \in Lot /\ new.qty = q /\ new.rem = left /\ new.scheme = lots[l].scheme
  <2> HIDE DEF left
  <2> QED
    BY <1>1, <1>2 DEF Lot
<1>4. /\ lots' = [lots EXCEPT ![l] = new]
      /\ UNCHANGED <<sold, transferEvents, taxEvents, today, gone>>
  BY DEF EditLot
<1> HIDE DEF new, left
<1>5. TypeOK'
  BY <1>3, <1>4 DEF LedgerInv, TypeOK
<1>6. LotAccounting'
  BY <1>1, <1>2, <1>3, <1>4 DEF LedgerInv, TypeOK, LotAccounting, Lot, Gone
<1>7. FreeUntouched'
  <2>1. Live(l)
    BY DEF EditLot
  <2> QED
    BY <1>3, <1>4, <2>1 DEF LedgerInv, TypeOK, FreeUntouched, Live
<1> QED
  BY <1>5, <1>6, <1>7 DEF LedgerInv

(* Forfeiting turns remaining shares into forfeited ones.                  *)
LEMMA FullTransferKeeps ==
  ASSUME LedgerInv, NEW l \in LotIds, NEW ccy \in Currencies \cup {Nothing},
         FullTransfer(l, ccy)
  PROVE  LedgerInv'
<1> DEFINE scheme == lots[l].scheme
           lost   == IF scheme = "ESPP_PLUS" THEN Forfeitable({l}, today) ELSE {}
           moved  == [lots[l] EXCEPT !.scheme = "BROKERAGE",
                                     !.ccy = IF ccy = Nothing THEN @ ELSE ccy]
           event  == [src |-> l, dst |-> l, from |-> scheme,
                      date |-> today, qty |-> lots[l].rem]
<1>1. /\ scheme \in {"RSU", "ESPP_PLUS"}
      /\ lots' = [k \in LotIds |-> CASE k = l -> moved
                                     [] k \in lost -> [lots[k] EXCEPT !.rem = 0]
                                     [] OTHER -> lots[k]]
      /\ gone' = [k \in LotIds |->
                    IF k \in lost THEN [gone[k] EXCEPT !.forfeited = @ + lots[k].rem]
                    ELSE gone[k]]
      /\ taxEvents' = IF scheme = "ESPP_PLUS" THEN taxEvents \cup {l} ELSE taxEvents
      /\ transferEvents' = RecordTransfer({event})
      /\ ~Matched(l)
      /\ UNCHANGED <<sold, today>>
  BY DEF FullTransfer
<1>2. \A k \in LotIds : lots[k] \in Lot /\ gone[k] \in Gone
  BY DEF LedgerInv, TypeOK
<1>3. \A k \in lost : k \in LotIds /\ Matched(k)
  BY DEF Forfeitable
<1>4. l \notin lost
  BY <1>1, <1>3
<1>5. /\ moved \in Lot /\ moved.qty = lots[l].qty /\ moved.rem = lots[l].rem
      /\ moved.scheme = "BROKERAGE"
  BY <1>2 DEF Lot, Schemes
<1>6. event \in TransferEvent
  BY <1>1, <1>2 DEF TransferEvent, Lot, LedgerInv, TypeOK, Days, Schemes, PlanSchemes
<1> HIDE DEF lost, moved, event
<1>7. TypeOK'
  <2>1. \A k \in LotIds : lots'[k] \in Lot /\ gone'[k] \in Gone
    BY <1>1, <1>2, <1>5 DEF Lot, Gone
  <2>2. transferEvents' \subseteq TransferEvent
    BY <1>1, <1>6 DEF RecordTransfer, LedgerInv, TypeOK
  <2>3. taxEvents' \subseteq LotIds
    BY <1>1 DEF LedgerInv, TypeOK
  <2>4. lots' \in [LotIds -> Lot] /\ gone' \in [LotIds -> Gone]
    BY <1>1, <2>1
  <2> QED
    BY <1>1, <2>2, <2>3, <2>4 DEF LedgerInv, TypeOK
<1>8. LotAccounting'
  <2> SUFFICES ASSUME NEW k \in LotIds
               PROVE  /\ lots'[k].rem <= lots'[k].qty
                      /\ lots'[k].qty - lots'[k].rem
                           = gone'[k].sold + gone'[k].moved + gone'[k].forfeited
    BY DEF LotAccounting
  <2>1. CASE k = l
    <3>1. lots'[k] = moved /\ gone'[k] = gone[k]
      BY <1>1, <1>4, <2>1
    <3>2. lots'[k].qty = lots[k].qty /\ lots'[k].rem = lots[k].rem
      BY <1>5, <2>1, <3>1
    <3> QED
      BY <3>1, <3>2 DEF LedgerInv, LotAccounting
  <2>2. CASE k # l /\ k \in lost
    <3>1. /\ lots'[k] = [lots[k] EXCEPT !.rem = 0]
          /\ gone'[k] = [gone[k] EXCEPT !.forfeited = @ + lots[k].rem]
      BY <1>1, <2>2
    <3>2. lots'[k].rem = 0 /\ lots'[k].qty = lots[k].qty
      BY <1>2, <3>1 DEF Lot
    <3>3. /\ gone'[k].sold = gone[k].sold /\ gone'[k].moved = gone[k].moved
          /\ gone'[k].forfeited = gone[k].forfeited + lots[k].rem
      BY <1>2, <3>1 DEF Gone
    <3>4. /\ lots[k].rem \in Nat /\ lots[k].qty \in Nat
          /\ gone[k].sold \in Nat /\ gone[k].moved \in Nat /\ gone[k].forfeited \in Nat
      BY <1>2 DEF Lot, Gone
    <3>5. lots[k].qty - lots[k].rem = gone[k].sold + gone[k].moved + gone[k].forfeited
      BY DEF LedgerInv, LotAccounting
    <3> QED
      BY <3>2, <3>3, <3>4, <3>5
  <2>3. CASE k # l /\ k \notin lost
    BY <1>1, <2>3 DEF LedgerInv, LotAccounting
  <2> QED
    BY <2>1, <2>2, <2>3
<1>9. FreeUntouched'
  <2> SUFFICES ASSUME NEW k \in LotIds, ~Live(k)'
               PROVE  lots'[k].rem = 0 /\ gone'[k] = [sold |-> 0, moved |-> 0, forfeited |-> 0]
    BY DEF FreeUntouched
  <2>1. k # l
    BY <1>1, <1>5 DEF Live
  <2>2. ~Live(k)
    BY <1>1, <1>2, <2>1 DEF Live, Lot
  <2>3. k \notin lost
    BY <1>3, <2>2 DEF Matched, Live
  <2>4. lots'[k] = lots[k] /\ gone'[k] = gone[k]
    BY <1>1, <2>1, <2>3
  <2> QED
    BY <2>2, <2>4 DEF LedgerInv, FreeUntouched
<1> QED
  BY <1>7, <1>8, <1>9 DEF LedgerInv

(* A disposal turns what it takes into sold shares and what it forfeits    *)
(* into forfeited ones; a lot it would both sell and forfeit aborts it.    *)
LEMMA CommitDisposalKeeps ==
  ASSUME LedgerInv, NEW q \in Quantities, NEW d \in Days,
         NEW scheme \in Schemes \cup {Nothing}, CommitDisposal(q, d, scheme)
  PROVE  LedgerInv'
<1> DEFINE pick == {l \in ActiveOf(scheme) : Sellable(l, d)}
           take == UkTake(pick, remOf, acqOf, d, q)
           lost == Forfeitable({l \in LotIds : take[l] > 0}, d)
           left == [l \in LotIds |-> (IF l \in lost THEN 0 ELSE lots[l].rem) - take[l]]
<1>1. \A k \in LotIds : lots[k] \in Lot /\ gone[k] \in Gone /\ sold[k] \in [Days -> Nat]
  BY DEF LedgerInv, TypeOK
<1>2. remOf \in [LotIds -> Nat]
  BY <1>1 DEF remOf, Lot
<1>3. take \in [LotIds -> Nat] /\ \A l \in LotIds \ pick : take[l] = 0
  BY <1>2, UkTakeBounds
<1>4. \A l \in pick : Live(l)
  BY DEF ActiveOf
<1>5. \A m \in lost : m \in LotIds /\ Live(m)
  BY DEF Forfeitable, Matched, Live
<1>6. /\ \A l \in LotIds : left[l] \in 0..lots[l].qty
      /\ lots' = [l \in LotIds |-> [lots[l] EXCEPT !.rem = left[l]]]
      /\ sold' = [l \in LotIds |-> DisposalRow(l, d, take[l])]
      /\ gone' = [l \in LotIds |->
           [gone[l] EXCEPT !.sold = @ + take[l],
                           !.forfeited = @ + IF l \in lost THEN lots[l].rem ELSE 0]]
      /\ UNCHANGED <<transferEvents, taxEvents, today>>
  BY DEF CommitDisposal
<1>7. \A l \in LotIds : left[l] = (IF l \in lost THEN 0 ELSE lots[l].rem) - take[l]
  OBVIOUS
<1> HIDE DEF pick, take, lost, left
<1> DEFINE forf(l) == IF l \in lost THEN lots[l].rem ELSE 0
<1>8. ASSUME NEW l \in LotIds
      PROVE  /\ lots'[l] \in Lot /\ lots'[l].scheme = lots[l].scheme
             /\ lots'[l].qty = lots[l].qty
             /\ lots'[l].rem = lots[l].rem - forf(l) - take[l]
             /\ lots'[l].rem <= lots[l].qty
             /\ take[l] \in Nat /\ forf(l) \in Nat
  <2>1. lots[l] \in Lot /\ lots[l].rem \in Nat /\ lots[l].qty \in Nat /\ take[l] \in Nat
    BY <1>1, <1>3 DEF Lot
  <2>2. forf(l) \in Nat /\ left[l] = lots[l].rem - forf(l) - take[l]
    BY <1>7, <2>1 DEF forf
  <2>3. left[l] \in 0..lots[l].qty /\ lots'[l] = [lots[l] EXCEPT !.rem = left[l]]
    BY <1>6
  <2> DEFINE r == left[l]
  <2>4. r \in Nat /\ r <= lots[l].qty /\ lots'[l] = [lots[l] EXCEPT !.rem = r]
    BY <2>1, <2>3
  <2> HIDE DEF r
  <2>5. /\ lots'[l] \in Lot /\ lots'[l].scheme = lots[l].scheme
        /\ lots'[l].qty = lots[l].qty /\ lots'[l].rem = r
    BY <2>1, <2>4 DEF Lot
  <2> QED
    BY <2>1, <2>2, <2>4, <2>5 DEF r
<1>9. ASSUME NEW l \in LotIds
      PROVE  /\ gone'[l] \in Gone
             /\ gone'[l].sold = gone[l].sold + take[l]
             /\ gone'[l].moved = gone[l].moved
             /\ gone'[l].forfeited = gone[l].forfeited + forf(l)
  <2> DEFINE s == gone[l].sold + take[l]
             f == gone[l].forfeited + forf(l)
             mid == [gone[l] EXCEPT !.sold = s]
  <2>1. gone[l] \in Gone /\ s \in Nat /\ f \in Nat
    BY <1>1, <1>8 DEF Gone
  <2>2. gone'[l] = [gone[l] EXCEPT !.sold = s, !.forfeited = f]
    BY <1>6 DEF forf
  <2> HIDE DEF s, f
  <2>3. /\ mid \in Gone /\ mid.sold = s
        /\ mid.moved = gone[l].moved /\ mid.forfeited = gone[l].forfeited
    BY <2>1 DEF Gone
  <2>4. gone'[l] = [mid EXCEPT !.forfeited = f]
    BY <2>2
  <2> HIDE DEF mid
  <2>5. /\ gone'[l] \in Gone /\ gone'[l].sold = mid.sold
        /\ gone'[l].moved = mid.moved /\ gone'[l].forfeited = f
    BY <2>1, <2>3, <2>4 DEF Gone
  <2> QED
    BY <2>3, <2>5 DEF s, f
<1> HIDE DEF forf
<1>10. TypeOK'
  <2>1. \A l \in LotIds : sold'[l] \in [Days -> Nat]
    <3> SUFFICES ASSUME NEW l \in LotIds PROVE sold'[l] \in [Days -> Nat]
      OBVIOUS
    <3>1. /\ sold[l] \in [Days -> Nat] /\ take[l] \in Nat
          /\ sold'[l] = [sold[l] EXCEPT ![d] = @ + take[l]]
      BY <1>1, <1>3, <1>6 DEF DisposalRow
    <3> QED
      BY <3>1
  <2>2. /\ lots' \in [LotIds -> Lot] /\ gone' \in [LotIds -> Gone]
        /\ sold' \in [LotIds -> [Days -> Nat]]
    BY <1>6, <1>8, <1>9, <2>1
  <2> QED
    BY <1>6, <2>2 DEF LedgerInv, TypeOK
<1>11. LotAccounting'
  <2> SUFFICES ASSUME NEW k \in LotIds
               PROVE  /\ lots'[k].rem <= lots'[k].qty
                      /\ lots'[k].qty - lots'[k].rem
                           = gone'[k].sold + gone'[k].moved + gone'[k].forfeited
    BY DEF LotAccounting
  <2>1. lots[k].qty - lots[k].rem = gone[k].sold + gone[k].moved + gone[k].forfeited
    BY DEF LedgerInv, LotAccounting
  <2>2. /\ gone[k].sold \in Nat /\ gone[k].moved \in Nat /\ gone[k].forfeited \in Nat
        /\ lots[k].rem \in Nat /\ lots[k].qty \in Nat
    BY <1>1 DEF Gone, Lot
  <2>3. /\ lots'[k].qty = lots[k].qty
        /\ lots'[k].rem = lots[k].rem - forf(k) - take[k]
        /\ lots'[k].rem <= lots[k].qty
        /\ take[k] \in Nat /\ forf(k) \in Nat
    BY <1>8
  <2>4. /\ gone'[k].sold = gone[k].sold + take[k]
        /\ gone'[k].moved = gone[k].moved
        /\ gone'[k].forfeited = gone[k].forfeited + forf(k)
    BY <1>9
  <2>5. lots'[k].rem <= lots'[k].qty
    BY <2>3
  <2> DEFINE x == forf(k)
             t == take[k]
  <2>6. /\ lots'[k].qty - lots'[k].rem = lots[k].qty - (lots[k].rem - x - t)
        /\ x \in Nat /\ t \in Nat
    BY <2>3
  <2>7. gone'[k].sold + gone'[k].moved + gone'[k].forfeited
          = (gone[k].sold + t) + gone[k].moved + (gone[k].forfeited + x)
    BY <2>4
  <2>8. lots[k].qty - (lots[k].rem - x - t)
          = (gone[k].sold + t) + gone[k].moved + (gone[k].forfeited + x)
    <3> DEFINE a == lots[k].qty
               b == lots[k].rem
               s == gone[k].sold
               m == gone[k].moved
               f == gone[k].forfeited
    <3>1. /\ a \in Nat /\ b \in Nat /\ s \in Nat /\ m \in Nat /\ f \in Nat
          /\ x \in Nat /\ t \in Nat /\ a - b = s + m + f
      BY <2>1, <2>2, <2>6
    <3> HIDE DEF a, b, s, m, f, x, t
    <3>2. a - (b - x - t) = (s + t) + m + (f + x)
      BY <3>1
    <3> QED
      BY <3>2 DEF a, b, s, m, f
  <2> HIDE DEF x, t
  <2> QED
    BY <2>5, <2>6, <2>7, <2>8
<1>12. FreeUntouched'
  <2> SUFFICES ASSUME NEW k \in LotIds, ~Live(k)'
               PROVE  lots'[k].rem = 0 /\ gone'[k] = [sold |-> 0, moved |-> 0, forfeited |-> 0]
    BY DEF FreeUntouched
  <2>1. ~Live(k)
    BY <1>8 DEF Live
  <2>2. k \notin pick /\ k \notin lost
    BY <1>4, <1>5, <2>1
  <2>3. take[k] = 0 /\ forf(k) = 0
    BY <1>3, <2>2 DEF forf
  <2>4. lots[k].rem = 0 /\ gone[k] = [sold |-> 0, moved |-> 0, forfeited |-> 0]
    BY <2>1 DEF LedgerInv, FreeUntouched
  <2>5. /\ gone'[k] \in Gone /\ gone'[k].sold = 0
        /\ gone'[k].moved = 0 /\ gone'[k].forfeited = 0
        /\ lots'[k].rem = 0
    BY <1>8, <1>9, <2>3, <2>4
  <2> QED
    BY <2>5 DEF Gone
<1> QED
  BY <1>10, <1>11, <1>12 DEF LedgerInv

MoveRows(take, moved, dst) ==
  {[src |-> s, dst |-> dst[s], from |-> "ESPP", date |-> today, qty |-> take[s]] : s \in moved}

(* An ESPP move takes shares from lots of the plan and puts those of each  *)
(* into a BROKERAGE lot of its own, found by its origin or created.        *)
MoveOf(take, moved, dst, c) ==
  /\ gone' = [k \in LotIds |-> [gone[k] EXCEPT !.moved = @ + take[k]]]
  /\ lots' = [k \in LotIds |-> lots'[k]]
  /\ \A k \in LotIds : take[k] <= lots[k].rem
  /\ \A k \in LotIds \ moved : take[k] = 0
  /\ \A s \in moved : /\ take[s] > 0 /\ lots[s].scheme = "ESPP"
                      /\ lots'[s] = [lots[s] EXCEPT !.rem = @ - take[s]]
  /\ \A k, s \in LotIds :
       (take[s] > 0 /\ Live(k) /\ lots[k].scheme = "ESPP" /\ Older(acqOf, k, s))
         => take[k] = lots[k].rem
  /\ \A s, t \in moved : dst[s] = dst[t] => s = t
  /\ \A s \in moved : Live(dst[s]) =>
       /\ lots[dst[s]].scheme = "BROKERAGE"
       /\ lots'[dst[s]] = [lots[dst[s]] EXCEPT !.qty = @ + take[s],
                                               !.rem = @ + take[s], !.ccy = c]
  /\ \A s \in moved : ~Live(dst[s]) =>
       lots'[dst[s]] = [NewLot("BROKERAGE", lots[s].acq, take[s], c) EXCEPT !.origin = s]
  /\ \A k \in LotIds \ moved : (\A s \in moved : dst[s] # k) => lots'[k] = lots[k]
  /\ transferEvents' = RecordTransfer(MoveRows(take, moved, dst))
  /\ UNCHANGED <<sold, taxEvents, today>>

LEMMA MoveEffect ==
  ASSUME LedgerInv, NEW l \in LotIds, NEW requested \in Requests \cup {AllShares},
         NEW ccy \in Currencies \cup {Nothing}, EsppTransfer(l, requested, ccy)
  PROVE  \E take \in [LotIds -> Nat], moved \in SUBSET LotIds, c \in Currencies :
         \E dst \in [moved -> LotIds \ moved] : MoveOf(take, moved, dst, c)
<1> DEFINE pool  == ActiveOf("ESPP")
           whole == (Shares(pool, remOf) \div Unit) * Unit
           q     == IF requested = AllShares THEN whole ELSE requested
           take  == FifoTake(pool, remOf, acqOf, q)
           moved == {s \in pool : take[s] > 0}
           first == {s \in moved : ShadowsOf(s) = {}}
           c     == IF ccy = Nothing THEN lots[l].ccy ELSE ccy
           into(dst, k) == {s \in moved : dst[s] = k}
           one(dst, k)  == CHOOSE x \in into(dst, k) : TRUE
           new(dst, k)  ==
             CASE k \in moved -> [lots[k] EXCEPT !.rem = @ - take[k]]
               [] k \notin moved /\ into(dst, k) = {} -> lots[k]
               [] k \notin moved /\ into(dst, k) # {} /\ Live(k) ->
                    [lots[k] EXCEPT !.qty = @ + take[one(dst, k)],
                                    !.rem = @ + take[one(dst, k)], !.ccy = c]
               [] OTHER ->
                    [NewLot("BROKERAGE", lots[one(dst, k)].acq, take[one(dst, k)], c)
                       EXCEPT !.origin = one(dst, k)]
           events(dst) == {[src |-> s, dst |-> dst[s], from |-> "ESPP",
                            date |-> today, qty |-> take[s]] : s \in moved}
<1>1. \A k \in LotIds : lots[k] \in Lot
  BY DEF LedgerInv, TypeOK
<1>2. remOf \in [LotIds -> Nat]
  BY <1>1 DEF remOf, Lot
<1>3. /\ take \in [LotIds -> Nat]
      /\ \A k \in LotIds : take[k] <= lots[k].rem
      /\ \A k \in LotIds \ pool : take[k] = 0
  BY <1>2, FifoTakeBounds DEF remOf
<1>4. PICK dst \in [moved -> LotIds] :
        /\ \A s \in moved : dst[s] \in (IF s \in first THEN Free ELSE ShadowsOf(s))
        /\ \A s, t \in first : dst[s] = dst[t] => s = t
        /\ lots' = [k \in LotIds |-> new(dst, k)]
        /\ transferEvents' = RecordTransfer(events(dst))
  BY DEF EsppTransfer
<1>5. \A s \in moved : \A b \in ShadowsOf(s) : lots[b].scheme = "BROKERAGE"
  BY DEF EsppTransfer, Mergeable
<1>6. pool \subseteq LotIds /\ \A k \in pool : lots[k].scheme = "ESPP"
  BY DEF ActiveOf, Nothing
<1>7. /\ moved \subseteq pool /\ \A k \in pool \ moved : ~(take[k] > 0)
      /\ \A k \in moved : take[k] > 0
      /\ first \subseteq moved /\ \A s \in moved : s \in first <=> ShadowsOf(s) = {}
  OBVIOUS
<1>8. /\ gone' = [k \in LotIds |-> [gone[k] EXCEPT !.moved = @ + take[k]]]
      /\ UNCHANGED <<sold, taxEvents, today>>
  BY DEF EsppTransfer
<1>9. c \in Currencies
  BY <1>1 DEF Lot
<1>20. ASSUME NEW k \in LotIds, NEW s \in LotIds, take[s] > 0, Live(k),
              lots[k].scheme = "ESPP", Older(acqOf, k, s)
       PROVE  take[k] = lots[k].rem
  <2>1. pool \in SUBSET LotIds /\ acqOf \in [LotIds -> Nat]
    BY <1>1 DEF ActiveOf, acqOf, Lot
  <2>2. q \in Int
    <3>1. IsFiniteSet(pool) /\ \A x \in pool : remOf[x] \in Nat
      BY <1>2, <2>1, LotIdsAssumption, FS_Subset
    <3> HIDE DEF pool
    <3>2. Shares(pool, remOf) \in Nat
      BY <3>1, SumNat DEF Shares
    <3>3. whole \in Int
      BY <3>2, SizesAssumption
    <3> HIDE DEF whole
    <3> QED
      BY <3>3, SizesAssumption
  <2>3. remOf[k] = lots[k].rem /\ lots[k].rem \in Nat /\ take[k] \in Nat /\ take[k] <= lots[k].rem
    <3>1. remOf[k] = lots[k].rem
      BY DEF remOf
    <3>2. lots[k].rem \in Nat
      BY <1>1 DEF Lot
    <3> HIDE DEF take
    <3> QED
      BY <1>3, <3>1, <3>2
  <2>4. CASE k \in pool
    <3> HIDE DEF pool, q
    <3>1. FifoTake(pool, remOf, acqOf, q)[k] = remOf[k]
      BY <1>2, <1>20, <2>1, <2>2, <2>4, FifoOldestFirst
    <3> QED
      BY <2>3, <3>1
  <2>5. CASE k \notin pool
    <3>1. ~Active(k)
      BY <1>20, <2>5 DEF ActiveOf
    <3> HIDE DEF take
    <3> QED
      BY <2>3, <3>1 DEF Active
  <2> QED
    BY <2>4, <2>5
<1> HIDE DEF pool, take, moved, first, c, q, whole
<1>10. moved \subseteq LotIds /\ \A k \in LotIds \ moved : take[k] = 0
  <2>1. moved \subseteq LotIds
    BY <1>6, <1>7
  <2> QED
    BY <1>3, <1>6, <1>7, <2>1
<1>11. \A s \in moved : dst[s] \in LotIds \ moved
  BY <1>4, <1>5, <1>6, <1>7 DEF Free, Live
<1>12. \A s, t \in moved : dst[s] = dst[t] => s = t
  <2> SUFFICES ASSUME NEW s \in moved, NEW t \in moved, dst[s] = dst[t] PROVE s = t
    OBVIOUS
  <2>1. CASE s \in first /\ t \in first
    BY <1>4, <2>1
  <2>2. CASE s \notin first /\ t \notin first
    BY <1>4, <2>2 DEF ShadowsOf
  <2>3. ASSUME NEW u \in moved, NEW v \in moved, u \in first, v \notin first, dst[u] = dst[v]
        PROVE  FALSE
    BY <1>4, <2>3 DEF Free, ShadowsOf
  <2> QED
    BY <2>1, <2>2, <2>3
<1>13. \A s \in moved : into(dst, dst[s]) = {s} /\ one(dst, dst[s]) = s
  BY <1>12
<1>14. \A s \in moved : lots'[s] = [lots[s] EXCEPT !.rem = @ - take[s]]
  BY <1>4, <1>10
<1>15. ASSUME NEW s \in moved
       PROVE  /\ Live(dst[s]) =>
                   /\ lots[dst[s]].scheme = "BROKERAGE"
                   /\ lots'[dst[s]] = [lots[dst[s]] EXCEPT !.qty = @ + take[s],
                                                           !.rem = @ + take[s], !.ccy = c]
              /\ ~Live(dst[s]) =>
                   lots'[dst[s]] = [NewLot("BROKERAGE", lots[s].acq, take[s], c)
                                      EXCEPT !.origin = s]
  <2> DEFINE k == dst[s]
  <2>1. k \in LotIds /\ k \notin moved /\ into(dst, k) # {} /\ one(dst, k) = s
    BY <1>11, <1>13
  <2>2. Live(k) => lots[k].scheme = "BROKERAGE"
    BY <1>4, <1>5, <1>7 DEF Free
  <2>3. lots'[k] = new(dst, k)
    BY <1>4, <2>1
  <2> HIDE DEF k, into, one
  <2>4. CASE Live(k)
    <3>1. lots'[k] = [lots[k] EXCEPT !.qty = @ + take[s], !.rem = @ + take[s], !.ccy = c]
      BY <2>1, <2>3, <2>4
    <3> QED
      BY <2>2, <2>4, <3>1 DEF k
  <2>5. CASE ~Live(k)
    <3>1. lots'[k] = [NewLot("BROKERAGE", lots[s].acq, take[s], c) EXCEPT !.origin = s]
      BY <2>1, <2>3, <2>5
    <3> QED
      BY <2>5, <3>1 DEF k
  <2> QED
    BY <2>4, <2>5
<1>16. ASSUME NEW k \in LotIds \ moved, \A s \in moved : dst[s] # k
       PROVE  lots'[k] = lots[k]
  <2>1. into(dst, k) = {}
    BY <1>16
  <2> QED
    BY <1>4, <2>1
<1>17. dst \in [moved -> LotIds \ moved]
  BY <1>4, <1>11
<1>18. transferEvents' = RecordTransfer(MoveRows(take, moved, dst))
  BY <1>4 DEF MoveRows
<1>19. MoveOf(take, moved, dst, c)
  <2>1. lots' = [k \in LotIds |-> lots'[k]] /\ \A k \in LotIds : take[k] <= lots[k].rem
    BY <1>3, <1>4
  <2>2. \A s \in moved : take[s] > 0 /\ lots[s].scheme = "ESPP"
    BY <1>6, <1>7
  <2> HIDE DEF events, into, one, new
  <2> QED
    BY <1>8, <1>10, <1>12, <1>14, <1>15, <1>16, <1>18, <1>20, <2>1, <2>2 DEF MoveOf
<1> QED
  BY <1>3, <1>9, <1>10, <1>17, <1>19

(* Only the lots an ESPP move takes from lose shares.                      *)
LEMMA EsppTransferKeeps ==
  ASSUME LedgerInv, NEW l \in LotIds, NEW requested \in Requests \cup {AllShares},
         NEW ccy \in Currencies \cup {Nothing}, EsppTransfer(l, requested, ccy)
  PROVE  LedgerInv'
<1>1. \A k \in LotIds : lots[k] \in Lot /\ gone[k] \in Gone
  BY DEF LedgerInv, TypeOK
<1>2. PICK take \in [LotIds -> Nat], moved \in SUBSET LotIds, c \in Currencies :
        \E dst \in [moved -> LotIds \ moved] : MoveOf(take, moved, dst, c)
  BY MoveEffect
<1>3. PICK dst \in [moved -> LotIds \ moved] : MoveOf(take, moved, dst, c)
  BY <1>2
<1> DEFINE events == MoveRows(take, moved, dst)
<1>4. \A k \in LotIds \ moved : take[k] = 0
  BY <1>3 DEF MoveOf
<1>5. lots' = [k \in LotIds |-> lots'[k]] /\ transferEvents' = RecordTransfer(events)
  BY <1>3 DEF MoveOf
<1>6. /\ gone' = [k \in LotIds |-> [gone[k] EXCEPT !.moved = @ + take[k]]]
      /\ UNCHANGED <<sold, taxEvents, today>>
  BY <1>3 DEF MoveOf
<1>7. events \subseteq TransferEvent
  <2>1. \A s \in moved : s \in LotIds /\ dst[s] \in LotIds /\ take[s] \in Nat
    OBVIOUS
  <2>2. today \in Nat /\ "ESPP" \in Schemes
    BY SizesAssumption DEF LedgerInv, TypeOK, Days, Schemes, PlanSchemes
  <2> QED
    BY <2>1, <2>2 DEF TransferEvent, MoveRows
<1> HIDE DEF events
<1>8. ASSUME NEW k \in LotIds
      PROVE  /\ lots'[k] \in Lot
             /\ lots'[k].rem <= lots'[k].qty
             /\ lots'[k].qty - lots'[k].rem = (lots[k].qty - lots[k].rem) + take[k]
             /\ lots'[k].scheme = "NONE" => ~Live(k) /\ lots'[k] = lots[k]
  <2>1. /\ lots[k] \in Lot /\ lots[k].qty \in Nat /\ lots[k].rem \in Nat
        /\ lots[k].rem <= lots[k].qty /\ take[k] \in Nat /\ take[k] <= lots[k].rem
    BY <1>1, <1>3 DEF Lot, LedgerInv, LotAccounting, MoveOf
  <2>2. CASE k \in moved
    <3> DEFINE r == lots[k].rem - take[k]
    <3>0. r \in Nat /\ r <= lots[k].qty
      BY <2>1
    <3>1. lots'[k] = [lots[k] EXCEPT !.rem = r] /\ lots[k].scheme # "NONE"
      BY <1>3, <2>2 DEF MoveOf
    <3>2. lots[k].qty - r = (lots[k].qty - lots[k].rem) + take[k]
      BY <2>1
    <3> HIDE DEF r
    <3>3. /\ lots'[k] \in Lot /\ lots'[k].scheme = lots[k].scheme
          /\ lots'[k].qty = lots[k].qty /\ lots'[k].rem = r
      BY <2>1, <3>0, <3>1 DEF Lot
    <3> QED
      BY <3>0, <3>1, <3>2, <3>3
  <2>3. CASE k \notin moved /\ \A s \in moved : dst[s] # k
    <3>1. lots'[k] = lots[k] /\ take[k] = 0
      BY <1>3, <2>3 DEF MoveOf
    <3> QED
      BY <2>1, <3>1 DEF Live
  <2>4. ASSUME NEW s \in moved, dst[s] = k
        PROVE  /\ lots'[k] \in Lot
               /\ lots'[k].rem <= lots'[k].qty
               /\ lots'[k].qty - lots'[k].rem = (lots[k].qty - lots[k].rem) + take[k]
               /\ lots'[k].scheme # "NONE"
    <3> DEFINE n == take[s]
    <3>1. n \in Nat /\ lots[s] \in Lot /\ take[k] = 0
      BY <1>1, <1>4, <2>4
    <3>2. CASE Live(k)
      <4> DEFINE a == lots[k].qty + n
                 b == lots[k].rem + n
                 x == [lots[k] EXCEPT !.qty = a]
                 y == [x EXCEPT !.rem = b]
      <4>1. lots'[k] = [y EXCEPT !.ccy = c]
        BY <1>3, <2>4, <3>2 DEF MoveOf
      <4>2. /\ a \in Nat /\ b \in Nat /\ b <= a
            /\ a - b = (lots[k].qty - lots[k].rem) + take[k]
        BY <2>1, <3>1
      <4> HIDE DEF a, b
      <4>3. x \in Lot /\ x.qty = a /\ x.scheme = lots[k].scheme
        BY <2>1, <4>2 DEF Lot
      <4> HIDE DEF x
      <4>4. y \in Lot /\ y.qty = a /\ y.rem = b /\ y.scheme = lots[k].scheme
        BY <4>2, <4>3 DEF Lot
      <4> HIDE DEF y
      <4>5. /\ lots'[k] \in Lot /\ lots'[k].qty = a /\ lots'[k].rem = b
            /\ lots'[k].scheme = lots[k].scheme
        BY <4>1, <4>4 DEF Lot
      <4> QED
        BY <3>2, <4>2, <4>5 DEF Live
    <3>3. CASE ~Live(k)
      <4> DEFINE day == lots[s].acq
                 x   == NewLot("BROKERAGE", day, n, c)
      <4>1. lots'[k] = [x EXCEPT !.origin = s]
        BY <1>3, <2>4, <3>3 DEF MoveOf
      <4>2. s \in LotIds /\ day \in Nat /\ "BROKERAGE" \in Schemes
        BY <3>1 DEF Lot, Schemes
      <4> HIDE DEF n, day
      <4>3. x \in Lot /\ x.qty = n /\ x.rem = n /\ x.scheme = "BROKERAGE"
        BY <3>1, <4>2, NewLotType
      <4> HIDE DEF x
      <4>4. /\ lots'[k] \in Lot /\ lots'[k].qty = n /\ lots'[k].rem = n
            /\ lots'[k].scheme = "BROKERAGE"
        BY <4>1, <4>2, <4>3 DEF Lot
      <4>5. lots[k].qty - lots[k].rem = 0
        BY <3>3 DEF LedgerInv, LotAccounting, FreeUntouched
      <4> QED
        BY <3>1, <4>4, <4>5
    <3> QED
      BY <3>2, <3>3
  <2> QED
    BY <2>2, <2>3, <2>4
<1>9. ASSUME NEW k \in LotIds
       PROVE  /\ gone'[k] \in Gone /\ take[k] \in Nat
              /\ gone'[k].sold = gone[k].sold
              /\ gone'[k].moved = gone[k].moved + take[k]
              /\ gone'[k].forfeited = gone[k].forfeited
  <2> DEFINE n == gone[k].moved + take[k]
  <2>1. gone[k] \in Gone /\ n \in Nat /\ take[k] \in Nat
    BY <1>1, <1>3 DEF Gone
  <2>2. gone'[k] = [gone[k] EXCEPT !.moved = n]
    BY <1>6
  <2> HIDE DEF n
  <2>3. /\ gone'[k] \in Gone /\ gone'[k].sold = gone[k].sold
        /\ gone'[k].moved = n /\ gone'[k].forfeited = gone[k].forfeited
    BY <2>1, <2>2 DEF Gone
  <2> QED
    BY <2>1, <2>3 DEF n
<1>10. TypeOK'
  <2>1. lots' \in [LotIds -> Lot] /\ gone' \in [LotIds -> Gone]
    BY <1>5, <1>6, <1>8, <1>9
  <2>2. transferEvents' \subseteq TransferEvent
    BY <1>5, <1>7 DEF RecordTransfer, LedgerInv, TypeOK
  <2> QED
    BY <1>6, <2>1, <2>2 DEF LedgerInv, TypeOK
<1>11. LotAccounting'
  <2> SUFFICES ASSUME NEW k \in LotIds
               PROVE  lots'[k].qty - lots'[k].rem
                        = gone'[k].sold + gone'[k].moved + gone'[k].forfeited
    BY <1>8 DEF LotAccounting
  <2> DEFINE s == gone[k].sold
             m == gone[k].moved
             f == gone[k].forfeited
             t == take[k]
  <2>1. /\ lots'[k].qty - lots'[k].rem = (lots[k].qty - lots[k].rem) + t
        /\ lots[k].qty - lots[k].rem = s + m + f
    BY <1>8 DEF LedgerInv, LotAccounting
  <2>2. gone'[k].sold = s /\ gone'[k].moved = m + t /\ gone'[k].forfeited = f
    BY <1>9
  <2>3. s \in Nat /\ m \in Nat /\ f \in Nat /\ t \in Nat
    BY <1>1, <1>9 DEF Gone
  <2> HIDE DEF s, m, f, t
  <2>4. (s + m + f) + t = s + (m + t) + f
    BY <2>3
  <2> QED
    BY <2>1, <2>2, <2>4
<1>12. FreeUntouched'
  <2> SUFFICES ASSUME NEW k \in LotIds, ~Live(k)'
               PROVE  lots'[k].rem = 0 /\ gone'[k] = [sold |-> 0, moved |-> 0, forfeited |-> 0]
    BY DEF FreeUntouched
  <2>1. ~Live(k)
    BY <1>8 DEF Live
  <2>2. take[k] = 0
    BY <1>3, <1>4, <2>1 DEF MoveOf, Live
  <2>3. gone[k] = [sold |-> 0, moved |-> 0, forfeited |-> 0]
    BY <2>1 DEF LedgerInv, FreeUntouched
  <2>4. /\ gone'[k] \in Gone /\ gone'[k].sold = 0
        /\ gone'[k].moved = 0 /\ gone'[k].forfeited = 0
    BY <1>9, <2>2, <2>3
  <2>5. lots'[k].rem = 0
    <3>1. lots'[k] = lots[k]
      BY <1>8 DEF Live
    <3> QED
      BY <2>1, <3>1 DEF LedgerInv, FreeUntouched
  <2> QED
    BY <2>4, <2>5 DEF Gone
<1> QED
  BY <1>10, <1>11, <1>12 DEF LedgerInv

-----------------------------------------------------------------------------
LEMMA NextKeeps == LedgerInv /\ [Next]_vars => LedgerInv'
<1> SUFFICES ASSUME LedgerInv, [Next]_vars PROVE LedgerInv'
  OBVIOUS
<1>1. CASE NextDay
  BY <1>1, NextDayKeeps
<1>2. ASSUME NEW l \in LotIds, NEW d \in Days, NEW q \in Quantities, NEW c \in Currencies,
             NEW scheme \in Acquirable, AddLot(l, scheme, d, q, c)
      PROVE  LedgerInv'
  BY <1>2, AddLotKeeps
<1>3. ASSUME NEW l \in LotIds, NEW d \in Days, NEW q \in Quantities, NEW c \in Currencies,
             NEW m \in LotIds, NEW qm \in Quantities, AddEsppPlusPair(l, m, d, q, qm, c)
      PROVE  LedgerInv'
  BY <1>3, AddPairKeeps
<1>4. ASSUME NEW l \in LotIds, NEW d \in Days, NEW q \in Quantities,
             NEW c \in Currencies \cup {Nothing}, EditLot(l, d, q, c)
      PROVE  LedgerInv'
  BY <1>4, EditLotKeeps
<1>5. ASSUME NEW l \in LotIds, NEW c \in Currencies \cup {Nothing}, FullTransfer(l, c)
      PROVE  LedgerInv'
  BY <1>5, FullTransferKeeps
<1>6. ASSUME NEW l \in LotIds, NEW c \in Currencies \cup {Nothing},
             NEW q \in Requests \cup {AllShares}, EsppTransfer(l, q, c)
      PROVE  LedgerInv'
  BY <1>6, EsppTransferKeeps
<1>7. ASSUME NEW q \in Quantities, NEW d \in Days,
             NEW scheme \in Schemes \cup {Nothing}, CommitDisposal(q, d, scheme)
      PROVE  LedgerInv'
  BY <1>7, CommitDisposalKeeps
<1>8. CASE UNCHANGED vars
  BY <1>8 DEF vars, LedgerInv, TypeOK, LotAccounting, FreeUntouched, Live
<1> QED
  BY <1>1, <1>2, <1>3, <1>4, <1>5, <1>6, <1>7, <1>8 DEF Next

(* The tables keep their types under every sequence of calls.              *)
THEOREM LedgerTypeOK == Spec => []TypeOK
<1>1. LedgerInv => TypeOK
  BY DEF LedgerInv
<1> QED
  BY <1>1, InitLedger, NextKeeps, PTL DEF Spec

(* No sequence of additions, corrections, transfers and disposals, over    *)
(* any number of lots, loses or invents a share of any lot.                *)
THEOREM LedgerAccounting == Spec => []LotAccounting
<1>1. LedgerInv => LotAccounting
  BY DEF LedgerInv
<1> QED
  BY <1>1, InitLedger, NextKeeps, PTL DEF Spec

-----------------------------------------------------------------------------
(* The ledger implements ShareHolding                                      *)

(* What was acquired is held, sold or forfeited: the accounting of the     *)
(* lots, added up.                                                         *)
LEMMA HoldingAddsUp ==
  ASSUME LedgerInv
  PROVE  /\ Held \in Nat /\ Disposed \in Nat /\ Forfeited \in Nat
         /\ Acquired = Held + (Disposed + Forfeited)
<1> DEFINE a == [l \in LotIds |-> lots[l].qty - gone[l].moved]
           h == remOf
           s == [l \in LotIds |-> gone[l].sold]
           f == [l \in LotIds |-> gone[l].forfeited]
           g == [l \in LotIds |-> gone[l].sold + gone[l].forfeited]
<1>1. \A l \in LotIds : h[l] \in Nat /\ s[l] \in Nat /\ f[l] \in Nat
  BY DEF LedgerInv, TypeOK, Lot, Gone, remOf
<1>2. ASSUME NEW l \in LotIds
      PROVE  g[l] = s[l] + f[l] /\ g[l] \in Int /\ a[l] = h[l] + g[l]
  <2>1. lots[l].qty - lots[l].rem = gone[l].sold + gone[l].moved + gone[l].forfeited
    BY DEF LedgerInv, LotAccounting
  <2>2. /\ lots[l].qty \in Int /\ lots[l].rem \in Int
        /\ gone[l].sold \in Int /\ gone[l].moved \in Int /\ gone[l].forfeited \in Int
    BY DEF LedgerInv, TypeOK, Lot, Gone
  <2> QED
    BY <2>1, <2>2 DEF remOf
<1>3. IsFiniteSet(LotIds)
  BY LotIdsAssumption
<1>4. Acquired = SumFunctionOnSet(a, LotIds) /\ Held = SumFunctionOnSet(h, LotIds)
      /\ Disposed = SumFunctionOnSet(s, LotIds) /\ Forfeited = SumFunctionOnSet(f, LotIds)
  BY DEF Acquired, Held, Disposed, Forfeited, OverAll
<1> HIDE DEF a, h, s, f, g
<1>5. /\ SumFunctionOnSet(h, LotIds) \in Nat /\ SumFunctionOnSet(s, LotIds) \in Nat
      /\ SumFunctionOnSet(f, LotIds) \in Nat
  BY <1>1, <1>3, SumNat
<1>6. SumFunctionOnSet(g, LotIds) = SumFunctionOnSet(s, LotIds) + SumFunctionOnSet(f, LotIds)
  <2>1. \A l \in LotIds : s[l] \in Int /\ f[l] \in Int /\ g[l] = s[l] + f[l]
    BY <1>1, <1>2
  <2> QED
    BY <1>3, <2>1, SumPlus
<1>7. SumFunctionOnSet(a, LotIds) = SumFunctionOnSet(h, LotIds) + SumFunctionOnSet(g, LotIds)
  <2>1. \A l \in LotIds : h[l] \in Int /\ g[l] \in Int /\ a[l] = h[l] + g[l]
    BY <1>1, <1>2
  <2> QED
    BY <1>3, <2>1, SumPlus
<1> QED
  BY <1>4, <1>5, <1>6, <1>7

(* A function that gives nothing outside a part of the lots.               *)
LEMMA SumOverPart ==
  ASSUME NEW S, IsFiniteSet(S), NEW T \in SUBSET S, NEW f,
         \A x \in S : f[x] \in Int, \A x \in S \ T : f[x] = 0
  PROVE  SumFunctionOnSet(f, S) = SumFunctionOnSet(f, T)
<1> DEFINE R == S \ T
<1>1. IsFiniteSet(T) /\ IsFiniteSet(R) /\ T \cap R = {} /\ S = T \cup R
      /\ \A x \in R : f[x] = 0
  BY FS_Subset
<1> HIDE DEF R
<1>2. SumFunctionOnSet(f, T \cup R) = SumFunctionOnSet(f, T) + SumFunctionOnSet(f, R)
  <2>1. \A x \in T \cup R : f[x] \in Int
    BY <1>1
  <2> QED
    BY <1>1, <2>1, SumOfUnion
<1>3. SumFunctionOnSet(f, R) = 0
  BY <1>1, SumOfZeros
<1>4. SumFunctionOnSet(f, T) \in Int
  <2>1. \A x \in T : f[x] \in Int
    OBVIOUS
  <2> QED
    BY <1>1, <2>1, SumType
<1> QED
  BY <1>1, <1>2, <1>3, <1>4, PlusNothing

(* What an ESPP move takes out of the source lots it puts into others.     *)
LEMMA TransferHolds ==
  ASSUME LedgerInv, NEW l \in LotIds, NEW requested \in Requests \cup {AllShares},
         NEW ccy \in Currencies \cup {Nothing}, EsppTransfer(l, requested, ccy)
  PROVE  Held' = Held
<1>1. \A k \in LotIds : lots[k] \in Lot
  BY DEF LedgerInv, TypeOK
<1>2. PICK take \in [LotIds -> Nat], moved \in SUBSET LotIds, c \in Currencies :
        \E dst \in [moved -> LotIds \ moved] : MoveOf(take, moved, dst, c)
  BY MoveEffect
<1>3. PICK dst \in [moved -> LotIds \ moved] : MoveOf(take, moved, dst, c)
  BY <1>2
<1>4. IsFiniteSet(moved)
  BY LotIdsAssumption, FS_Subset
<1>5. \A s, t \in moved : dst[s] = dst[t] => s = t
  BY <1>3 DEF MoveOf
<1> DEFINE Into == {dst[s] : s \in moved}
           from(k) == CHOOSE s \in moved : dst[s] = k
           given == [k \in LotIds |-> IF k \in Into THEN take[from(k)] ELSE 0]
           old == remOf
           now == remOf'
           sum == [k \in LotIds |-> now[k] + take[k]]
<1>6. \A s \in moved : from(dst[s]) = s
  BY <1>5
<1>7. ASSUME NEW k \in LotIds
       PROVE  /\ old[k] \in Int /\ take[k] \in Int /\ given[k] \in Int /\ now[k] \in Int
              /\ now[k] + take[k] = old[k] + given[k]
  <2>1. lots[k] \in Lot /\ lots[k].rem \in Nat /\ take[k] \in Nat /\ old[k] = lots[k].rem
        /\ now[k] = lots'[k].rem
    BY <1>1 DEF Lot, remOf
  <2>2. CASE k \in moved
    <3>1. lots'[k] = [lots[k] EXCEPT !.rem = @ - take[k]]
      BY <1>3, <2>2 DEF MoveOf
    <3>2. lots'[k].rem = lots[k].rem - take[k]
      BY <2>1, <3>1 DEF Lot
    <3>3. given[k] = 0
      BY <2>2
    <3> QED
      BY <2>1, <3>2, <3>3
  <2>3. CASE k \notin moved /\ k \notin Into
    <3>1. lots'[k] = lots[k] /\ take[k] = 0
      <4>1. \A s \in moved : dst[s] # k
        BY <2>3
      <4> QED
        BY <1>3, <2>3, <4>1 DEF MoveOf
    <3>2. given[k] = 0
      BY <2>3
    <3> QED
      BY <2>1, <3>1, <3>2
  <2>4. CASE k \notin moved /\ k \in Into
    <3>1. PICK s \in moved : k = dst[s]
      BY <2>4
    <3>2. from(k) = s
      BY <1>6, <3>1
    <3>3. take[k] = 0 /\ take[s] \in Nat /\ given[k] = take[s]
      BY <1>3, <2>4, <3>2 DEF MoveOf
    <3>4. CASE Live(k)
      <4>1. lots'[k] = [lots[k] EXCEPT !.qty = @ + take[s], !.rem = @ + take[s], !.ccy = c]
        BY <1>3, <3>1, <3>4 DEF MoveOf
      <4>2. lots'[k].rem = lots[k].rem + take[s]
        BY <2>1, <4>1 DEF Lot
      <4> QED
        BY <2>1, <3>3, <4>2
    <3>5. CASE ~Live(k)
      <4>1. lots'[k] = [NewLot("BROKERAGE", lots[s].acq, take[s], c) EXCEPT !.origin = s]
        BY <1>3, <3>1, <3>5 DEF MoveOf
      <4>2. lots'[k].rem = take[s]
        BY <4>1 DEF NewLot, Absent
      <4>3. lots[k].rem = 0
        BY <3>5 DEF LedgerInv, FreeUntouched
      <4> QED
        BY <2>1, <3>3, <4>2, <4>3
    <3> QED
      BY <3>4, <3>5
  <2> QED
    BY <2>2, <2>3, <2>4
<1>8. /\ Into \subseteq LotIds /\ IsFiniteSet(LotIds)
      /\ \A k \in LotIds \ moved : take[k] = 0
      /\ \A k \in LotIds \ Into : given[k] = 0
      /\ \A m \in moved : given[dst[m]] = take[m]
  <2>1. Into \subseteq LotIds /\ IsFiniteSet(LotIds)
    BY LotIdsAssumption
  <2>2. \A k \in LotIds \ Into : given[k] = 0
    OBVIOUS
  <2>3. \A m \in moved : given[dst[m]] = take[m]
    BY <1>6
  <2>4. \A k \in LotIds \ moved : take[k] = 0
    BY <1>3 DEF MoveOf
  <2> QED
    BY <2>1, <2>2, <2>3, <2>4
<1>9. Held = SumFunctionOnSet(old, LotIds) /\ Held' = SumFunctionOnSet(now, LotIds)
  BY DEF Held, OverAll
<1>10. \A k \in LotIds : sum[k] = now[k] + take[k]
  OBVIOUS
<1>11. ASSUME NEW s \in moved
       PROVE  take[s] = given[dst[s]] /\ given[dst[s]] \in Int
  <2>1. dst[s] \in LotIds /\ given[dst[s]] = take[s]
    BY <1>8
  <2>2. given[dst[s]] \in Int
    <3> HIDE DEF given
    <3> QED
      BY <2>1, <1>7
  <2> QED
    BY <2>1, <2>2
<1> HIDE DEF given, old, now, sum
<1>12. SumFunctionOnSet(given, LotIds) = SumFunctionOnSet(given, Into)
  <2> HIDE DEF Into
  <2>1. \A k \in LotIds : given[k] \in Int
    BY <1>7
  <2> QED
    BY <1>8, <2>1, SumOverPart
<1>13. SumFunctionOnSet(given, Into) = SumFunctionOnSet(take, moved)
  <2>1. \A s \in moved : given[dst[s]] \in Int /\ take[s] = given[dst[s]]
    BY <1>11
  <2>2. SumFunctionOnSet(given, {dst[x] : x \in moved}) = SumFunctionOnSet(take, moved)
    BY <1>4, <1>5, <2>1, SumOfImage
  <2> QED
    BY <2>2
<1> HIDE DEF Into
<1>14. SumFunctionOnSet(take, LotIds) = SumFunctionOnSet(take, moved)
  <2>1. \A k \in LotIds : take[k] \in Int
    BY <1>7
  <2> QED
    BY <1>4, <1>8, <2>1, SumOverPart
<1>15. SumFunctionOnSet(sum, LotIds) = SumFunctionOnSet(now, LotIds) + SumFunctionOnSet(take, LotIds)
  <2>1. \A k \in LotIds : now[k] \in Int /\ take[k] \in Int /\ sum[k] = now[k] + take[k]
    BY <1>7, <1>10
  <2> QED
    BY <1>8, <2>1, SumPlus
<1>16. SumFunctionOnSet(sum, LotIds) = SumFunctionOnSet(old, LotIds) + SumFunctionOnSet(given, LotIds)
  <2>1. \A k \in LotIds : old[k] \in Int /\ given[k] \in Int /\ sum[k] = old[k] + given[k]
    BY <1>7, <1>10
  <2> QED
    BY <1>8, <2>1, SumPlus
<1>17. /\ SumFunctionOnSet(now, LotIds) \in Int /\ SumFunctionOnSet(old, LotIds) \in Int
       /\ SumFunctionOnSet(take, LotIds) \in Int
  <2>1. \A k \in LotIds : now[k] \in Int /\ old[k] \in Int /\ take[k] \in Int
    BY <1>7
  <2> QED
    BY <1>8, <2>1, SumType
<1>18. \A x, y, t \in Int : x + t = y + t => x = y
  OBVIOUS
<1> QED
  BY <1>9, <1>12, <1>13, <1>14, <1>15, <1>16, <1>17, <1>18

HoldingBalances ==
  /\ Held \in Nat /\ Disposed \in Nat /\ Forfeited \in Nat /\ Acquired \in Nat
  /\ Acquired = Held + (Disposed + Forfeited)

LEMMA HoldingBalanced == LedgerInv => HoldingBalances
<1> SUFFICES ASSUME LedgerInv PROVE HoldingBalances
  OBVIOUS
<1>1. /\ Held \in Nat /\ Disposed \in Nat /\ Forfeited \in Nat
      /\ Acquired = Held + (Disposed + Forfeited)
  BY HoldingAddsUp
<1>2. Held + (Disposed + Forfeited) \in Nat
  BY <1>1
<1> QED
  BY <1>1, <1>2 DEF HoldingBalances

LEMMA HoldingBalancedNext == LedgerInv' => HoldingBalances'
BY HoldingBalanced, PTL

(* Nothing leaves a lot: an acquisition or a correction.                   *)
LEMMA NothingLeaves ==
  ASSUME LedgerInv, LedgerInv', UNCHANGED gone
  PROVE  [Holding!Next]_Holding!vars
<1>1. Disposed' = Disposed /\ Forfeited' = Forfeited
  BY DEF Disposed, Forfeited, OverAll
<1>2. /\ Held \in Nat /\ Disposed \in Nat /\ Forfeited \in Nat
      /\ Acquired = Held + (Disposed + Forfeited)
  BY HoldingAddsUp
<1>3. /\ Held' \in Nat /\ Disposed' \in Nat /\ Forfeited' \in Nat /\ Acquired' \in Nat
      /\ Acquired' = Held' + (Disposed' + Forfeited')
  BY HoldingBalancedNext DEF HoldingBalances
<1>4. Holding!Book
  <2>1. Held' - Held = Acquired' - Acquired
    BY <1>1, <1>2, <1>3
  <2> QED
    BY <1>1, <1>3, <2>1 DEF Holding!Book
<1> QED
  BY <1>4 DEF Holding!Next

LEMMA WhatLeft ==
  ASSUME HoldingBalances, HoldingBalances', Acquired' = Acquired
  PROVE  Held - Held' = (Disposed' - Disposed) + (Forfeited' - Forfeited)
<1>1. /\ Held \in Int /\ Disposed \in Int /\ Forfeited \in Int
      /\ Held' \in Int /\ Disposed' \in Int /\ Forfeited' \in Int
  BY DEF HoldingBalances
<1>2. Held + (Disposed + Forfeited) = Held' + (Disposed' + Forfeited')
  BY DEF HoldingBalances
<1>3. PICK h \in Int, d \in Int, f \in Int : h = Held /\ d = Disposed /\ f = Forfeited
  BY <1>1
<1>4. PICK g \in Int, e \in Int, i \in Int : g = Held' /\ e = Disposed' /\ i = Forfeited'
  BY <1>1
<1>5. h - g = (e - d) + (i - f)
  <2>1. h + (d + f) = g + (e + i)
    BY <1>2, <1>3, <1>4
  <2> QED
    BY <2>1
<1> QED
  BY <1>3, <1>4, <1>5

(* Shares are sold or forfeited, and no quantity is corrected.             *)
LEMMA SharesLeave ==
  ASSUME LedgerInv, LedgerInv', NEW t \in [LotIds -> Nat], NEW x \in [LotIds -> Nat],
         \A l \in LotIds :
           /\ lots'[l].qty = lots[l].qty /\ gone'[l].moved = gone[l].moved
           /\ gone'[l].sold = gone[l].sold + t[l]
           /\ gone'[l].forfeited = gone[l].forfeited + x[l]
  PROVE  [Holding!Next]_Holding!vars
<1> DEFINE s  == [l \in LotIds |-> gone[l].sold]
           f  == [l \in LotIds |-> gone[l].forfeited]
           s2 == [l \in LotIds |-> gone'[l].sold]
           f2 == [l \in LotIds |-> gone'[l].forfeited]
<1>1. Acquired' = Acquired
  <2>1. [l \in LotIds |-> lots'[l].qty - gone'[l].moved]
          = [l \in LotIds |-> lots[l].qty - gone[l].moved]
    OBVIOUS
  <2> QED
    BY <2>1 DEF Acquired, OverAll
<1>2. IsFiniteSet(LotIds)
  BY LotIdsAssumption
<1>3. \A l \in LotIds : /\ s[l] \in Int /\ f[l] \in Int /\ t[l] \in Int /\ x[l] \in Int
                        /\ s2[l] = s[l] + t[l] /\ f2[l] = f[l] + x[l]
  BY DEF LedgerInv, TypeOK, Gone
<1>4. /\ Disposed = SumFunctionOnSet(s, LotIds) /\ Forfeited = SumFunctionOnSet(f, LotIds)
      /\ Disposed' = SumFunctionOnSet(s2, LotIds) /\ Forfeited' = SumFunctionOnSet(f2, LotIds)
  BY DEF Disposed, Forfeited, OverAll
<1> HIDE DEF s, f, s2, f2
<1>5. SumFunctionOnSet(t, LotIds) \in Nat /\ SumFunctionOnSet(x, LotIds) \in Nat
  BY <1>2, SumNat
<1>6. Disposed' = Disposed + SumFunctionOnSet(t, LotIds)
  BY <1>2, <1>3, <1>4, SumPlus
<1>7. Forfeited' = Forfeited + SumFunctionOnSet(x, LotIds)
  BY <1>2, <1>3, <1>4, SumPlus
<1>8. /\ Held \in Nat /\ Disposed \in Nat /\ Forfeited \in Nat
      /\ Acquired = Held + (Disposed + Forfeited)
  BY HoldingAddsUp
<1>9. /\ Held' \in Nat /\ Disposed' \in Nat /\ Forfeited' \in Nat /\ Acquired' \in Nat
      /\ Acquired' = Held' + (Disposed' + Forfeited')
  BY HoldingBalancedNext DEF HoldingBalances
<1>10. /\ Forfeited' >= Forfeited /\ Disposed' >= Disposed
       /\ Held - Held' = (Disposed' - Disposed) + (Forfeited' - Forfeited)
  <2>1. Forfeited' >= Forfeited
    BY <1>5, <1>7, <1>8
  <2>2. Disposed' >= Disposed
    BY <1>5, <1>6, <1>8
  <2>3. Held - Held' = (Disposed' - Disposed) + (Forfeited' - Forfeited)
    BY <1>1, HoldingBalanced, HoldingBalancedNext, WhatLeft
  <2> QED
    BY <2>1, <2>2, <2>3
<1>11. CASE Disposed' > Disposed
  <2>1. Holding!Dispose
    BY <1>1, <1>9, <1>10, <1>11 DEF Holding!Dispose
  <2> QED
    BY <2>1 DEF Holding!Next
<1>12. CASE Disposed' = Disposed /\ Forfeited' > Forfeited
  <2>1. Held - Held' = Forfeited' - Forfeited
    BY <1>8, <1>9, <1>10, <1>12
  <2>2. Holding!Forfeit
    BY <1>1, <1>9, <1>12, <2>1 DEF Holding!Forfeit
  <2> QED
    BY <2>2 DEF Holding!Next
<1>13. CASE Disposed' = Disposed /\ Forfeited' = Forfeited
  <2>1. Held' = Held
    <3>1. \A h, g, s0 \in Int : h + s0 = g + s0 => g = h
      OBVIOUS
    <3>2. Held + (Disposed + Forfeited) = Held' + (Disposed + Forfeited)
      BY <1>1, <1>8, <1>9, <1>13
    <3>3. Held \in Int /\ Held' \in Int /\ Disposed + Forfeited \in Int
      BY <1>8, <1>9
    <3> QED
      BY <3>1, <3>2, <3>3
  <2> QED
    BY <1>1, <1>13, <2>1 DEF Holding!vars
<1> QED
  BY <1>8, <1>9, <1>10, <1>11, <1>12, <1>13

(* Forfeiting on a transfer, as shares that leave.                         *)
LEMMA FullTransferHolds ==
  ASSUME LedgerInv, NEW l \in LotIds, NEW ccy \in Currencies \cup {Nothing},
         FullTransfer(l, ccy)
  PROVE  [Holding!Next]_Holding!vars
<1> DEFINE lost == IF lots[l].scheme = "ESPP_PLUS" THEN Forfeitable({l}, today) ELSE {}
           t    == [k \in LotIds |-> 0]
           x    == [k \in LotIds |-> IF k \in lost THEN lots[k].rem ELSE 0]
<1>1. \A k \in LotIds : lots[k] \in Lot /\ gone[k] \in Gone
  BY DEF LedgerInv, TypeOK
<1>2. t \in [LotIds -> Nat] /\ x \in [LotIds -> Nat]
  BY <1>1 DEF Lot
<1>3. ASSUME NEW k \in LotIds
      PROVE  /\ lots'[k].qty = lots[k].qty /\ gone'[k].moved = gone[k].moved
             /\ gone'[k].sold = gone[k].sold + t[k]
             /\ gone'[k].forfeited = gone[k].forfeited + x[k]
  <2>0. l \notin lost
    BY DEF FullTransfer, Forfeitable
  <2> HIDE DEF lost
  <2>1. lots[k] \in Lot /\ gone[k] \in Gone
    BY <1>1
  <2>2. gone'[k] = IF k \in lost THEN [gone[k] EXCEPT !.forfeited = @ + lots[k].rem]
                   ELSE gone[k]
    BY DEF FullTransfer, lost
  <2>3. lots'[k].qty = lots[k].qty
    <3>1. CASE k = l
      <4>1. lots'[k] = [lots[l] EXCEPT !.scheme = "BROKERAGE",
                                       !.ccy = IF ccy = Nothing THEN @ ELSE ccy]
        BY <2>0, <3>1 DEF FullTransfer, lost
      <4> QED
        BY <2>1, <3>1, <4>1 DEF Lot
    <3>2. CASE k # l
      <4>1. lots'[k] \in {lots[k], [lots[k] EXCEPT !.rem = 0]}
        BY <3>2 DEF FullTransfer, lost
      <4> QED
        BY <2>1, <4>1 DEF Lot
    <3> QED
      BY <3>1, <3>2
  <2>4. /\ gone'[k].moved = gone[k].moved /\ gone'[k].sold = gone[k].sold
        /\ gone'[k].forfeited = gone[k].forfeited + x[k]
    <3>1. CASE k \in lost
      BY <2>1, <2>2, <3>1 DEF Gone
    <3>2. CASE k \notin lost
      BY <2>1, <2>2, <3>2 DEF Gone
    <3> QED
      BY <3>1, <3>2
  <2>5. gone[k].sold + t[k] = gone[k].sold
    BY <2>1 DEF Gone
  <2> QED
    BY <2>3, <2>4, <2>5
<1>4. LedgerInv'
  BY FullTransferKeeps
<1> HIDE DEF t, x
<1> QED
  BY <1>2, <1>3, <1>4, SharesLeave

(* A disposal, as shares that leave.                                       *)
LEMMA CommitDisposalHolds ==
  ASSUME LedgerInv, NEW q \in Quantities, NEW d \in Days,
         NEW scheme \in Schemes \cup {Nothing}, CommitDisposal(q, d, scheme)
  PROVE  [Holding!Next]_Holding!vars
<1> DEFINE pick == {l \in ActiveOf(scheme) : Sellable(l, d)}
           take == UkTake(pick, remOf, acqOf, d, q)
           lost == Forfeitable({l \in LotIds : take[l] > 0}, d)
           left == [l \in LotIds |-> (IF l \in lost THEN 0 ELSE lots[l].rem) - take[l]]
           x    == [k \in LotIds |-> IF k \in lost THEN lots[k].rem ELSE 0]
<1>1. \A k \in LotIds : lots[k] \in Lot /\ gone[k] \in Gone
  BY DEF LedgerInv, TypeOK
<1>2. x \in [LotIds -> Nat]
  BY <1>1 DEF Lot
<1>3. take \in [LotIds -> Nat]
  <2>1. remOf \in [LotIds -> Nat]
    BY <1>1 DEF remOf, Lot
  <2> QED
    BY <2>1, UkTakeBounds
<1>4. /\ lots' = [l \in LotIds |-> [lots[l] EXCEPT !.rem = left[l]]]
      /\ gone' = [l \in LotIds |->
           [gone[l] EXCEPT !.sold = @ + take[l],
                           !.forfeited = @ + IF l \in lost THEN lots[l].rem ELSE 0]]
  BY DEF CommitDisposal
<1> HIDE DEF pick, take, lost, left
<1>5. ASSUME NEW k \in LotIds
      PROVE  /\ lots'[k].qty = lots[k].qty /\ gone'[k].moved = gone[k].moved
             /\ gone'[k].sold = gone[k].sold + take[k]
             /\ gone'[k].forfeited = gone[k].forfeited + x[k]
  <2>1. lots'[k].qty = lots[k].qty
    BY <1>1, <1>4 DEF Lot
  <2> DEFINE s == gone[k].sold + take[k]
             f == gone[k].forfeited + x[k]
  <2>2. gone'[k] = [gone[k] EXCEPT !.sold = s, !.forfeited = f]
    BY <1>4
  <2> HIDE DEF s, f
  <2>3. gone'[k].sold = s /\ gone'[k].forfeited = f /\ gone'[k].moved = gone[k].moved
    BY <1>1, <2>2 DEF Gone
  <2> QED
    BY <2>1, <2>3 DEF s, f
<1>6. LedgerInv'
  BY CommitDisposalKeeps
<1> HIDE DEF x
<1> QED
  BY <1>2, <1>3, <1>5, <1>6, SharesLeave

(* An ESPP move: the sources' shares are in their BROKERAGE lots.          *)
LEMMA EsppTransferHolds ==
  ASSUME LedgerInv, NEW l \in LotIds, NEW requested \in Requests \cup {AllShares},
         NEW ccy \in Currencies \cup {Nothing}, EsppTransfer(l, requested, ccy)
  PROVE  [Holding!Next]_Holding!vars
<1>1. LedgerInv'
  BY EsppTransferKeeps
<1>2. Held' = Held
  BY TransferHolds
<1>3. Disposed' = Disposed /\ Forfeited' = Forfeited
  <2> DEFINE pool  == ActiveOf("ESPP")
             whole == (Shares(pool, remOf) \div Unit) * Unit
             t     == FifoTake(pool, remOf, acqOf,
                               IF requested = AllShares THEN whole ELSE requested)
  <2>1. gone' = [k \in LotIds |-> [gone[k] EXCEPT !.moved = @ + t[k]]]
    BY DEF EsppTransfer
  <2> HIDE DEF t
  <2>2. ASSUME NEW k \in LotIds
        PROVE  gone'[k].sold = gone[k].sold /\ gone'[k].forfeited = gone[k].forfeited
    BY <2>1 DEF LedgerInv, TypeOK, Gone
  <2>3. /\ [k \in LotIds |-> gone'[k].sold] = [k \in LotIds |-> gone[k].sold]
        /\ [k \in LotIds |-> gone'[k].forfeited] = [k \in LotIds |-> gone[k].forfeited]
    BY <2>2
  <2> QED
    BY <2>3 DEF Disposed, Forfeited, OverAll
<1>4. Acquired' = Acquired
  <2>1. Acquired = Held + (Disposed + Forfeited)
    BY HoldingBalanced DEF HoldingBalances
  <2>2. Acquired' = Held' + (Disposed' + Forfeited')
    BY <1>1, HoldingBalancedNext DEF HoldingBalances
  <2> QED
    BY <1>2, <1>3, <2>1, <2>2
<1> QED
  BY <1>2, <1>3, <1>4 DEF Holding!vars

LEMMA InitHolds == Init => Holding!Init
<1> SUFFICES ASSUME Init PROVE Holding!Init
  OBVIOUS
<1>1. LedgerInv
  BY InitLedger
<1>2. /\ \A l \in LotIds : remOf[l] = 0
      /\ \A l \in LotIds : [k \in LotIds |-> gone[k].sold][l] = 0
      /\ \A l \in LotIds : [k \in LotIds |-> gone[k].forfeited][l] = 0
  BY DEF Init, Absent, remOf
<1>3. Held = 0 /\ Disposed = 0 /\ Forfeited = 0
  <2> DEFINE s == [k \in LotIds |-> gone[k].sold]
             f == [k \in LotIds |-> gone[k].forfeited]
             h == remOf
  <2>1. /\ Held = SumFunctionOnSet(h, LotIds) /\ Disposed = SumFunctionOnSet(s, LotIds)
        /\ Forfeited = SumFunctionOnSet(f, LotIds)
    BY DEF Held, Disposed, Forfeited, OverAll
  <2>2. \A l \in LotIds : h[l] = 0 /\ s[l] = 0 /\ f[l] = 0
    BY <1>2
  <2> HIDE DEF s, f, h
  <2> QED
    BY <2>1, <2>2, LotIdsAssumption, SumOfZeros
<1>4. Acquired = 0
  BY <1>1, <1>3, HoldingBalanced DEF HoldingBalances
<1> QED
  BY <1>3, <1>4 DEF Holding!Init

LEMMA NextHolds == LedgerInv /\ [Next]_vars => [Holding!Next]_Holding!vars
<1> SUFFICES ASSUME LedgerInv, [Next]_vars PROVE [Holding!Next]_Holding!vars
  OBVIOUS
<1>1. CASE UNCHANGED gone
  BY <1>1, NextKeeps, NothingLeaves
<1>2. ASSUME NEW l \in LotIds, NEW c \in Currencies \cup {Nothing}, FullTransfer(l, c)
      PROVE  [Holding!Next]_Holding!vars
  BY <1>2, FullTransferHolds
<1>3. ASSUME NEW l \in LotIds, NEW c \in Currencies \cup {Nothing},
             NEW q \in Requests \cup {AllShares}, EsppTransfer(l, q, c)
      PROVE  [Holding!Next]_Holding!vars
  BY <1>3, EsppTransferHolds
<1>4. ASSUME NEW q \in Quantities, NEW d \in Days,
             NEW scheme \in Schemes \cup {Nothing}, CommitDisposal(q, d, scheme)
      PROVE  [Holding!Next]_Holding!vars
  BY <1>4, CommitDisposalHolds
<1>5. ASSUME NEW l \in LotIds, NEW d \in Days, NEW q \in Quantities, NEW c \in Currencies,
             NEW scheme \in Acquirable, AddLot(l, scheme, d, q, c)
      PROVE  [Holding!Next]_Holding!vars
  BY <1>1, <1>5 DEF AddLot
<1>6. ASSUME NEW l \in LotIds, NEW d \in Days, NEW q \in Quantities, NEW c \in Currencies,
             NEW m \in LotIds, NEW qm \in Quantities, AddEsppPlusPair(l, m, d, q, qm, c)
      PROVE  [Holding!Next]_Holding!vars
  BY <1>1, <1>6 DEF AddEsppPlusPair
<1>7. ASSUME NEW l \in LotIds, NEW d \in Days, NEW q \in Quantities,
             NEW c \in Currencies \cup {Nothing}, EditLot(l, d, q, c)
      PROVE  [Holding!Next]_Holding!vars
  BY <1>1, <1>7 DEF EditLot
<1>8. CASE NextDay
  BY <1>1, <1>8 DEF NextDay
<1>9. CASE UNCHANGED vars
  BY <1>1, <1>9 DEF vars
<1> QED
  BY <1>2, <1>3, <1>4, <1>5, <1>6, <1>7, <1>8, <1>9 DEF Next

(* Whatever the lots, the schemes and the order of the calls, the holding  *)
(* as a whole changes only by what is booked, sold and forfeited: moving   *)
(* shares between custodies is a step the abstract holding does not see.   *)
THEOREM LedgerImplementsHolding == Spec => HoldingSpec
<1>1. LedgerInv /\ [Next]_vars => [Holding!Next]_Holding!vars
  BY NextHolds
<1> QED
  BY <1>1, InitHolds, InitLedger, NextKeeps, PTL DEF Spec, HoldingSpec, Holding!Spec

-----------------------------------------------------------------------------
(* Matched shares and the employee lots they came with                     *)

(* A disposal takes shares from lots it may sell and empties the matched   *)
(* lots it forfeits; a lot it would both sell and forfeit aborts it.       *)
SaleOf(take, lost, d) ==
  /\ lost = Forfeitable({l \in LotIds : take[l] > 0}, d)
  /\ \A l \in LotIds :
       /\ take[l] > 0 => Live(l) /\ Sellable(l, d) /\ l \notin lost
       /\ take[l] <= lots[l].rem
       /\ lots'[l] = [lots[l] EXCEPT !.rem = IF l \in lost THEN 0 ELSE lots[l].rem - take[l]]
       /\ gone'[l].sold = gone[l].sold + take[l]
       /\ gone'[l].moved = gone[l].moved
       /\ gone'[l].forfeited = gone[l].forfeited + IF l \in lost THEN lots[l].rem ELSE 0
  /\ sold' = [l \in LotIds |-> DisposalRow(l, d, take[l])]
  /\ UNCHANGED <<transferEvents, taxEvents, today>>

LEMMA SaleEffect ==
  ASSUME LedgerInv, NEW q \in Quantities, NEW d \in Days,
         NEW scheme \in Schemes \cup {Nothing}, CommitDisposal(q, d, scheme)
  PROVE  \E take \in [LotIds -> Nat], lost \in SUBSET LotIds :
           /\ SaleOf(take, lost, d)
           /\ take = UkTake({l \in ActiveOf(scheme) : Sellable(l, d)}, remOf, acqOf, d, q)
<1> DEFINE pick == {l \in ActiveOf(scheme) : Sellable(l, d)}
           take == UkTake(pick, remOf, acqOf, d, q)
           lost == Forfeitable({l \in LotIds : take[l] > 0}, d)
           left == [l \in LotIds |-> (IF l \in lost THEN 0 ELSE lots[l].rem) - take[l]]
           x    == [k \in LotIds |-> IF k \in lost THEN lots[k].rem ELSE 0]
<1>1. \A k \in LotIds : lots[k] \in Lot /\ gone[k] \in Gone
  BY DEF LedgerInv, TypeOK
<1>2. remOf \in [LotIds -> Nat]
  BY <1>1 DEF remOf, Lot
<1>3. /\ take \in [LotIds -> Nat]
      /\ \A l \in LotIds : take[l] <= lots[l].rem
      /\ \A l \in LotIds \ pick : take[l] = 0
  <2>1. \A l \in LotIds : remOf[l] = lots[l].rem
    BY DEF remOf
  <2>2. /\ take \in [LotIds -> Nat]
        /\ \A l \in LotIds : take[l] <= remOf[l]
        /\ \A l \in LotIds \ pick : take[l] = 0
    BY <1>2, UkTakeBounds
  <2> QED
    BY <2>1, <2>2
<1>4. \A l \in pick : l \in LotIds /\ Live(l) /\ Sellable(l, d)
  BY DEF ActiveOf
<1>5. /\ \A l \in LotIds : left[l] \in 0..lots[l].qty
      /\ lots' = [l \in LotIds |-> [lots[l] EXCEPT !.rem = left[l]]]
      /\ sold' = [l \in LotIds |-> DisposalRow(l, d, take[l])]
      /\ gone' = [l \in LotIds |->
           [gone[l] EXCEPT !.sold = @ + take[l],
                           !.forfeited = @ + IF l \in lost THEN lots[l].rem ELSE 0]]
      /\ UNCHANGED <<transferEvents, taxEvents, today>>
  BY DEF CommitDisposal
<1>6. \A l \in LotIds : left[l] = (IF l \in lost THEN 0 ELSE lots[l].rem) - take[l]
  OBVIOUS
<1>7. lost \subseteq LotIds
  BY DEF Forfeitable
<1> HIDE DEF pick, left
<1>8. ASSUME NEW l \in LotIds
      PROVE  /\ take[l] > 0 => Live(l) /\ Sellable(l, d) /\ l \notin lost
             /\ lots'[l] = [lots[l] EXCEPT !.rem = IF l \in lost THEN 0 ELSE lots[l].rem - take[l]]
             /\ gone'[l].sold = gone[l].sold + take[l]
             /\ gone'[l].moved = gone[l].moved
             /\ gone'[l].forfeited = gone[l].forfeited + IF l \in lost THEN lots[l].rem ELSE 0
  <2> HIDE DEF take, lost
  <2>1. take[l] \in Nat /\ lots[l].rem \in Nat /\ lots[l].qty \in Nat /\ left[l] \in 0..lots[l].qty
    BY <1>1, <1>3, <1>5 DEF Lot
  <2>2. l \in lost => take[l] = 0
    BY <1>6, <2>1
  <2>3. left[l] = IF l \in lost THEN 0 ELSE lots[l].rem - take[l]
    BY <1>6, <2>1, <2>2
  <2>4. take[l] > 0 => Live(l) /\ Sellable(l, d) /\ l \notin lost
    BY <1>3, <1>4, <2>2
  <2> DEFINE s == gone[l].sold + take[l]
             f == gone[l].forfeited + IF l \in lost THEN lots[l].rem ELSE 0
  <2>5. gone'[l] = [gone[l] EXCEPT !.sold = s, !.forfeited = f]
    BY <1>5
  <2> HIDE DEF s, f
  <2>6. gone'[l].sold = s /\ gone'[l].forfeited = f /\ gone'[l].moved = gone[l].moved
    BY <1>1, <2>5 DEF Gone
  <2>7. lots'[l] = [lots[l] EXCEPT !.rem = left[l]]
    BY <1>5
  <2> QED
    BY <2>3, <2>4, <2>6, <2>7 DEF s, f
<1>9. SaleOf(take, lost, d)
  BY <1>3, <1>5, <1>8 DEF SaleOf
<1>10. take = UkTake({l \in ActiveOf(scheme) : Sellable(l, d)}, remOf, acqOf, d, q)
  BY DEF pick
<1> QED
  BY <1>3, <1>7, <1>9, <1>10

(* A matched lot was added with its employee lot, which stays in the table *)
(* whatever happens to it; no ESPP move ever touches a matched lot.        *)
PlanPairs ==
  \A m \in LotIds : Matched(m) =>
    /\ lots[m].match \in LotIds
    /\ lots[lots[m].match].scheme \in {"ESPP_PLUS", "BROKERAGE"}
    /\ gone[m].moved = 0 /\ lots[m].qty > 0

PlanInv == LedgerInv /\ PlanPairs /\ TransferredEmployeeForfeits

(* A matched lot that lost nothing still holds what it was granted.        *)
LEMMA MatchedUntouched ==
  ASSUME LedgerInv, PlanPairs, NEW m \in LotIds, Matched(m),
         gone[m].sold + gone[m].forfeited = 0
  PROVE  Active(m)
<1>1. /\ lots[m] \in Lot /\ gone[m] \in Gone
      /\ lots[m].qty - lots[m].rem = gone[m].sold + gone[m].moved + gone[m].forfeited
      /\ gone[m].moved = 0 /\ lots[m].qty > 0
  BY DEF LedgerInv, TypeOK, LotAccounting, PlanPairs
<1>2. /\ lots[m].qty \in Int /\ lots[m].rem \in Int
      /\ gone[m].sold \in Nat /\ gone[m].forfeited \in Nat
  <2>1. lots[m].qty \in Int /\ lots[m].rem \in Int
    BY <1>1 DEF Lot
  <2>2. gone[m].sold \in Nat /\ gone[m].forfeited \in Nat
    BY <1>1 DEF Gone
  <2> QED
    BY <2>1, <2>2
<1>3. gone[m].sold = 0 /\ gone[m].forfeited = 0
  BY <1>2
<1>4. lots[m].qty - lots[m].rem = 0
  BY <1>1, <1>3
<1> QED
  BY <1>1, <1>2, <1>4 DEF Active

(* What a step must show of each matched lot.                              *)
MatchedStep(m) ==
  /\ Matched(m)
  /\ lots'[m].match = lots[m].match /\ lots'[m].end = lots[m].end
  /\ gone'[m].moved = gone[m].moved /\ lots'[m].qty > 0
  /\ lots'[lots[m].match].scheme \in {"ESPP_PLUS", "BROKERAGE"}
  /\ gone'[m].sold + gone'[m].forfeited = 0 => gone[m].sold + gone[m].forfeited = 0
  /\ (/\ lots'[m].rem > 0 /\ gone'[m].sold + gone'[m].forfeited = 0
      /\ lots'[lots[m].match].scheme = "BROKERAGE")
       => lots[m].end <= today' \/ lots[lots[m].match].scheme = "BROKERAGE"

LEMMA StepKeepsPairs ==
  ASSUME PlanInv, today' \in Nat, today \in Nat, today' >= today,
         \A m \in LotIds : Matched(m)' => MatchedStep(m)
  PROVE  PlanPairs' /\ TransferredEmployeeForfeits'
<1>1. PlanPairs'
  BY DEF PlanInv, PlanPairs, MatchedStep
<1>2. TransferredEmployeeForfeits'
  <2> SUFFICES ASSUME NEW m \in LotIds, Matched(m)', lots'[m].rem > 0,
                      gone'[m].sold + gone'[m].forfeited = 0,
                      lots'[lots'[m].match].scheme = "BROKERAGE"
               PROVE  lots'[m].end <= today'
    BY DEF TransferredEmployeeForfeits, Active
  <2>1. MatchedStep(m)
    OBVIOUS
  <2>2. lots'[m].end = lots[m].end /\ lots[m].end \in Nat
    BY <2>1 DEF MatchedStep, PlanInv, LedgerInv, TypeOK, Lot
  <2>3. CASE lots[m].end <= today'
    BY <2>2, <2>3
  <2>4. CASE lots[lots[m].match].scheme = "BROKERAGE"
    <3>1. Matched(m) /\ gone[m].sold + gone[m].forfeited = 0
      BY <2>1 DEF MatchedStep
    <3>2. Active(m)
      BY <3>1, MatchedUntouched DEF PlanInv
    <3>3. lots[m].end <= today
      BY <2>4, <3>1, <3>2 DEF PlanInv, TransferredEmployeeForfeits
    <3> QED
      BY <2>2, <3>3
  <2> QED
    BY <2>1, <2>3, <2>4 DEF MatchedStep
<1> QED
  BY <1>1, <1>2

LEMMA AddLotPairs ==
  ASSUME PlanInv, NEW l \in LotIds, NEW scheme \in Acquirable, NEW d \in Days,
         NEW q \in Quantities, NEW c \in Currencies, AddLot(l, scheme, d, q, c)
  PROVE  PlanPairs' /\ TransferredEmployeeForfeits'
<1>1. /\ ~Live(l) /\ lots' = [lots EXCEPT ![l] = NewLot(scheme, d, q, c)]
      /\ UNCHANGED <<today, gone>> /\ today \in Nat /\ lots \in [LotIds -> Lot]
  BY SizesAssumption DEF AddLot, PlanInv, LedgerInv, TypeOK, Days
<1>2. NewLot(scheme, d, q, c).match = NoLot
  BY DEF NewLot, Absent
<1>3. ASSUME NEW m \in LotIds, Matched(m)'
      PROVE  MatchedStep(m)
  <2>1. m # l
    BY <1>1, <1>2, <1>3 DEF Matched
  <2>2. lots'[m] = lots[m] /\ gone'[m] = gone[m] /\ Matched(m)
    BY <1>1, <1>3, <2>1 DEF Matched
  <2>3. /\ lots[m].match \in LotIds /\ lots[m].qty > 0
        /\ lots[lots[m].match].scheme \in {"ESPP_PLUS", "BROKERAGE"}
    BY <2>2 DEF PlanInv, PlanPairs
  <2>4. lots'[lots[m].match] = lots[lots[m].match]
    BY <1>1, <2>3 DEF Live
  <2> QED
    BY <2>2, <2>3, <2>4 DEF MatchedStep
<1> QED
  BY <1>1, <1>3, StepKeepsPairs

LEMMA AddPairPairs ==
  ASSUME PlanInv, NEW e \in LotIds, NEW m \in LotIds, NEW d \in Days,
         NEW q \in Quantities, NEW qm \in Quantities, NEW c \in Currencies,
         AddEsppPlusPair(e, m, d, q, qm, c)
  PROVE  PlanPairs' /\ TransferredEmployeeForfeits'
<1> DEFINE paid  == NewLot("ESPP_PLUS", d, q, c)
           match == [NewLot("ESPP_PLUS", d, qm, c)
                       EXCEPT !.match = e, !.end = d + Window]
<1>1. /\ lots' = [lots EXCEPT ![e] = paid, ![m] = match]
      /\ UNCHANGED <<today, gone>> /\ e # m /\ ~Live(e) /\ ~Live(m)
      /\ lots \in [LotIds -> Lot] /\ today \in Nat
  BY SizesAssumption DEF AddEsppPlusPair, PlanInv, LedgerInv, TypeOK, Days
<1>2. paid.match = NoLot /\ paid.scheme = "ESPP_PLUS" /\ match.match = e /\ match.qty = qm
  BY DEF NewLot, Absent
<1>3. qm > 0
  BY SizesAssumption
<1> HIDE DEF paid, match
<1>4. lots'[e] = paid /\ lots'[m] = match /\ \A n \in LotIds \ {e, m} : lots'[n] = lots[n]
  BY <1>1
<1>5. ASSUME NEW n \in LotIds, Matched(n)', n # m
      PROVE  MatchedStep(n)
  <2>1. n # e
    BY <1>2, <1>4, <1>5 DEF Matched
  <2>2. lots'[n] = lots[n] /\ gone'[n] = gone[n] /\ Matched(n)
    BY <1>1, <1>4, <1>5, <2>1 DEF Matched
  <2>3. /\ lots[n].match \in LotIds /\ lots[n].qty > 0
        /\ lots[lots[n].match].scheme \in {"ESPP_PLUS", "BROKERAGE"}
    BY <2>2 DEF PlanInv, PlanPairs
  <2>4. lots'[lots[n].match] = lots[lots[n].match]
    BY <1>1, <1>4, <2>3 DEF Live
  <2> QED
    BY <2>2, <2>3, <2>4 DEF MatchedStep
<1>6. gone'[m].moved = 0 /\ lots'[m].match = e /\ lots'[m].qty > 0 /\ lots'[e].scheme = "ESPP_PLUS"
  BY <1>1, <1>2, <1>3, <1>4 DEF PlanInv, LedgerInv, FreeUntouched
<1>7. PlanPairs'
  <2> SUFFICES ASSUME NEW n \in LotIds, Matched(n)'
               PROVE  /\ lots'[n].match \in LotIds
                      /\ lots'[lots'[n].match].scheme \in {"ESPP_PLUS", "BROKERAGE"}
                      /\ gone'[n].moved = 0 /\ lots'[n].qty > 0
    BY DEF PlanPairs
  <2>1. CASE n = m
    BY <1>6, <2>1
  <2>2. CASE n # m
    BY <1>5, <2>2 DEF MatchedStep, PlanInv, PlanPairs
  <2> QED
    BY <2>1, <2>2
<1>8. TransferredEmployeeForfeits'
  <2> SUFFICES ASSUME NEW n \in LotIds, Matched(n)', lots'[n].rem > 0,
                      gone'[n].sold + gone'[n].forfeited = 0,
                      lots'[lots'[n].match].scheme = "BROKERAGE"
               PROVE  lots'[n].end <= today'
    BY DEF TransferredEmployeeForfeits, Active
  <2>1. n # m
    BY <1>6
  <2>2. lots'[n] = lots[n] /\ gone'[n] = gone[n]
    BY <1>1, <1>2, <1>4, <2>1 DEF Matched
  <2>3. Matched(n) /\ Active(n)
    BY <2>2 DEF Matched, Active
  <2>4. lots[n].match \in LotIds /\ Live(lots[n].match)
    BY <2>3 DEF PlanInv, PlanPairs, Live
  <2>5. lots[lots[n].match].scheme = "BROKERAGE"
    BY <1>1, <1>4, <2>2, <2>4
  <2> QED
    BY <1>1, <2>2, <2>3, <2>5 DEF PlanInv, TransferredEmployeeForfeits
<1> QED
  BY <1>7, <1>8

LEMMA EditLotPairs ==
  ASSUME PlanInv, NEW l \in LotIds, NEW d \in Days, NEW q \in Quantities,
         NEW c \in Currencies \cup {Nothing}, EditLot(l, d, q, c)
  PROVE  PlanPairs' /\ TransferredEmployeeForfeits'
<1> DEFINE new == [lots[l] EXCEPT !.acq = d, !.qty = q, !.rem = CorrectedRemaining(l, q),
                                  !.ccy = IF c = Nothing THEN @ ELSE c]
<1>1. lots' = [lots EXCEPT ![l] = new] /\ UNCHANGED <<today, gone>>
  BY DEF EditLot
<1>2. /\ lots \in [LotIds -> Lot] /\ today \in Nat /\ q > 0
  BY SizesAssumption DEF PlanInv, LedgerInv, TypeOK, Days
<1>3. /\ new.scheme = lots[l].scheme /\ new.match = lots[l].match
      /\ new.end = lots[l].end /\ new.qty = q
  BY <1>2 DEF Lot
<1> HIDE DEF new
<1>4. ASSUME NEW k \in LotIds
      PROVE  /\ lots'[k].scheme = lots[k].scheme /\ lots'[k].match = lots[k].match
             /\ lots'[k].end = lots[k].end /\ lots'[k].qty \in {q, lots[k].qty}
  BY <1>1, <1>2, <1>3
<1>5. ASSUME NEW m \in LotIds, Matched(m)'
      PROVE  MatchedStep(m)
  <2>1. Matched(m)
    BY <1>4, <1>5 DEF Matched
  <2>2. /\ lots[m].match \in LotIds /\ lots[m].qty > 0
        /\ lots[lots[m].match].scheme \in {"ESPP_PLUS", "BROKERAGE"}
    BY <2>1 DEF PlanInv, PlanPairs
  <2> QED
    BY <1>1, <1>2, <1>4, <2>1, <2>2 DEF MatchedStep
<1> QED
  BY <1>1, <1>2, <1>5, StepKeepsPairs

(* Moving an employee lot out of the plan empties the matched lots whose   *)
(* window is open.                                                         *)
LEMMA FullTransferPairs ==
  ASSUME PlanInv, NEW l \in LotIds, NEW ccy \in Currencies \cup {Nothing},
         FullTransfer(l, ccy)
  PROVE  PlanPairs' /\ TransferredEmployeeForfeits'
<1> DEFINE lost == IF lots[l].scheme = "ESPP_PLUS" THEN Forfeitable({l}, today) ELSE {}
           out  == [lots[l] EXCEPT !.scheme = "BROKERAGE",
                                   !.ccy = IF ccy = Nothing THEN @ ELSE ccy]
<1>1. /\ lots[l].scheme \in {"RSU", "ESPP_PLUS"} /\ ~Matched(l)
      /\ lots' = [k \in LotIds |-> CASE k = l -> out
                                     [] k \in lost -> [lots[k] EXCEPT !.rem = 0]
                                     [] OTHER -> lots[k]]
      /\ gone' = [k \in LotIds |->
           IF k \in lost THEN [gone[k] EXCEPT !.forfeited = @ + lots[k].rem] ELSE gone[k]]
      /\ today' = today
  BY DEF FullTransfer
<1>2. \A k \in LotIds : lots[k] \in Lot /\ gone[k] \in Gone
  BY DEF PlanInv, LedgerInv, TypeOK
<1>3. today \in Nat
  BY SizesAssumption DEF PlanInv, LedgerInv, TypeOK, Days
<1>4. l \notin lost
  BY <1>1 DEF Forfeitable
<1>5. \A m \in LotIds : (/\ Matched(m) /\ Active(m) /\ lots[m].match = l /\ today < lots[m].end
                         /\ lots[l].scheme = "ESPP_PLUS") => m \in lost
  BY DEF Forfeitable
<1>6. out.scheme = "BROKERAGE"
  BY <1>2 DEF Lot
<1> HIDE DEF lost, out
<1>7. lots'[l] = out
  BY <1>1, <1>4
<1>8. ASSUME NEW k \in LotIds, k # l
      PROVE  /\ lots'[k].scheme = lots[k].scheme /\ lots'[k].match = lots[k].match
             /\ lots'[k].end = lots[k].end /\ lots'[k].qty = lots[k].qty
             /\ k \in lost => lots'[k].rem = 0
             /\ gone'[k].moved = gone[k].moved /\ gone'[k].sold = gone[k].sold
             /\ gone'[k].forfeited >= gone[k].forfeited
             /\ k \notin lost => lots'[k] = lots[k]
  <2>1. CASE k \in lost
    <3>1. /\ lots'[k] = [lots[k] EXCEPT !.rem = 0]
          /\ gone'[k] = [gone[k] EXCEPT !.forfeited = @ + lots[k].rem]
      BY <1>1, <1>8, <2>1
    <3>2. lots[k].rem \in Nat /\ gone[k].forfeited \in Nat
      BY <1>2 DEF Lot, Gone
    <3>3. /\ gone'[k].forfeited = gone[k].forfeited + lots[k].rem
          /\ gone'[k].moved = gone[k].moved /\ gone'[k].sold = gone[k].sold
      BY <1>2, <3>1 DEF Gone
    <3>4. /\ lots'[k].scheme = lots[k].scheme /\ lots'[k].match = lots[k].match
          /\ lots'[k].end = lots[k].end /\ lots'[k].qty = lots[k].qty /\ lots'[k].rem = 0
      BY <1>2, <3>1 DEF Lot
    <3> QED
      BY <2>1, <3>2, <3>3, <3>4
  <2>2. CASE k \notin lost
    <3>1. lots'[k] = lots[k] /\ gone'[k] = gone[k]
      BY <1>1, <1>8, <2>2
    <3>2. gone[k].forfeited \in Nat
      BY <1>2 DEF Gone
    <3> QED
      BY <2>2, <3>1, <3>2
  <2> QED
    BY <2>1, <2>2
<1>9. ASSUME NEW m \in LotIds, Matched(m)'
      PROVE  MatchedStep(m)
  <2>1. m # l
    BY <1>6, <1>7, <1>9 DEF Matched
  <2>2. /\ lots'[m].match = lots[m].match /\ lots'[m].end = lots[m].end
        /\ lots'[m].qty = lots[m].qty /\ gone'[m].moved = gone[m].moved /\ Matched(m)
    BY <1>8, <1>9, <2>1 DEF Matched
  <2>3. /\ lots[m].match \in LotIds /\ lots[m].qty > 0
        /\ lots[lots[m].match].scheme \in {"ESPP_PLUS", "BROKERAGE"}
    BY <2>2 DEF PlanInv, PlanPairs
  <2>4. lots'[lots[m].match].scheme \in {"ESPP_PLUS", "BROKERAGE"}
    BY <1>6, <1>7, <1>8, <2>3
  <2>5. gone'[m].sold + gone'[m].forfeited = 0 => gone[m].sold + gone[m].forfeited = 0
    <3>1. gone[m].sold \in Nat /\ gone[m].forfeited \in Nat
      BY <1>2 DEF Gone
    <3>2. gone'[m].sold = gone[m].sold /\ gone'[m].forfeited >= gone[m].forfeited
          /\ gone'[m].forfeited \in Nat
      <4>1. /\ gone'[m].sold = gone[m].sold /\ gone'[m].forfeited >= gone[m].forfeited
        BY <1>8, <2>1
      <4>2. gone' \in [LotIds -> Gone]
        BY FullTransferKeeps DEF PlanInv, LedgerInv, TypeOK
      <4> QED
        BY <4>1, <4>2 DEF Gone
    <3> QED
      BY <3>1, <3>2
  <2>6. ASSUME lots'[m].rem > 0, lots'[lots[m].match].scheme = "BROKERAGE",
               lots[lots[m].match].scheme # "BROKERAGE"
        PROVE  lots[m].end <= today
    <3>1. lots[m].match = l
      BY <1>8, <2>3, <2>6
    <3>2. m \notin lost
      BY <1>8, <2>1, <2>6
    <3>3. Active(m)
      BY <1>8, <2>1, <2>6, <3>2 DEF Active
    <3>4. lots[l].scheme = "ESPP_PLUS"
      BY <2>3, <2>6, <3>1
    <3>5. ~(today < lots[m].end)
      BY <1>5, <2>2, <3>1, <3>2, <3>3, <3>4
    <3>6. lots[m].end \in Nat
      BY <1>2 DEF Lot
    <3> QED
      BY <1>3, <3>5, <3>6
  <2> QED
    BY <1>1, <2>2, <2>3, <2>4, <2>5, <2>6 DEF MatchedStep
<1> QED
  BY <1>1, <1>3, <1>9, StepKeepsPairs

LEMMA EsppTransferPairs ==
  ASSUME PlanInv, NEW l \in LotIds, NEW requested \in Requests \cup {AllShares},
         NEW ccy \in Currencies \cup {Nothing}, EsppTransfer(l, requested, ccy)
  PROVE  PlanPairs' /\ TransferredEmployeeForfeits'
<1>1. PICK take \in [LotIds -> Nat], moved \in SUBSET LotIds, c \in Currencies :
        \E dst \in [moved -> LotIds \ moved] : MoveOf(take, moved, dst, c)
  BY MoveEffect DEF PlanInv
<1>2. PICK dst \in [moved -> LotIds \ moved] : MoveOf(take, moved, dst, c)
  BY <1>1
<1>3. \A k \in LotIds : lots[k] \in Lot /\ gone[k] \in Gone
  BY DEF PlanInv, LedgerInv, TypeOK
<1>4. today \in Nat /\ today' = today
  <2>1. today' = today
    BY <1>2 DEF MoveOf
  <2>2. today \in Nat
    BY SizesAssumption DEF PlanInv, LedgerInv, TypeOK, Days
  <2> QED
    BY <2>1, <2>2
<1>5. ASSUME NEW k \in LotIds
      PROVE  /\ Live(k) => lots'[k].scheme = lots[k].scheme
             /\ lots'[k].scheme = "ESPP_PLUS" => lots'[k] = lots[k] /\ take[k] = 0
  <2>1. CASE k \in moved
    <3>1. lots'[k] = [lots[k] EXCEPT !.rem = @ - take[k]] /\ lots[k].scheme = "ESPP"
      BY <1>2, <2>1 DEF MoveOf
    <3>2. lots'[k].scheme = "ESPP"
      BY <1>3, <3>1 DEF Lot
    <3> QED
      BY <3>1, <3>2
  <2>2. CASE k \notin moved /\ \A s \in moved : dst[s] # k
    <3>1. lots'[k] = lots[k] /\ take[k] = 0
      BY <1>2, <2>2 DEF MoveOf
    <3> QED
      BY <3>1
  <2>3. ASSUME NEW s \in moved, dst[s] = k
        PROVE  lots'[k].scheme = "BROKERAGE" /\ (Live(k) => lots[k].scheme = "BROKERAGE")
    <3>1. CASE Live(k)
      <4>1. /\ lots'[k] = [lots[k] EXCEPT !.qty = @ + take[s], !.rem = @ + take[s], !.ccy = c]
            /\ lots[k].scheme = "BROKERAGE"
        BY <1>2, <2>3, <3>1 DEF MoveOf
      <4> QED
        BY <1>3, <4>1 DEF Lot
    <3>2. CASE ~Live(k)
      <4>1. lots'[k] = [NewLot("BROKERAGE", lots[s].acq, take[s], c) EXCEPT !.origin = s]
        BY <1>2, <2>3, <3>2 DEF MoveOf
      <4> QED
        BY <3>2, <4>1 DEF NewLot, Absent
    <3> QED
      BY <3>1, <3>2
  <2> QED
    BY <2>1, <2>2, <2>3
<1>6. ASSUME NEW m \in LotIds, Matched(m)'
      PROVE  MatchedStep(m)
  <2>1. lots'[m] = lots[m] /\ take[m] = 0
    BY <1>5, <1>6 DEF Matched
  <2>2. Matched(m)
    BY <1>6, <2>1 DEF Matched
  <2>3. /\ lots[m].match \in LotIds /\ lots[m].qty > 0
        /\ lots[lots[m].match].scheme \in {"ESPP_PLUS", "BROKERAGE"}
    BY <2>2 DEF PlanInv, PlanPairs
  <2>4. lots'[lots[m].match].scheme = lots[lots[m].match].scheme
    BY <1>5, <2>3 DEF Live
  <2>5. gone'[m] = gone[m]
    <3>1. gone'[m] = [gone[m] EXCEPT !.moved = @ + take[m]]
      BY <1>2 DEF MoveOf
    <3>2. gone[m].moved + take[m] = gone[m].moved
      BY <1>3, <2>1 DEF Gone
    <3> QED
      BY <1>3, <3>1, <3>2 DEF Gone
  <2> QED
    BY <2>1, <2>2, <2>3, <2>4, <2>5 DEF MatchedStep
<1>7. LedgerInv
  BY DEF PlanInv
<1> QED
  BY <1>4, <1>6, StepKeepsPairs

LEMMA CommitDisposalPairs ==
  ASSUME PlanInv, NEW q \in Quantities, NEW d \in Days,
         NEW scheme \in Schemes \cup {Nothing}, CommitDisposal(q, d, scheme)
  PROVE  PlanPairs' /\ TransferredEmployeeForfeits'
<1>1. PICK take \in [LotIds -> Nat], lost \in SUBSET LotIds : SaleOf(take, lost, d)
  BY SaleEffect DEF PlanInv
<1>2. \A k \in LotIds : lots[k] \in Lot /\ gone[k] \in Gone
  BY DEF PlanInv, LedgerInv, TypeOK
<1>3. today \in Nat /\ today' = today
  BY <1>1, SizesAssumption DEF SaleOf, PlanInv, LedgerInv, TypeOK, Days
<1>4. ASSUME NEW k \in LotIds
      PROVE  /\ lots'[k].scheme = lots[k].scheme /\ lots'[k].match = lots[k].match
             /\ lots'[k].end = lots[k].end /\ lots'[k].qty = lots[k].qty
             /\ gone'[k].moved = gone[k].moved
             /\ gone'[k].sold + gone'[k].forfeited = 0
                  => gone[k].sold + gone[k].forfeited = 0
  <2>1. lots'[k] = [lots[k] EXCEPT !.rem = IF k \in lost THEN 0 ELSE lots[k].rem - take[k]]
    BY <1>1 DEF SaleOf
  <2>2. /\ lots'[k].scheme = lots[k].scheme /\ lots'[k].match = lots[k].match
        /\ lots'[k].end = lots[k].end /\ lots'[k].qty = lots[k].qty
    BY <1>2, <2>1 DEF Lot
  <2> DEFINE x == IF k \in lost THEN lots[k].rem ELSE 0
  <2>3. /\ gone'[k].moved = gone[k].moved
        /\ gone'[k].sold = gone[k].sold + take[k]
        /\ gone'[k].forfeited = gone[k].forfeited + x
    BY <1>1 DEF SaleOf
  <2>4. x \in Nat /\ take[k] \in Nat
    BY <1>2 DEF Lot
  <2>5. gone[k].sold \in Nat /\ gone[k].forfeited \in Nat
    BY <1>2 DEF Gone
  <2> HIDE DEF x
  <2>6. gone'[k].sold + gone'[k].forfeited = 0 => gone[k].sold + gone[k].forfeited = 0
    <3>1. \A a, b, t, y \in Nat : (a + t) + (b + y) = 0 => a + b = 0
      OBVIOUS
    <3> QED
      BY <2>3, <2>4, <2>5, <3>1
  <2> QED
    BY <2>2, <2>3, <2>6
<1>5. ASSUME NEW m \in LotIds, Matched(m)'
      PROVE  MatchedStep(m)
  <2>1. Matched(m)
    BY <1>4, <1>5 DEF Matched
  <2>2. /\ lots[m].match \in LotIds /\ lots[m].qty > 0
        /\ lots[lots[m].match].scheme \in {"ESPP_PLUS", "BROKERAGE"}
    BY <2>1 DEF PlanInv, PlanPairs
  <2> QED
    BY <1>4, <2>1, <2>2 DEF MatchedStep
<1> QED
  BY <1>3, <1>5, StepKeepsPairs

LEMMA InitPlan == Init => PlanInv
<1> SUFFICES ASSUME Init PROVE PlanInv
  OBVIOUS
<1>1. \A m \in LotIds : ~Matched(m)
  BY DEF Init, Matched, Absent
<1> QED
  BY <1>1, InitLedger DEF PlanInv, PlanPairs, TransferredEmployeeForfeits

LEMMA NextPlan == PlanInv /\ [Next]_vars => PlanInv'
<1> SUFFICES ASSUME PlanInv, [Next]_vars PROVE PlanPairs' /\ TransferredEmployeeForfeits'
  BY NextKeeps DEF PlanInv
<1>1. ASSUME UNCHANGED <<lots, gone>>, today' \in Nat, today \in Nat, today' >= today
      PROVE  PlanPairs' /\ TransferredEmployeeForfeits'
  <2>1. ASSUME NEW m \in LotIds, Matched(m)' PROVE MatchedStep(m)
    BY <1>1, <2>1 DEF MatchedStep, Matched, PlanInv, PlanPairs
  <2> QED
    BY <1>1, <2>1, StepKeepsPairs
<1>2. today \in Nat
  BY SizesAssumption DEF PlanInv, LedgerInv, TypeOK, Days
<1>3. CASE NextDay
  BY <1>1, <1>2, <1>3 DEF NextDay
<1>4. CASE UNCHANGED vars
  BY <1>1, <1>2, <1>4 DEF vars
<1>5. ASSUME NEW l \in LotIds, NEW d \in Days, NEW q \in Quantities, NEW c \in Currencies,
             NEW scheme \in Acquirable, AddLot(l, scheme, d, q, c)
      PROVE  PlanPairs' /\ TransferredEmployeeForfeits'
  BY <1>5, AddLotPairs
<1>6. ASSUME NEW l \in LotIds, NEW d \in Days, NEW q \in Quantities, NEW c \in Currencies,
             NEW m \in LotIds, NEW qm \in Quantities, AddEsppPlusPair(l, m, d, q, qm, c)
      PROVE  PlanPairs' /\ TransferredEmployeeForfeits'
  BY <1>6, AddPairPairs
<1>7. ASSUME NEW l \in LotIds, NEW d \in Days, NEW q \in Quantities,
             NEW c \in Currencies \cup {Nothing}, EditLot(l, d, q, c)
      PROVE  PlanPairs' /\ TransferredEmployeeForfeits'
  BY <1>7, EditLotPairs
<1>8. ASSUME NEW l \in LotIds, NEW c \in Currencies \cup {Nothing}, FullTransfer(l, c)
      PROVE  PlanPairs' /\ TransferredEmployeeForfeits'
  BY <1>8, FullTransferPairs
<1>9. ASSUME NEW l \in LotIds, NEW c \in Currencies \cup {Nothing},
             NEW q \in Requests \cup {AllShares}, EsppTransfer(l, q, c)
      PROVE  PlanPairs' /\ TransferredEmployeeForfeits'
  BY <1>9, EsppTransferPairs
<1>10. ASSUME NEW q \in Quantities, NEW d \in Days,
              NEW scheme \in Schemes \cup {Nothing}, CommitDisposal(q, d, scheme)
       PROVE  PlanPairs' /\ TransferredEmployeeForfeits'
  BY <1>10, CommitDisposalPairs
<1> QED
  BY <1>3, <1>4, <1>5, <1>6, <1>7, <1>8, <1>9, <1>10 DEF Next

(* However many lots there are and in whatever order they are added,       *)
(* corrected, sold and moved: an employee lot that left the plan inside    *)
(* the window has cost the user its matched lots.                          *)
THEOREM EmployeeTransferForfeits == Spec => []TransferredEmployeeForfeits
<1>1. PlanInv => TransferredEmployeeForfeits
  BY DEF PlanInv
<1> QED
  BY <1>1, InitPlan, NextPlan, PTL DEF Spec

-----------------------------------------------------------------------------
(* What one sale does                                                      *)

(* The only day a disposal writes sales on is its own.                     *)
LEMMA DayOfSale ==
  ASSUME LedgerInv, NEW take \in [LotIds -> Nat], NEW lost, NEW t \in Days,
         SaleOf(take, lost, t), NEW d \in Days, SaleDay(d)
  PROVE  d = t
<1>1. PICK l \in LotIds : sold'[l][d] # sold[l][d]
  BY DEF SaleDay
<1>2. sold[l] \in [Days -> Nat] /\ sold'[l] = [sold[l] EXCEPT ![t] = @ + take[l]]
  BY DEF SaleOf, DisposalRow, LedgerInv, TypeOK
<1> QED
  BY <1>1, <1>2

LEMMA SoldIsTaken ==
  ASSUME LedgerInv, NEW take \in [LotIds -> Nat], NEW lost, NEW t \in Days,
         SaleOf(take, lost, t), NEW l \in LotIds
  PROVE  Sold(l) = take[l] /\ take[l] \in Nat
<1>1. gone[l].sold \in Nat /\ take[l] \in Nat /\ gone'[l].sold = gone[l].sold + take[l]
  BY DEF LedgerInv, TypeOK, Gone, SaleOf
<1> QED
  BY <1>1 DEF Sold

(* Only a disposal sells.                                                  *)
LEMMA OnlyDisposalsSell ==
  ASSUME LedgerInv, [Next]_vars, NEW d \in Days, SaleDay(d)
  PROVE  \E q \in Quantities, scheme \in Schemes \cup {Nothing}, t \in Days :
           CommitDisposal(q, t, scheme)
<1>1. ~UNCHANGED sold
  BY DEF SaleDay
<1>2. ~UNCHANGED vars /\ ~NextDay
  BY <1>1 DEF vars, NextDay
<1>3. ~\E l \in LotIds, t \in Days, q \in Quantities, c \in Currencies :
         \/ \E scheme \in Acquirable : AddLot(l, scheme, t, q, c)
         \/ \E m \in LotIds, qm \in Quantities :
              "ESPP_PLUS" \in Acquirable /\ AddEsppPlusPair(l, m, t, q, qm, c)
  BY <1>1 DEF AddLot, AddEsppPlusPair
<1>4. ~\E l \in LotIds, t \in Days, q \in Quantities, c \in Currencies \cup {Nothing} :
         EditLot(l, t, q, c)
  BY <1>1 DEF EditLot
<1>5. ASSUME NEW l \in LotIds, NEW c \in Currencies \cup {Nothing},
             NEW q \in Requests \cup {AllShares}
      PROVE  ~FullTransfer(l, c) /\ ~EsppTransfer(l, q, c)
  <2>1. ~FullTransfer(l, c)
    BY <1>1 DEF FullTransfer
  <2>2. ~EsppTransfer(l, q, c)
    BY <1>1 DEF EsppTransfer
  <2> QED
    BY <2>1, <2>2
<1>6. ~\E l \in LotIds, c \in Currencies \cup {Nothing} :
         \/ FullTransfer(l, c)
         \/ \E q \in Requests \cup {AllShares} : EsppTransfer(l, q, c)
  BY <1>5
<1> QED
  BY <1>2, <1>3, <1>4, <1>6 DEF Next

LEMMA SaleForfeitsStep ==
  ASSUME LedgerInv, [Next]_vars, NEW d \in Days, SaleDay(d), NEW m \in LotIds
  PROVE  /\ Sold(m) > 0 => gone'[m].forfeited = gone[m].forfeited
         /\ (Matched(m) /\ lots[m].match # m /\ Sold(lots[m].match) > 0 /\ d < lots[m].end)
              => lots'[m].rem = 0 /\ Sold(m) = 0
<1>1. PICK q \in Quantities, scheme \in Schemes \cup {Nothing}, t \in Days :
        CommitDisposal(q, t, scheme)
  BY OnlyDisposalsSell
<1>2. PICK take \in [LotIds -> Nat], lost \in SUBSET LotIds : SaleOf(take, lost, t)
  BY <1>1, SaleEffect
<1>3. d = t
  BY <1>2, DayOfSale
<1>4. \A l \in LotIds : Sold(l) = take[l] /\ take[l] \in Nat
  BY <1>2, SoldIsTaken
<1>5. /\ lots[m] \in Lot /\ lots[m].rem \in Nat /\ lots[m].end \in Nat
      /\ gone[m].forfeited \in Nat /\ d \in Nat
      /\ lots[m].match \in LotIds \cup {NoLot}
  BY SizesAssumption DEF LedgerInv, TypeOK, Lot, Gone, Days
<1>6. /\ take[m] > 0 => Sellable(m, d) /\ m \notin lost
      /\ lots'[m] = [lots[m] EXCEPT !.rem = IF m \in lost THEN 0 ELSE lots[m].rem - take[m]]
      /\ gone'[m].forfeited = gone[m].forfeited + IF m \in lost THEN lots[m].rem ELSE 0
      /\ lost = Forfeitable({l \in LotIds : take[l] > 0}, d)
  BY <1>2, <1>3 DEF SaleOf
<1>7. Sold(m) > 0 => gone'[m].forfeited = gone[m].forfeited
  BY <1>4, <1>5, <1>6
<1>8. ASSUME Matched(m), Sold(lots[m].match) > 0, d < lots[m].end
      PROVE  lots'[m].rem = 0 /\ Sold(m) = 0
  <2>1. lots[m].match \in LotIds /\ take[lots[m].match] > 0
    BY <1>4, <1>5, <1>8 DEF Matched
  <2>2. ~Sellable(m, d)
    BY <1>5, <1>8 DEF Sellable
  <2>3. take[m] = 0
    BY <1>4, <1>6, <2>2
  <2>4. Active(m) => m \in lost
    BY <1>6, <1>8, <2>1 DEF Forfeitable
  <2>5. lots'[m].rem = IF m \in lost THEN 0 ELSE lots[m].rem - take[m]
    BY <1>5, <1>6 DEF Lot
  <2> QED
    BY <1>4, <1>5, <2>3, <2>4, <2>5 DEF Active
<1> QED
  BY <1>7, <1>8

(* Whatever is sold on whatever day, a sale never sells a matched share it *)
(* forfeits, and never an employee lot inside the window without emptying  *)
(* its matched lots.                                                       *)
THEOREM SaleAndForfeitureAgree == Spec => SaleForfeitsWholeMatch
<1>1. LedgerInv /\ [Next]_vars =>
        [\A d \in Days : SaleDay(d) =>
           \A m \in LotIds :
             /\ Sold(m) > 0 => gone'[m].forfeited = gone[m].forfeited
             /\ (Matched(m) /\ lots[m].match # m /\ Sold(lots[m].match) > 0 /\ d < lots[m].end)
                  => lots'[m].rem = 0 /\ Sold(m) = 0]_vars
  BY SaleForfeitsStep
<1> QED
  BY <1>1, InitLedger, NextKeeps, PTL DEF Spec, SaleForfeitsWholeMatch

-----------------------------------------------------------------------------
(* The order of moves and sales                                            *)

(* Only an ESPP move moves shares between lots.                            *)
LEMMA OnlyTransfersMove ==
  ASSUME LedgerInv, [Next]_vars, NEW l \in LotIds, Moved(l) > 0
  PROVE  \E s \in LotIds, c \in Currencies \cup {Nothing}, q \in Requests \cup {AllShares} :
           EsppTransfer(s, q, c)
<1>1. gone[l] \in Gone /\ gone[l].moved \in Nat
  BY DEF LedgerInv, TypeOK, Gone
<1>2. gone'[l].moved # gone[l].moved
  BY <1>1 DEF Moved
<1>3. ~UNCHANGED vars /\ ~NextDay
  BY <1>2 DEF vars, NextDay
<1>4. ~\E k \in LotIds, t \in Days, q \in Quantities, c \in Currencies :
         \/ \E scheme \in Acquirable : AddLot(k, scheme, t, q, c)
         \/ \E m \in LotIds, qm \in Quantities :
              "ESPP_PLUS" \in Acquirable /\ AddEsppPlusPair(k, m, t, q, qm, c)
  BY <1>2 DEF AddLot, AddEsppPlusPair
<1>5. ~\E k \in LotIds, t \in Days, q \in Quantities, c \in Currencies \cup {Nothing} :
         EditLot(k, t, q, c)
  BY <1>2 DEF EditLot
<1>6. ASSUME NEW k \in LotIds, NEW c \in Currencies \cup {Nothing}, FullTransfer(k, c)
      PROVE  FALSE
  <2> DEFINE lost == IF lots[k].scheme = "ESPP_PLUS" THEN Forfeitable({k}, today) ELSE {}
             f    == gone[l].forfeited + lots[l].rem
  <2>1. gone'[l] = IF l \in lost THEN [gone[l] EXCEPT !.forfeited = f] ELSE gone[l]
    BY <1>6 DEF FullTransfer
  <2> HIDE DEF lost, f
  <2> QED
    BY <1>1, <1>2, <2>1 DEF Gone
<1>7. ASSUME NEW q \in Quantities, NEW d \in Days, NEW scheme \in Schemes \cup {Nothing},
             CommitDisposal(q, d, scheme)
      PROVE  FALSE
  <2>1. PICK take \in [LotIds -> Nat], lost \in SUBSET LotIds : SaleOf(take, lost, d)
    BY <1>7, SaleEffect
  <2> QED
    BY <1>2, <2>1 DEF SaleOf
<1> QED
  BY <1>3, <1>4, <1>5, <1>6, <1>7 DEF Next

LEMMA TransferOrderStep ==
  ASSUME LedgerInv, [Next]_vars, NEW l \in LotIds, NEW k \in LotIds,
         Moved(l) > 0, Live(k), lots[k].scheme = "ESPP", Older(acqOf, k, l)
  PROVE  lots'[k].rem = 0
<1>1. PICK s \in LotIds, ccy \in Currencies \cup {Nothing}, q \in Requests \cup {AllShares} :
        EsppTransfer(s, q, ccy)
  BY OnlyTransfersMove
<1>2. PICK take \in [LotIds -> Nat], moved \in SUBSET LotIds, c \in Currencies :
        \E dst \in [moved -> LotIds \ moved] : MoveOf(take, moved, dst, c)
  BY <1>1, MoveEffect
<1>3. PICK dst \in [moved -> LotIds \ moved] : MoveOf(take, moved, dst, c)
  BY <1>2
<1>4. /\ lots[k] \in Lot /\ lots[k].rem \in Nat /\ gone[l] \in Gone /\ gone[l].moved \in Nat
      /\ take[l] \in Nat /\ take[k] \in Nat
  BY DEF LedgerInv, TypeOK, Lot, Gone
<1>5. take[l] > 0
  <2> DEFINE n == gone[l].moved + take[l]
  <2>1. gone'[l] = [gone[l] EXCEPT !.moved = n]
    BY <1>3 DEF MoveOf
  <2> HIDE DEF n
  <2>2. gone'[l].moved = n
    BY <1>4, <2>1 DEF Gone
  <2> QED
    BY <1>4, <2>2 DEF Moved, n
<1>6. take[k] = lots[k].rem
  BY <1>3, <1>5 DEF MoveOf
<1>7. CASE k \in moved
  <2>1. lots'[k] = [lots[k] EXCEPT !.rem = @ - take[k]]
    BY <1>3, <1>7 DEF MoveOf
  <2>2. lots'[k].rem = lots[k].rem - take[k]
    BY <1>4, <2>1 DEF Lot
  <2> QED
    BY <1>4, <1>6, <2>2
<1>8. CASE k \notin moved
  <2>1. \A t \in moved : dst[t] # k
    BY <1>3 DEF MoveOf
  <2>2. lots'[k] = lots[k] /\ take[k] = 0
    BY <1>3, <1>8, <2>1 DEF MoveOf
  <2> QED
    BY <1>6, <2>2
<1> QED
  BY <1>7, <1>8

(* However many lots there are: moving ESPP shares empties every older lot *)
(* of the plan before it takes from a younger one.                         *)
THEOREM MovesOldestFirst == Spec => TransferOldestFirst
<1>1. LedgerInv /\ [Next]_vars =>
        [\A l, k \in LotIds :
           (Moved(l) > 0 /\ Live(k) /\ lots[k].scheme = "ESPP" /\ Older(acqOf, k, l))
             => lots'[k].rem = 0]_vars
  BY TransferOrderStep
<1> QED
  BY <1>1, InitLedger, NextKeeps, PTL DEF Spec, TransferOldestFirst

(* Same-day acquisitions first, then the pool, oldest first.               *)
LEMMA UkOldestFirst ==
  ASSUME NEW S \in SUBSET LotIds, NEW rem \in [LotIds -> Nat], NEW acq \in [LotIds -> Nat],
         NEW d \in Nat, NEW q \in Int, NEW k \in S, NEW l \in LotIds, acq[l] < d,
         acq[k] = d \/ Older(acq, k, l), UkTake(S, rem, acq, d, q)[l] > 0
  PROVE  UkTake(S, rem, acq, d, q)[k] = rem[k]
<1> DEFINE same == SameDay(S, acq, d)
           pool == Pool(S, acq, d)
           ofday == Shares(same, rem)
           early(x) == {j \in same : Older(acq, j, x)}
           before(x) == {j \in pool : Older(acq, j, x)}
           take == UkTake(S, rem, acq, d, q)
<1>1. acq[l] \in Nat /\ acq[k] \in Nat /\ rem[l] \in Nat /\ rem[k] \in Nat
  OBVIOUS
<1>2. l \notin same
  BY <1>1 DEF SameDay
<1>3. take[l] = IF l \in pool THEN Filled(ofday + Shares(before(l), rem), rem[l], q) ELSE 0
  BY <1>2 DEF UkTake
<1>4. l \in pool /\ Filled(ofday + Shares(before(l), rem), rem[l], q) > 0
  BY <1>3
<1>5. same \in SUBSET LotIds /\ before(l) \in SUBSET LotIds /\ before(k) \in SUBSET LotIds
  BY DEF SameDay, Pool
<1>6. ofday \in Nat /\ Shares(before(l), rem) \in Nat
  <2>1. IsFiniteSet(same) /\ IsFiniteSet(before(l))
    BY <1>5, LotIdsAssumption, FS_Subset
  <2>2. \A x \in same : rem[x] \in Nat
    BY <1>5
  <2>3. \A x \in before(l) : rem[x] \in Nat
    BY <1>5
  <2> HIDE DEF same, before
  <2> QED
    BY <2>1, <2>2, <2>3, SumNat DEF Shares
<1> DEFINE al == ofday + Shares(before(l), rem)
<1>7. al \in Int /\ ofday <= al /\ al < q
  <2>1. al \in Int /\ ofday <= al /\ Filled(al, rem[l], q) > 0
    BY <1>4, <1>6
  <2> HIDE DEF al
  <2> QED
    BY <1>1, <2>1, FilledSome
<1>8. CASE k \in same
  <2>1. take[k] = Filled(Shares(early(k), rem), rem[k], q)
    BY <1>1, <1>8 DEF UkTake, SameDay, Pool
  <2>2. early(k) \in SUBSET same /\ k \notin early(k)
    BY NotOlderThanItself
  <2> HIDE DEF same, early
  <2>3. /\ Shares(early(k), rem) \in Nat
        /\ Shares(early(k), rem) + rem[k] <= ofday
    BY <1>5, <1>8, <2>2, SharesWithin
  <2> DEFINE ak == Shares(early(k), rem)
  <2>4. ak \in Int /\ ak + rem[k] <= q
    BY <1>1, <1>6, <1>7, <2>3
  <2> HIDE DEF ak
  <2>5. Filled(ak, rem[k], q) = rem[k]
    BY <1>1, <2>4, FilledFull
  <2> QED
    BY <2>1, <2>5 DEF ak
<1>9. CASE k \notin same
  <2>1. k \in pool /\ Older(acq, k, l)
    BY <1>1, <1>9 DEF SameDay, Pool, Older
  <2>2. take[k] = Filled(ofday + Shares(before(k), rem), rem[k], q)
    BY <1>9, <2>1 DEF UkTake
  <2>3. before(k) \in SUBSET before(l) /\ k \in before(l) /\ k \notin before(k)
    BY <1>5, <2>1, OlderThanOlder, NotOlderThanItself DEF Pool
  <2> HIDE DEF before, pool, same
  <2>4. /\ Shares(before(k), rem) \in Nat
        /\ Shares(before(k), rem) + rem[k] <= Shares(before(l), rem)
    BY <1>5, <2>3, SharesWithin
  <2> DEFINE ak == ofday + Shares(before(k), rem)
  <2>5. ak \in Int /\ ak + rem[k] <= q
    BY <1>1, <1>6, <1>7, <2>4
  <2> HIDE DEF ak
  <2>6. Filled(ak, rem[k], q) = rem[k]
    BY <1>1, <2>5, FilledFull
  <2> QED
    BY <2>2, <2>6 DEF ak
<1> QED
  BY <1>8, <1>9

(* Nothing is taken from a lot acquired after the sale.                    *)
LEMMA UkNeverLater ==
  ASSUME NEW S, NEW rem \in [LotIds -> Nat], NEW acq \in [LotIds -> Nat],
         NEW d \in Nat, NEW q, NEW l \in LotIds, UkTake(S, rem, acq, d, q)[l] > 0
  PROVE  acq[l] <= d
<1>1. l \in SameDay(S, acq, d) \/ l \in Pool(S, acq, d)
  BY DEF UkTake
<1> QED
  BY <1>1 DEF SameDay, Pool

LEMMA SaleOrderStep ==
  ASSUME LedgerInv, [Next]_vars, NEW d \in Days, SaleDay(d), NEW l \in LotIds, Sold(l) > 0
  PROVE  /\ lots[l].acq <= d /\ Sellable(l, d)
         /\ \A k \in LotIds :
              (/\ Live(k) /\ lots[k].scheme = lots[l].scheme /\ Sellable(k, d)
               /\ lots[l].acq < d
               /\ lots[k].acq = d \/ Older(acqOf, k, l))
              => lots'[k].rem = 0
<1>1. PICK q \in Quantities, scheme \in Schemes \cup {Nothing}, t \in Days :
        CommitDisposal(q, t, scheme)
  BY OnlyDisposalsSell
<1> DEFINE pick == {j \in ActiveOf(scheme) : Sellable(j, d)}
<1>2. PICK take \in [LotIds -> Nat], lost \in SUBSET LotIds :
        /\ SaleOf(take, lost, t)
        /\ take = UkTake({j \in ActiveOf(scheme) : Sellable(j, t)}, remOf, acqOf, t, q)
  BY <1>1, SaleEffect
<1>3. d = t
  BY <1>2, DayOfSale
<1>4. SaleOf(take, lost, d) /\ take = UkTake(pick, remOf, acqOf, d, q)
  BY <1>2, <1>3
<1>5. take[l] > 0
  BY <1>4, SoldIsTaken
<1>6. /\ remOf \in [LotIds -> Nat] /\ acqOf \in [LotIds -> Nat]
      /\ \A k \in LotIds : /\ lots[k] \in Lot /\ lots[k].rem \in Nat
                           /\ remOf[k] = lots[k].rem /\ acqOf[k] = lots[k].acq
      /\ d \in Nat /\ q \in Int
  BY SizesAssumption DEF LedgerInv, TypeOK, Lot, remOf, acqOf, Days
<1>7. pick \in SUBSET LotIds /\ l \in pick
  <2>1. pick \in SUBSET LotIds
    BY DEF ActiveOf
  <2>2. remOf \in [LotIds -> Nat]
    BY <1>6
  <2> HIDE DEF pick
  <2>3. \A j \in LotIds \ pick : UkTake(pick, remOf, acqOf, d, q)[j] = 0
    BY <2>2, UkTakeBounds
  <2> QED
    BY <1>4, <1>5, <2>1, <2>3
<1>8. lots[l].acq <= d /\ Sellable(l, d)
  <2>1. acqOf[l] <= d
    <3> HIDE DEF pick
    <3> QED
      BY <1>4, <1>5, <1>6, UkNeverLater
  <2>2. Sellable(l, d)
    BY <1>7
  <2> QED
    BY <1>6, <2>1, <2>2
<1>9. ASSUME NEW k \in LotIds, Live(k), lots[k].scheme = lots[l].scheme, Sellable(k, d),
             lots[l].acq < d, lots[k].acq = d \/ Older(acqOf, k, l)
      PROVE  lots'[k].rem = 0
  <2>1. Active(k) => k \in pick
    BY <1>7, <1>9 DEF ActiveOf
  <2>2. /\ take[k] <= lots[k].rem
        /\ lots'[k] = [lots[k] EXCEPT !.rem = IF k \in lost THEN 0 ELSE lots[k].rem - take[k]]
    BY <1>4 DEF SaleOf
  <2>3. take[k] = lots[k].rem
    <3>1. CASE k \in pick
      <4>1. acqOf[l] < d /\ (acqOf[k] = d \/ Older(acqOf, k, l))
        BY <1>6, <1>9
      <4> HIDE DEF pick
      <4>2. UkTake(pick, remOf, acqOf, d, q)[k] = remOf[k]
        BY <1>4, <1>5, <1>6, <1>7, <3>1, <4>1, UkOldestFirst
      <4> QED
        BY <1>4, <1>6, <4>2
    <3>2. CASE k \notin pick
      <4>1. lots[k].rem = 0 /\ take[k] \in Nat
        BY <1>6, <2>1, <3>2 DEF Active
      <4> QED
        BY <2>2, <4>1
    <3> QED
      BY <3>1, <3>2
  <2>4. lots'[k].rem = IF k \in lost THEN 0 ELSE lots[k].rem - take[k]
    BY <1>6, <2>2 DEF Lot
  <2> QED
    BY <1>6, <2>3, <2>4
<1> QED
  BY <1>8, <1>9

(* UK share identification holds of every disposal of every history of     *)
(* lots, in whatever order its dates are entered.                          *)
THEOREM SalesAreIdentified == Spec => SaleIdentification
<1>1. LedgerInv /\ [Next]_vars =>
        [\A d \in Days : SaleDay(d) =>
           \A l \in LotIds : Sold(l) > 0 =>
             /\ lots[l].acq <= d /\ Sellable(l, d)
             /\ \A k \in LotIds :
                  (/\ Live(k) /\ lots[k].scheme = lots[l].scheme /\ Sellable(k, d)
                   /\ lots[l].acq < d
                   /\ lots[k].acq = d \/ Older(acqOf, k, l))
                  => lots'[k].rem = 0]_vars
  BY SaleOrderStep
<1> QED
  BY <1>1, InitLedger, NextKeeps, PTL DEF Spec, SaleIdentification

-----------------------------------------------------------------------------
(* What was held on an ex-date                                             *)

(* The history of a lot begins with the lot.                               *)
UnusedUntouched ==
  \A l \in LotIds : ~Live(l) =>
    /\ \A d \in Days : sold[l][d] = 0
    /\ \A e \in transferEvents : e.src # l /\ e.dst # l

HistoryInv == LedgerInv /\ IsFiniteSet(transferEvents) /\ UnusedUntouched

(* What a step must show: lots stay in the table, and what is written is   *)
(* about lots of the table.                                                *)
LEMMA StepKeepsHistory ==
  ASSUME HistoryInv, NEW new, IsFiniteSet(new),
         transferEvents' \subseteq transferEvents \cup new,
         \A l \in LotIds : ~Live(l)' =>
           /\ ~Live(l) /\ \A d \in Days : sold'[l][d] = sold[l][d]
           /\ \A e \in new : e.src # l /\ e.dst # l
  PROVE  IsFiniteSet(transferEvents)' /\ UnusedUntouched'
<1>1. IsFiniteSet(transferEvents)'
  <2>1. IsFiniteSet(transferEvents \cup new)
    BY FS_Union DEF HistoryInv
  <2> QED
    BY <2>1, FS_Subset
<1>2. UnusedUntouched'
  BY DEF HistoryInv, UnusedUntouched
<1> QED
  BY <1>1, <1>2

(* A move, with the events it may write.                                   *)
LEMMA MoveEvents ==
  ASSUME NEW take, NEW moved \in SUBSET LotIds, NEW dst
  PROVE  IsFiniteSet(MoveRows(take, moved, dst))
<1> DEFINE event == [s \in moved |-> [src |-> s, dst |-> dst[s], from |-> "ESPP",
                                      date |-> today, qty |-> take[s]]]
           events == MoveRows(take, moved, dst)
<1>1. event \in [moved -> events] /\ \A e \in events : \E s \in moved : event[s] = e
  BY DEF MoveRows
<1> HIDE DEF event, events
<1>2. event \in Surjection(moved, events)
  BY <1>1 DEF Surjection
<1>3. IsFiniteSet(moved)
  BY LotIdsAssumption, FS_Subset
<1>4. IsFiniteSet(events)
  BY <1>2, <1>3, FS_Surjection
<1> QED
  BY <1>4 DEF events

(* What an ESPP move leaves of each lot.                                   *)
LEMMA MoveKeepsLots ==
  ASSUME LedgerInv, NEW take \in [LotIds -> Nat], NEW moved \in SUBSET LotIds,
         NEW c \in Currencies, NEW dst \in [moved -> LotIds \ moved],
         MoveOf(take, moved, dst, c)
  PROVE  /\ \A s \in moved : /\ Live(s) /\ lots'[s].scheme = lots[s].scheme
                             /\ lots'[s].acq = lots[s].acq
                             /\ lots'[s].rem = lots[s].rem - take[s]
         /\ \A s \in moved : /\ lots'[dst[s]].scheme = "BROKERAGE"
                             /\ lots'[dst[s]].rem = lots[dst[s]].rem + take[s]
                             /\ Live(dst[s]) => lots'[dst[s]].acq = lots[dst[s]].acq
                             /\ ~Live(dst[s]) => lots[dst[s]].rem = 0
         /\ \A k \in LotIds \ moved : (\A s \in moved : dst[s] # k) => lots'[k] = lots[k]
<1>1. \A k \in LotIds : lots[k] \in Lot
  BY DEF LedgerInv, TypeOK
<1>2. ASSUME NEW s \in moved
      PROVE  /\ Live(s) /\ lots'[s].scheme = lots[s].scheme /\ lots'[s].acq = lots[s].acq
             /\ lots'[s].rem = lots[s].rem - take[s]
  <2>1. lots'[s] = [lots[s] EXCEPT !.rem = @ - take[s]] /\ lots[s].scheme = "ESPP"
    BY DEF MoveOf
  <2> QED
    BY <1>1, <2>1 DEF Lot, Live
<1>3. ASSUME NEW s \in moved
      PROVE  /\ lots'[dst[s]].scheme = "BROKERAGE"
             /\ lots'[dst[s]].rem = lots[dst[s]].rem + take[s]
             /\ Live(dst[s]) => lots'[dst[s]].acq = lots[dst[s]].acq
             /\ ~Live(dst[s]) => lots[dst[s]].rem = 0
  <2> DEFINE k == dst[s]
  <2>1. k \in LotIds /\ lots[k] \in Lot /\ take[s] \in Nat
    BY <1>1
  <2>2. CASE Live(k)
    <3>1. /\ lots'[k] = [lots[k] EXCEPT !.qty = @ + take[s], !.rem = @ + take[s], !.ccy = c]
          /\ lots[k].scheme = "BROKERAGE"
      BY <2>2 DEF MoveOf
    <3> HIDE DEF k
    <3>2. /\ lots'[k].scheme = "BROKERAGE" /\ lots'[k].rem = lots[k].rem + take[s]
          /\ lots'[k].acq = lots[k].acq
      BY <2>1, <3>1 DEF Lot
    <3> QED
      BY <2>2, <3>2 DEF k
  <2>3. CASE ~Live(k)
    <3>1. lots'[k] = [NewLot("BROKERAGE", lots[s].acq, take[s], c) EXCEPT !.origin = s]
      BY <2>3 DEF MoveOf
    <3>2. lots[k].rem = 0
      BY <2>1, <2>3 DEF LedgerInv, FreeUntouched
    <3> HIDE DEF k
    <3>3. lots'[k].scheme = "BROKERAGE" /\ lots'[k].rem = take[s]
      BY <3>1 DEF NewLot, Absent
    <3>4. lots'[k].rem = lots[k].rem + take[s]
      BY <2>1, <3>2, <3>3
    <3> QED
      BY <2>3, <3>2, <3>3, <3>4 DEF k
  <2> QED
    BY <2>2, <2>3
<1>4. \A k \in LotIds \ moved : (\A s \in moved : dst[s] # k) => lots'[k] = lots[k]
  BY DEF MoveOf
<1> QED
  BY <1>2, <1>3, <1>4

LEMMA NextHistory == HistoryInv /\ [Next]_vars => HistoryInv'
<1> SUFFICES ASSUME HistoryInv, [Next]_vars
             PROVE  IsFiniteSet(transferEvents)' /\ UnusedUntouched'
  BY NextKeeps DEF HistoryInv
<1>1. /\ lots \in [LotIds -> Lot] /\ sold \in [LotIds -> [Days -> Nat]] /\ LedgerInv
  BY DEF HistoryInv, LedgerInv, TypeOK
<1>2. ASSUME UNCHANGED <<sold, transferEvents>>, \A l \in LotIds : ~Live(l)' => ~Live(l)
      PROVE  IsFiniteSet(transferEvents)' /\ UnusedUntouched'
  <2>1. IsFiniteSet({})
    BY FS_EmptySet
  <2> QED
    BY <1>2, <2>1, StepKeepsHistory
<1>3. CASE NextDay
  BY <1>2, <1>3 DEF NextDay, Live
<1>4. CASE UNCHANGED vars
  BY <1>2, <1>4 DEF vars, Live
<1>5. ASSUME NEW l \in LotIds, NEW d \in Days, NEW q \in Quantities, NEW c \in Currencies,
             NEW scheme \in Acquirable, AddLot(l, scheme, d, q, c)
      PROVE  IsFiniteSet(transferEvents)' /\ UnusedUntouched'
  <2>1. NewLot(scheme, d, q, c).scheme = scheme /\ scheme # "NONE"
    BY SizesAssumption DEF NewLot, Absent
  <2> QED
    BY <1>1, <1>2, <1>5, <2>1 DEF AddLot, Live
<1>6. ASSUME NEW l \in LotIds, NEW d \in Days, NEW q \in Quantities, NEW c \in Currencies,
             NEW m \in LotIds, NEW qm \in Quantities, AddEsppPlusPair(l, m, d, q, qm, c)
      PROVE  IsFiniteSet(transferEvents)' /\ UnusedUntouched'
  <2> DEFINE x == NewLot("ESPP_PLUS", d, q, c)
             y == [NewLot("ESPP_PLUS", d, qm, c) EXCEPT !.match = l, !.end = d + Window]
  <2>1. x.scheme = "ESPP_PLUS" /\ y.scheme = "ESPP_PLUS"
    BY DEF NewLot, Absent
  <2>2. lots' = [lots EXCEPT ![l] = x, ![m] = y] /\ UNCHANGED <<sold, transferEvents>>
    BY <1>6 DEF AddEsppPlusPair
  <2> HIDE DEF x, y
  <2> QED
    BY <1>1, <1>2, <2>1, <2>2 DEF Live
<1>7. ASSUME NEW l \in LotIds, NEW d \in Days, NEW q \in Quantities,
             NEW c \in Currencies \cup {Nothing}, EditLot(l, d, q, c)
      PROVE  IsFiniteSet(transferEvents)' /\ UnusedUntouched'
  <2>1. \A k \in LotIds \ {l} : lots'[k] = lots[k]
    BY <1>1, <1>7 DEF EditLot
  <2>2. Live(l) /\ UNCHANGED <<sold, transferEvents>>
    BY <1>7 DEF EditLot
  <2>3. Live(l)'
    <3> DEFINE r == CorrectedRemaining(l, q)
               new == [lots[l] EXCEPT !.acq = d, !.qty = q, !.rem = r,
                                      !.ccy = IF c = Nothing THEN @ ELSE c]
    <3>1. lots'[l] = new
      BY <1>1, <1>7 DEF EditLot
    <3> HIDE DEF r
    <3>2. new.scheme = lots[l].scheme
      BY <1>1 DEF Lot
    <3> QED
      BY <2>2, <3>1, <3>2 DEF Live
  <2> QED
    BY <1>2, <2>1, <2>2, <2>3 DEF Live
<1>8. ASSUME NEW l \in LotIds, NEW c \in Currencies \cup {Nothing}, FullTransfer(l, c)
      PROVE  IsFiniteSet(transferEvents)' /\ UnusedUntouched'
  <2> DEFINE event == [src |-> l, dst |-> l, from |-> lots[l].scheme,
                       date |-> today, qty |-> lots[l].rem]
             lost  == IF lots[l].scheme = "ESPP_PLUS" THEN Forfeitable({l}, today) ELSE {}
  <2>1. IsFiniteSet({event})
    BY FS_Singleton
  <2>2. transferEvents' \subseteq transferEvents \cup {event} /\ sold' = sold
    BY <1>8 DEF FullTransfer, RecordTransfer
  <2>3. Live(l) /\ l \notin lost
    BY <1>8 DEF FullTransfer, Live, Forfeitable
  <2>4. ASSUME NEW k \in LotIds, ~Live(k)' PROVE k # l /\ ~Live(k)
    <3>1. CASE k = l
      <4>1. lots'[k] = [lots[l] EXCEPT !.scheme = "BROKERAGE",
                                       !.ccy = IF c = Nothing THEN @ ELSE c]
        BY <1>8, <2>3, <3>1 DEF FullTransfer
      <4>2. lots'[k].scheme = "BROKERAGE"
        BY <1>1, <4>1 DEF Lot
      <4> QED
        BY <2>4, <4>2 DEF Live
    <3>2. CASE k # l
      <4>1. lots'[k] \in {lots[k], [lots[k] EXCEPT !.rem = 0]}
        BY <1>8, <3>2 DEF FullTransfer
      <4>2. lots'[k].scheme = lots[k].scheme
        BY <1>1, <4>1 DEF Lot
      <4> QED
        BY <2>4, <3>2, <4>2 DEF Live
    <3> QED
      BY <3>1, <3>2
  <2>5. event.src = l /\ event.dst = l
    OBVIOUS
  <2> HIDE DEF event, lost
  <2> QED
    BY <2>1, <2>2, <2>4, <2>5, StepKeepsHistory
<1>9. ASSUME NEW l \in LotIds, NEW ccy \in Currencies \cup {Nothing},
             NEW q \in Requests \cup {AllShares}, EsppTransfer(l, q, ccy)
      PROVE  IsFiniteSet(transferEvents)' /\ UnusedUntouched'
  <2>1. PICK take \in [LotIds -> Nat], moved \in SUBSET LotIds, c \in Currencies :
          \E dst \in [moved -> LotIds \ moved] : MoveOf(take, moved, dst, c)
    BY <1>1, <1>9, MoveEffect
  <2>2. PICK dst \in [moved -> LotIds \ moved] : MoveOf(take, moved, dst, c)
    BY <2>1
  <2> DEFINE new == MoveRows(take, moved, dst)
  <2>3. IsFiniteSet(new)
    BY MoveEvents
  <2>4. transferEvents' \subseteq transferEvents \cup new /\ sold' = sold
    BY <2>2 DEF MoveOf, RecordTransfer
  <2>5. \A e \in new : \E s \in moved : e.src = s /\ e.dst = dst[s]
    BY DEF MoveRows
  <2> HIDE DEF new
  <2>6. ASSUME NEW k \in LotIds, ~Live(k)'
        PROVE  ~Live(k) /\ k \notin moved /\ \A s \in moved : dst[s] # k
    <3>1. /\ \A s \in moved : Live(s) /\ lots'[s].scheme = lots[s].scheme
          /\ \A s \in moved : lots'[dst[s]].scheme = "BROKERAGE"
          /\ \A j \in LotIds \ moved : (\A s \in moved : dst[s] # j) => lots'[j] = lots[j]
      <4>1. LedgerInv
        BY <1>1
      <4>2. /\ \A s \in moved : /\ Live(s) /\ lots'[s].scheme = lots[s].scheme
                                /\ lots'[s].acq = lots[s].acq
                                /\ lots'[s].rem = lots[s].rem - take[s]
            /\ \A s \in moved : /\ lots'[dst[s]].scheme = "BROKERAGE"
                                /\ lots'[dst[s]].rem = lots[dst[s]].rem + take[s]
                                /\ Live(dst[s]) => lots'[dst[s]].acq = lots[dst[s]].acq
                                /\ ~Live(dst[s]) => lots[dst[s]].rem = 0
            /\ \A j \in LotIds \ moved : (\A s \in moved : dst[s] # j) => lots'[j] = lots[j]
        BY <2>2, <4>1, MoveKeepsLots
      <4> QED
        BY <4>2
    <3>2. k \notin moved /\ \A s \in moved : dst[s] # k
      BY <2>6, <3>1 DEF Live
    <3> QED
      BY <2>6, <3>1, <3>2 DEF Live
  <2>7. \A k \in LotIds : ~Live(k)' =>
          /\ ~Live(k) /\ \A d \in Days : sold'[k][d] = sold[k][d]
          /\ \A e \in new : e.src # k /\ e.dst # k
    BY <2>4, <2>5, <2>6
  <2> QED
    BY <2>3, <2>4, <2>7, StepKeepsHistory
<1>10. ASSUME NEW q \in Quantities, NEW d \in Days,
              NEW scheme \in Schemes \cup {Nothing}, CommitDisposal(q, d, scheme)
       PROVE  IsFiniteSet(transferEvents)' /\ UnusedUntouched'
  <2>1. PICK take \in [LotIds -> Nat], lost \in SUBSET LotIds : SaleOf(take, lost, d)
    BY <1>1, <1>10, SaleEffect
  <2>2. IsFiniteSet({}) /\ transferEvents' = transferEvents
    BY <2>1, FS_EmptySet DEF SaleOf
  <2>3. ASSUME NEW k \in LotIds, ~Live(k)'
        PROVE  ~Live(k) /\ \A t \in Days : sold'[k][t] = sold[k][t]
    <3>1. lots'[k] = [lots[k] EXCEPT !.rem = IF k \in lost THEN 0 ELSE lots[k].rem - take[k]]
      BY <2>1 DEF SaleOf
    <3>2. lots'[k].scheme = lots[k].scheme
      BY <1>1, <3>1 DEF Lot
    <3>3. ~Live(k)
      BY <2>3, <3>2 DEF Live
    <3>4. take[k] = 0 /\ sold'[k] = [sold[k] EXCEPT ![d] = @ + take[k]]
      <4>1. (take[k] > 0 => Live(k)) /\ sold'[k] = DisposalRow(k, d, take[k])
        BY <2>1 DEF SaleOf
      <4>2. take[k] \in Nat
        OBVIOUS
      <4> QED
        BY <3>3, <4>1, <4>2 DEF DisposalRow
    <3>5. \A t \in Days : sold'[k][t] = sold[k][t]
      BY <1>1, <3>4
    <3> QED
      BY <3>3, <3>5
  <2> QED
    BY <2>2, <2>3, StepKeepsHistory
<1> QED
  BY <1>3, <1>4, <1>5, <1>6, <1>7, <1>8, <1>9, <1>10 DEF Next

LEMMA InitHistory == Init => HistoryInv
<1> SUFFICES ASSUME Init PROVE HistoryInv
  OBVIOUS
<1>1. IsFiniteSet(transferEvents)
  BY FS_EmptySet DEF Init
<1> QED
  BY <1>1, InitLedger DEF Init, HistoryInv, UnusedUntouched

(* The sales of a lot after a day, and the sale that is written.           *)
LEMMA SaleSoldAfter ==
  ASSUME LedgerInv, NEW take \in [LotIds -> Nat], NEW lost, NEW t \in Days,
         SaleOf(take, lost, t), NEW l \in LotIds, NEW d \in Days
  PROVE  /\ SoldAfter(l, d) \in Nat
         /\ SoldAfter(l, d)' = IF t > d THEN SoldAfter(l, d) + take[l] ELSE SoldAfter(l, d)
<1> DEFINE D == {x \in Days : x > d}
           f == sold[l]
           g == sold'[l]
<1>1. IsFiniteSet(D)
  <2>1. IsFiniteSet(Days)
    BY SizesAssumption, FS_Interval DEF Days
  <2> QED
    BY <2>1, FS_Subset
<1>2. f \in [Days -> Nat] /\ take[l] \in Nat /\ g = [f EXCEPT ![t] = f[t] + take[l]]
  BY DEF LedgerInv, TypeOK, SaleOf, DisposalRow
<1>3. D \subseteq Days /\ (t \in D <=> t > d)
  OBVIOUS
<1>4. SoldAfter(l, d) = SumFunctionOnSet(f, D) /\ SoldAfter(l, d)' = SumFunctionOnSet(g, D)
  BY DEF SoldAfter
<1> HIDE DEF D, f, g
<1>5. SumFunctionOnSet(f, D) \in Nat
  BY <1>1, <1>2, <1>3, SumNat
<1>6. CASE t > d
  <2>1. \A y \in D : f[y] \in Int /\ g[y] \in Int /\ (y # t => g[y] = f[y])
    BY <1>2, <1>3
  <2>2. SumFunctionOnSet(g, D) = SumFunctionOnSet(f, D) - f[t] + g[t]
    BY <1>1, <1>3, <1>6, <2>1, SumOfChange
  <2>3. f[t] \in Nat /\ g[t] = f[t] + take[l]
    BY <1>2
  <2>4. SumFunctionOnSet(g, D) = SumFunctionOnSet(f, D) + take[l]
    <3>1. \A a, b, n \in Int : a - b + (b + n) = a + n
      OBVIOUS
    <3> QED
      BY <1>2, <1>5, <2>2, <2>3, <3>1
  <2> QED
    BY <1>4, <1>5, <1>6, <2>4
<1>7. CASE ~(t > d)
  <2>1. \A y \in D : f[y] = g[y]
    BY <1>2, <1>3, <1>7
  <2>2. SumFunctionOnSet(f, D) = SumFunctionOnSet(g, D)
    BY <1>1, <2>1, SumEqual
  <2> QED
    BY <1>4, <1>5, <1>7, <2>2
<1> QED
  BY <1>6, <1>7

(* A lot the sale does not forfeit loses what is sold, and nothing else of *)
(* it changes.                                                             *)
LEMMA SaleOfUnforfeited ==
  ASSUME LedgerInv, NEW take \in [LotIds -> Nat], NEW lost, NEW t \in Days,
         SaleOf(take, lost, t), NEW l \in LotIds, gone'[l].forfeited = gone[l].forfeited
  PROVE  /\ lots'[l].acq = lots[l].acq /\ lots'[l].scheme = lots[l].scheme
         /\ lots[l].rem \in Nat /\ take[l] \in Nat /\ take[l] <= lots[l].rem
         /\ lots'[l].rem = lots[l].rem - take[l]
         /\ take[l] > 0 => Live(l)
<1>1. /\ lots[l] \in Lot /\ lots[l].rem \in Nat /\ gone[l].forfeited \in Nat
      /\ take[l] \in Nat
  BY DEF LedgerInv, TypeOK, Lot, Gone
<1>2. /\ lots'[l] = [lots[l] EXCEPT !.rem = IF l \in lost THEN 0 ELSE lots[l].rem - take[l]]
      /\ gone'[l].forfeited = gone[l].forfeited + IF l \in lost THEN lots[l].rem ELSE 0
      /\ take[l] <= lots[l].rem
      /\ take[l] > 0 => Live(l) /\ l \notin lost
      /\ l \in lost => Active(l)
  BY DEF SaleOf, Forfeitable
<1>3. l \notin lost
  BY <1>1, <1>2 DEF Active
<1>4. lots'[l] = [lots[l] EXCEPT !.rem = lots[l].rem - take[l]]
  BY <1>2, <1>3
<1>5. /\ lots'[l].acq = lots[l].acq /\ lots'[l].scheme = lots[l].scheme
      /\ lots'[l].rem = lots[l].rem - take[l]
  BY <1>1, <1>4 DEF Lot
<1> QED
  BY <1>1, <1>2, <1>5

LEMMA SaleKeepsEarlier ==
  ASSUME LedgerInv, [Next]_vars, NEW t \in Days, SaleDay(t), NEW d \in Days, NEW l \in LotIds,
         d < t, gone'[l].forfeited = gone[l].forfeited
  PROVE  EligibleQuantity(l, d)' = EligibleQuantity(l, d)
<1>1. PICK q \in Quantities, scheme \in Schemes \cup {Nothing}, u \in Days :
        CommitDisposal(q, u, scheme)
  BY OnlyDisposalsSell
<1>2. PICK take \in [LotIds -> Nat], lost \in SUBSET LotIds : SaleOf(take, lost, u)
  BY <1>1, SaleEffect
<1>3. SaleOf(take, lost, t)
  BY <1>2, DayOfSale
<1>4. /\ lots'[l].acq = lots[l].acq /\ lots'[l].scheme = lots[l].scheme
      /\ lots[l].rem \in Nat /\ take[l] \in Nat
      /\ lots'[l].rem = lots[l].rem - take[l]
  BY <1>3, SaleOfUnforfeited
<1>5. SoldAfter(l, d) \in Nat /\ SoldAfter(l, d)' = SoldAfter(l, d) + take[l]
  BY <1>3, SaleSoldAfter DEF Days
<1>6. /\ MovedOutAfter(l, d)' = MovedOutAfter(l, d) /\ MovedInAfter(l, d)' = MovedInAfter(l, d)
  <2>1. transferEvents' = transferEvents
    BY <1>3 DEF SaleOf
  <2> QED
    BY <2>1 DEF MovedOutAfter, MovedInAfter, EventShares
<1>7. lots'[l].rem + SoldAfter(l, d)' = lots[l].rem + SoldAfter(l, d)
  <2>1. \A r, n, s \in Int : (r - n) + (s + n) = r + s
    OBVIOUS
  <2> QED
    BY <1>4, <1>5, <2>1
<1> QED
  BY <1>4, <1>6, <1>7 DEF EligibleQuantity, Live

(* No move counts on an ex-date that lies on or after all of them.         *)
LEMMA NoMovesAfter ==
  ASSUME NEW d \in Days, NEW l \in LotIds, \A e \in transferEvents : ~(e.date > d)
  PROVE  MovedOutAfter(l, d) = 0 /\ MovedInAfter(l, d) = 0
<1>1. EventShares({}) = 0
  BY SumOfNone DEF EventShares
<1>2. /\ {e \in transferEvents : e.src = l /\ e.date > d} = {}
      /\ {e \in transferEvents : e.dst = l /\ e.src # l /\ e.date > d} = {}
  OBVIOUS
<1> QED
  BY <1>1, <1>2 DEF MovedOutAfter, MovedInAfter

LEMMA SaleCounts ==
  ASSUME LedgerInv, [Next]_vars, NEW t \in Days, NEW d \in Days, SaleDay(t), t <= d,
         \A e \in transferEvents : e.date <= d,
         \A l \in LotIds : gone'[l].forfeited = gone[l].forfeited
  PROVE  CountsOn(d)
<1>1. PICK q \in Quantities, scheme \in Schemes \cup {Nothing}, u \in Days :
        CommitDisposal(q, u, scheme)
  BY OnlyDisposalsSell
<1>2. PICK take \in [LotIds -> Nat], lost \in SUBSET LotIds : SaleOf(take, lost, u)
  BY <1>1, SaleEffect
<1>3. SaleOf(take, lost, t)
  BY <1>2, DayOfSale
<1>4. \A l \in LotIds : Sold(l) = take[l]
  BY <1>3, SoldIsTaken
<1>5. transferEvents' = transferEvents /\ \A e \in transferEvents : ~(e.date > d)
  BY <1>3, SizesAssumption DEF SaleOf, LedgerInv, TypeOK, TransferEvent, Days
<1> DEFINE was == [l \in LotIds |-> EligibleQuantity(l, d)]
           now == [l \in LotIds |-> EligibleQuantity(l, d)']
           cut == [l \in LotIds |-> IF lots[l].acq < d THEN Sold(l) ELSE 0]
           E   == {l \in LotIds : lots[l].acq < d}
<1>6. ASSUME NEW l \in LotIds
      PROVE  was[l] = now[l] + cut[l] /\ was[l] \in Int /\ now[l] \in Int /\ cut[l] \in Int
  <2>1. /\ lots'[l].acq = lots[l].acq /\ lots'[l].scheme = lots[l].scheme
        /\ lots[l].rem \in Nat /\ take[l] \in Nat /\ take[l] <= lots[l].rem
        /\ lots'[l].rem = lots[l].rem - take[l]
        /\ take[l] > 0 => Live(l)
    BY <1>3, SaleOfUnforfeited
  <2>2. SoldAfter(l, d) \in Nat /\ SoldAfter(l, d)' = SoldAfter(l, d)
    <3>1. ~(t > d)
      BY DEF Days
    <3> QED
      BY <1>3, <3>1, SaleSoldAfter
  <2>3. /\ MovedOutAfter(l, d) = 0 /\ MovedInAfter(l, d) = 0
        /\ MovedOutAfter(l, d)' = 0 /\ MovedInAfter(l, d)' = 0
    <3>1. MovedOutAfter(l, d) = 0 /\ MovedInAfter(l, d) = 0
      BY <1>5, NoMovesAfter
    <3>2. MovedOutAfter(l, d)' = MovedOutAfter(l, d) /\ MovedInAfter(l, d)' = MovedInAfter(l, d)
      BY <1>5 DEF MovedOutAfter, MovedInAfter, EventShares
    <3> QED
      BY <3>1, <3>2
  <2>4. lots[l].acq \in Nat /\ d \in Nat
    BY SizesAssumption DEF LedgerInv, TypeOK, Lot, Days
  <2>5. cut[l] = IF lots[l].acq < d THEN take[l] ELSE 0
    BY <1>4
  <2> DEFINE s == SoldAfter(l, d)
             r == lots[l].rem
             n == take[l]
  <2>6. CASE lots[l].acq < d /\ Live(l)
    <3>1. was[l] = OrNone(r + s + 0 - 0) /\ now[l] = OrNone((r - n) + s + 0 - 0) /\ cut[l] = n
      <4>1. was[l] = OrNone(lots[l].rem + SoldAfter(l, d) + MovedOutAfter(l, d) - MovedInAfter(l, d))
        BY <2>4, <2>6 DEF EligibleQuantity
      <4>2. now[l] = OrNone(lots'[l].rem + SoldAfter(l, d)' + MovedOutAfter(l, d)' - MovedInAfter(l, d)')
        BY <2>1, <2>4, <2>6 DEF EligibleQuantity, Live
      <4> HIDE DEF was, now, cut
      <4> QED
        BY <2>1, <2>2, <2>3, <2>5, <2>6, <4>1, <4>2
    <3>2. r \in Nat /\ s \in Nat /\ n \in Nat /\ n <= r
      BY <2>1, <2>2
    <3> HIDE DEF was, now, cut, r, s, n
    <3>3. r + s + 0 - 0 = r + s /\ (r - n) + s + 0 - 0 = (r - n) + s
          /\ r + s >= 0 /\ (r - n) + s >= 0 /\ r + s \in Int /\ (r - n) + s \in Int
      BY <3>2
    <3>4. was[l] = r + s /\ now[l] = (r - n) + s
      BY <3>1, <3>3 DEF OrNone
    <3>5. r + s = ((r - n) + s) + n
      BY <3>2
    <3> QED
      BY <3>1, <3>2, <3>3, <3>4, <3>5
  <2>7. CASE ~(lots[l].acq < d /\ Live(l))
    <3>1. was[l] = 0 /\ now[l] = 0
      BY <2>1, <2>4, <2>7 DEF EligibleQuantity, Live
    <3>2. cut[l] = 0
      BY <2>1, <2>5, <2>7
    <3> QED
      BY <3>1, <3>2
  <2> QED
    BY <2>6, <2>7
<1>7. Entitlement(d) = SumFunctionOnSet(was, LotIds) /\ Entitlement(d)' = SumFunctionOnSet(now, LotIds)
  BY DEF Entitlement, OverAll
<1> DEFINE sale == [l \in LotIds |-> Sold(l)]
<1>8. /\ IsFiniteSet(LotIds) /\ E \in SUBSET LotIds /\ IsFiniteSet(E)
      /\ \A l \in LotIds \ E : cut[l] = 0
      /\ \A l \in E : cut[l] = sale[l]
  BY LotIdsAssumption, FS_Subset
<1>9. CountsOn(d) <=> Entitlement(d)' = Entitlement(d) - SumFunctionOnSet(sale, E)
  BY DEF CountsOn
<1> HIDE DEF was, now, cut, sale, E
<1>10. SumFunctionOnSet(was, LotIds) = SumFunctionOnSet(now, LotIds) + SumFunctionOnSet(cut, LotIds)
  BY <1>6, <1>8, SumPlus
<1>11. SumFunctionOnSet(cut, LotIds) = SumFunctionOnSet(sale, E)
  <2>1. SumFunctionOnSet(cut, LotIds) = SumFunctionOnSet(cut, E)
    <3>1. \A l \in LotIds : cut[l] \in Int
      BY <1>6
    <3> QED
      BY <1>8, <3>1, SumOverPart
  <2>2. SumFunctionOnSet(cut, E) = SumFunctionOnSet(sale, E)
    BY <1>8, SumEqual
  <2> QED
    BY <2>1, <2>2
<1>12. SumFunctionOnSet(now, LotIds) \in Int /\ SumFunctionOnSet(cut, LotIds) \in Int
  BY <1>6, <1>8, SumType
<1>13. Entitlement(d)' = Entitlement(d) - SumFunctionOnSet(sale, E)
  <2> DEFINE x == SumFunctionOnSet(now, LotIds)
             y == SumFunctionOnSet(sale, E)
  <2>1. Entitlement(d) = x + y /\ Entitlement(d)' = x /\ x \in Int /\ y \in Int
    BY <1>7, <1>10, <1>11, <1>12
  <2> HIDE DEF x, y
  <2>2. x = (x + y) - y
    BY <2>1
  <2>3. Entitlement(d)' = Entitlement(d) - y
    BY <2>1, <2>2
  <2> QED
    BY <2>3 DEF y
<1> QED
  BY <1>9, <1>13

(* A sale that forfeits nothing counts on every ex-date from its own on,   *)
(* once the moves of shares lie before the ex-date: for any lots, dates    *)
(* and order of entry.                                                     *)
THEOREM SalesCountFromTheirDate == Spec => SaleCountsFromItsDate
<1>1. LedgerInv /\ [Next]_vars =>
        [\A t, d \in Days :
           (/\ SaleDay(t) /\ t <= d
            /\ \A e \in transferEvents : e.date <= d
            /\ \A l \in LotIds : gone'[l].forfeited = gone[l].forfeited)
             => CountsOn(d)]_vars
  BY SaleCounts
<1> QED
  BY <1>1, InitLedger, NextKeeps, PTL DEF Spec, SaleCountsFromItsDate

(* The events of a set, with one more.                                     *)
LEMMA EventsAdded ==
  ASSUME LedgerInv, IsFiniteSet(transferEvents), NEW E \in SUBSET transferEvents, NEW e,
         e \notin transferEvents, e.qty \in Nat
  PROVE  EventShares(E \cup {e}) = EventShares(E) + e.qty /\ EventShares(E) \in Nat
<1> DEFINE U == E \cup {e}
           f == [x \in U |-> x.qty]
           g == [x \in E |-> x.qty]
<1>1. IsFiniteSet(E) /\ e \notin E
  BY FS_Subset
<1>2. \A x \in E : x.qty \in Nat
  BY DEF LedgerInv, TypeOK, TransferEvent
<1>3. EventShares(U) = SumFunctionOnSet(f, U) /\ EventShares(E) = SumFunctionOnSet(g, E)
  BY DEF EventShares
<1>4. /\ \A y \in E \cup {e} : f[y] \in Int
      /\ f[e] = e.qty
      /\ \A x \in E : f[x] = g[x] /\ g[x] \in Nat
  BY <1>2
<1> HIDE DEF f, g
<1>5. SumFunctionOnSet(f, E \cup {e}) = SumFunctionOnSet(f, E) + f[e]
  BY <1>1, <1>4, SumAdd
<1>6. SumFunctionOnSet(f, E) = SumFunctionOnSet(g, E)
  BY <1>1, <1>4, SumEqual
<1>7. SumFunctionOnSet(g, E) \in Nat
  BY <1>1, <1>4, SumNat
<1> QED
  BY <1>3, <1>4, <1>5, <1>6, <1>7

(* Only an ESPP move writes an event between two lots.                     *)
LEMMA OnlyTransfersWrite ==
  ASSUME LedgerInv, [Next]_vars, NEW e \in transferEvents' \ transferEvents, e.src # e.dst
  PROVE  \E s \in LotIds, c \in Currencies \cup {Nothing}, q \in Requests \cup {AllShares} :
           EsppTransfer(s, q, c)
<1>1. ~UNCHANGED transferEvents
  OBVIOUS
<1>2. ~UNCHANGED vars /\ ~NextDay
  BY <1>1 DEF vars, NextDay
<1>3. ~\E k \in LotIds, t \in Days, q \in Quantities, c \in Currencies :
         \/ \E scheme \in Acquirable : AddLot(k, scheme, t, q, c)
         \/ \E m \in LotIds, qm \in Quantities :
              "ESPP_PLUS" \in Acquirable /\ AddEsppPlusPair(k, m, t, q, qm, c)
  BY <1>1 DEF AddLot, AddEsppPlusPair
<1>4. ~\E k \in LotIds, t \in Days, q \in Quantities, c \in Currencies \cup {Nothing} :
         EditLot(k, t, q, c)
  BY <1>1 DEF EditLot
<1>5. ASSUME NEW k \in LotIds, NEW c \in Currencies \cup {Nothing}, FullTransfer(k, c)
      PROVE  FALSE
  <2>1. e = [src |-> k, dst |-> k, from |-> lots[k].scheme,
             date |-> today, qty |-> lots[k].rem]
    BY <1>5 DEF FullTransfer, RecordTransfer
  <2> QED
    BY <2>1
<1>6. ~\E q \in Quantities, d \in Days, scheme \in Schemes \cup {Nothing} :
         CommitDisposal(q, d, scheme)
  BY <1>1 DEF CommitDisposal
<1> QED
  BY <1>2, <1>3, <1>4, <1>5, <1>6 DEF Next

LEMMA MoveKeepsEarlier ==
  ASSUME HistoryInv, [Next]_vars, NEW e \in transferEvents' \ transferEvents, e.src # e.dst,
         NEW d \in Days, d < e.date
  PROVE  /\ EligibleQuantity(e.src, d)' = EligibleQuantity(e.src, d)
         /\ EligibleQuantity(e.dst, d)' = EligibleQuantity(e.dst, d)
<1>1. PICK s0 \in LotIds, ccy \in Currencies \cup {Nothing}, q \in Requests \cup {AllShares} :
        EsppTransfer(s0, q, ccy)
  BY OnlyTransfersWrite DEF HistoryInv
<1>2. PICK take \in [LotIds -> Nat], moved \in SUBSET LotIds, c \in Currencies :
        \E dst \in [moved -> LotIds \ moved] : MoveOf(take, moved, dst, c)
  BY <1>1, MoveEffect DEF HistoryInv
<1>3. PICK dst \in [moved -> LotIds \ moved] : MoveOf(take, moved, dst, c)
  BY <1>2
<1>4. PICK s \in moved : e = [src |-> s, dst |-> dst[s], from |-> "ESPP",
                              date |-> today, qty |-> take[s]]
  BY <1>3 DEF MoveOf, RecordTransfer, MoveRows
<1> DEFINE b == dst[s]
<1>5. e.src = s /\ e.dst = b /\ e.date = today /\ e.qty = take[s]
  BY <1>4
<1>6. /\ \A u, v \in moved : dst[u] = dst[v] => u = v
      /\ transferEvents' = RecordTransfer(MoveRows(take, moved, dst))
      /\ sold' = sold
  BY <1>3 DEF MoveOf
<1>7. \A x \in transferEvents' : x \in transferEvents
        \/ \E u \in moved : x = [src |-> u, dst |-> dst[u], from |-> "ESPP",
                                 date |-> today, qty |-> take[u]]
  BY <1>6 DEF RecordTransfer, MoveRows
<1>8. transferEvents \subseteq transferEvents'
  BY <1>6 DEF RecordTransfer
<1>9. s \in LotIds /\ b \in LotIds /\ b \notin moved /\ take[s] \in Nat /\ LedgerInv
      /\ IsFiniteSet(transferEvents)
  BY DEF HistoryInv
<1>10. /\ Live(s) /\ lots'[s].scheme = lots[s].scheme /\ lots'[s].acq = lots[s].acq
       /\ lots'[s].rem = lots[s].rem - take[s]
       /\ lots'[b].scheme = "BROKERAGE"
       /\ lots'[b].rem = lots[b].rem + take[s]
       /\ Live(b) => lots'[b].acq = lots[b].acq
       /\ ~Live(b) => lots[b].rem = 0
  <2>1. /\ \A u \in moved : /\ Live(u) /\ lots'[u].scheme = lots[u].scheme
                            /\ lots'[u].acq = lots[u].acq
                            /\ lots'[u].rem = lots[u].rem - take[u]
        /\ \A u \in moved : /\ lots'[dst[u]].scheme = "BROKERAGE"
                            /\ lots'[dst[u]].rem = lots[dst[u]].rem + take[u]
                            /\ Live(dst[u]) => lots'[dst[u]].acq = lots[dst[u]].acq
                            /\ ~Live(dst[u]) => lots[dst[u]].rem = 0
        /\ \A k \in LotIds \ moved : (\A u \in moved : dst[u] # k) => lots'[k] = lots[k]
    BY <1>3, <1>9, MoveKeepsLots
  <2> QED
    BY <2>1
<1>11. /\ lots[s].rem \in Nat /\ lots[b].rem \in Nat
       /\ \A l \in LotIds : SoldAfter(l, d) \in Nat /\ SoldAfter(l, d)' = SoldAfter(l, d)
  <2>1. lots[s].rem \in Nat /\ lots[b].rem \in Nat
    BY <1>9 DEF LedgerInv, TypeOK, Lot
  <2>2. ASSUME NEW l \in LotIds PROVE SoldAfter(l, d) \in Nat /\ SoldAfter(l, d)' = SoldAfter(l, d)
    <3> DEFINE D == {t \in Days : t > d}
               f == sold[l]
    <3>1. IsFiniteSet(D) /\ \A t \in D : f[t] \in Nat
      <4>1. IsFiniteSet(Days)
        BY SizesAssumption, FS_Interval DEF Days
      <4>2. \A t \in D : f[t] \in Nat
        BY <1>9 DEF LedgerInv, TypeOK
      <4> QED
        BY <4>1, <4>2, FS_Subset
    <3>2. SoldAfter(l, d) = SumFunctionOnSet(f, D) /\ SoldAfter(l, d)' = SoldAfter(l, d)
      BY <1>6 DEF SoldAfter
    <3> HIDE DEF D, f
    <3>3. SumFunctionOnSet(f, D) \in Nat
      BY <3>1, SumNat
    <3> QED
      BY <3>2, <3>3
  <2> QED
    BY <2>1, <2>2
<1>12. \A l \in LotIds : MovedOutAfter(l, d) \in Nat /\ MovedInAfter(l, d) \in Nat
  <2>1. ASSUME NEW E \in SUBSET transferEvents PROVE EventShares(E) \in Nat
    BY <1>5, <1>9, EventsAdded
  <2> QED
    BY <2>1 DEF MovedOutAfter, MovedInAfter
<1>13. MovedOutAfter(s, d)' = MovedOutAfter(s, d) + take[s]
  <2> DEFINE E == {x \in transferEvents : x.src = s /\ x.date > d}
  <2>1. E \in SUBSET transferEvents /\ e \notin transferEvents /\ e.qty = take[s]
    BY <1>5
  <2>2. {x \in transferEvents' : x.src = s /\ x.date > d} = E \cup {e}
    <3>1. \A x \in transferEvents' : x.src = s => x \in transferEvents \/ x = e
      BY <1>4, <1>7
    <3>2. e.date > d /\ e \in transferEvents'
      BY SizesAssumption, <1>5, <1>9 DEF LedgerInv, TypeOK, Days
    <3> QED
      BY <1>5, <1>8, <3>1, <3>2
  <2>3. MovedOutAfter(s, d) = EventShares(E) /\ MovedOutAfter(s, d)' = EventShares(E \cup {e})
    BY <2>2 DEF MovedOutAfter, EventShares
  <2> HIDE DEF E
  <2> QED
    BY <1>9, <2>1, <2>3, EventsAdded
<1>14. MovedInAfter(s, d)' = MovedInAfter(s, d)
  <2>1. {x \in transferEvents' : x.dst = s /\ x.src # s /\ x.date > d}
          = {x \in transferEvents : x.dst = s /\ x.src # s /\ x.date > d}
    BY <1>7, <1>8
  <2> QED
    BY <2>1 DEF MovedInAfter, EventShares
<1>15. MovedInAfter(b, d)' = MovedInAfter(b, d) + take[s]
  <2> DEFINE E == {x \in transferEvents : x.dst = b /\ x.src # b /\ x.date > d}
  <2>1. E \in SUBSET transferEvents /\ e \notin transferEvents /\ e.qty = take[s]
    BY <1>5
  <2>2. {x \in transferEvents' : x.dst = b /\ x.src # b /\ x.date > d} = E \cup {e}
    <3>1. \A x \in transferEvents' : x.dst = b => x \in transferEvents \/ x = e
      BY <1>4, <1>6, <1>7
    <3>2. e.date > d /\ e \in transferEvents' /\ e.src # b
      BY SizesAssumption, <1>5, <1>9 DEF LedgerInv, TypeOK, Days
    <3> QED
      BY <1>5, <1>8, <3>1, <3>2
  <2>3. MovedInAfter(b, d) = EventShares(E) /\ MovedInAfter(b, d)' = EventShares(E \cup {e})
    BY <2>2 DEF MovedInAfter, EventShares
  <2> HIDE DEF E
  <2> QED
    BY <1>9, <2>1, <2>3, EventsAdded
<1>16. MovedOutAfter(b, d)' = MovedOutAfter(b, d)
  <2>1. {x \in transferEvents' : x.src = b /\ x.date > d}
          = {x \in transferEvents : x.src = b /\ x.date > d}
    BY <1>7, <1>8, <1>9
  <2> QED
    BY <2>1 DEF MovedOutAfter, EventShares
<1> HIDE DEF b
<1>17. EligibleQuantity(s, d)' = EligibleQuantity(s, d)
  <2>1. lots'[s].rem + SoldAfter(s, d)' + MovedOutAfter(s, d)' - MovedInAfter(s, d)'
          = lots[s].rem + SoldAfter(s, d) + MovedOutAfter(s, d) - MovedInAfter(s, d)
    <3>1. \A r, n, u, o, i \in Int : (r - n) + u + (o + n) - i = r + u + o - i
      OBVIOUS
    <3>2. lots'[s].rem + SoldAfter(s, d)' + MovedOutAfter(s, d)' - MovedInAfter(s, d)'
            = (lots[s].rem - take[s]) + SoldAfter(s, d) + (MovedOutAfter(s, d) + take[s])
                - MovedInAfter(s, d)
      BY <1>9, <1>10, <1>11, <1>13, <1>14
    <3>3. /\ lots[s].rem \in Int /\ take[s] \in Int /\ SoldAfter(s, d) \in Int
          /\ MovedOutAfter(s, d) \in Int /\ MovedInAfter(s, d) \in Int
      BY <1>9, <1>11, <1>12
    <3> QED
      BY <3>1, <3>2, <3>3
  <2> QED
    BY <1>10, <2>1 DEF EligibleQuantity, Live
<1>18. CASE Live(b)
  <2>1. lots'[b].rem + SoldAfter(b, d)' + MovedOutAfter(b, d)' - MovedInAfter(b, d)'
          = lots[b].rem + SoldAfter(b, d) + MovedOutAfter(b, d) - MovedInAfter(b, d)
    <3>1. \A r, n, u, o, i \in Int : (r + n) + u + o - (i + n) = r + u + o - i
      OBVIOUS
    <3>2. lots'[b].rem + SoldAfter(b, d)' + MovedOutAfter(b, d)' - MovedInAfter(b, d)'
            = (lots[b].rem + take[s]) + SoldAfter(b, d) + MovedOutAfter(b, d)
                - (MovedInAfter(b, d) + take[s])
      BY <1>9, <1>10, <1>11, <1>15, <1>16
    <3>3. /\ lots[b].rem \in Int /\ take[s] \in Int /\ SoldAfter(b, d) \in Int
          /\ MovedOutAfter(b, d) \in Int /\ MovedInAfter(b, d) \in Int
      BY <1>9, <1>11, <1>12
    <3> QED
      BY <3>1, <3>2, <3>3
  <2>2. lots'[b].acq = lots[b].acq /\ lots'[b].scheme # "NONE"
    BY <1>10, <1>18
  <2> QED
    BY <1>5, <1>17, <1>18, <2>1, <2>2 DEF EligibleQuantity, Live
<1>19. CASE ~Live(b)
  <2>1. SoldAfter(b, d) = 0
    <3> DEFINE D == {t \in Days : t > d}
               f == sold[b]
    <3>1. IsFiniteSet(D) /\ \A t \in D : f[t] = 0
      <4>1. IsFiniteSet(Days)
        BY SizesAssumption, FS_Interval DEF Days
      <4>2. \A t \in D : f[t] = 0
        BY <1>9, <1>19 DEF HistoryInv, UnusedUntouched
      <4> QED
        BY <4>1, <4>2, FS_Subset
    <3>2. SoldAfter(b, d) = SumFunctionOnSet(f, D)
      BY DEF SoldAfter
    <3> HIDE DEF D, f
    <3> QED
      BY <3>1, <3>2, SumOfZeros
  <2>2. MovedOutAfter(b, d) = 0 /\ MovedInAfter(b, d) = 0
    <3>1. \A x \in transferEvents : x.src # b /\ x.dst # b
      BY <1>9, <1>19 DEF HistoryInv, UnusedUntouched
    <3>2. /\ {x \in transferEvents : x.src = b /\ x.date > d} = {}
          /\ {x \in transferEvents : x.dst = b /\ x.src # b /\ x.date > d} = {}
      BY <3>1
    <3>3. EventShares({}) = 0
      BY SumOfNone DEF EventShares
    <3> QED
      BY <3>2, <3>3 DEF MovedOutAfter, MovedInAfter
  <2>3. lots'[b].rem + SoldAfter(b, d)' + MovedOutAfter(b, d)' - MovedInAfter(b, d)' = 0
    <3>1. \A n \in Int : (0 + n) + 0 + 0 - (0 + n) = 0
      OBVIOUS
    <3>2. lots'[b].rem + SoldAfter(b, d)' + MovedOutAfter(b, d)' - MovedInAfter(b, d)'
            = (0 + take[s]) + 0 + 0 - (0 + take[s])
      BY <1>9, <1>10, <1>11, <1>15, <1>16, <1>19, <2>1, <2>2
    <3> QED
      BY <1>9, <3>1, <3>2
  <2>4. EligibleQuantity(b, d)' = 0 /\ EligibleQuantity(b, d) = 0
    BY <1>19, <2>3 DEF EligibleQuantity, OrNone
  <2> QED
    BY <1>5, <1>17, <2>4
<1> QED
  BY <1>18, <1>19

(* Neither sales nor moves rewrite the past, in any history of the ledger: *)
(* what was held on an earlier ex-date is read back unchanged.             *)
THEOREM EarlierEntitlementStays == Spec => EarlierEntitlementKept
<1>1. HistoryInv /\ [Next]_vars =>
        [/\ \A t \in Days : SaleDay(t) =>
              \A d \in Days, l \in LotIds :
                (d < t /\ gone'[l].forfeited = gone[l].forfeited)
                  => EligibleQuantity(l, d)' = EligibleQuantity(l, d)
         /\ \A e \in transferEvents' \ transferEvents : e.src # e.dst =>
              \A d \in Days : d < e.date =>
                /\ EligibleQuantity(e.src, d)' = EligibleQuantity(e.src, d)
                /\ EligibleQuantity(e.dst, d)' = EligibleQuantity(e.dst, d)]_vars
  BY SaleKeepsEarlier, MoveKeepsEarlier DEF HistoryInv
<1> QED
  BY <1>1, InitHistory, NextHistory, PTL DEF Spec, EarlierEntitlementKept
=============================================================================
