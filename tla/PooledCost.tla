----------------------------- MODULE PooledCost -----------------------------
(***************************************************************************)
(* The allowable cost of a disposal of the lot ledger, as                  *)
(* allocate_uk_share_matching relieves it: same-day lots at their own      *)
(* price, pool lots at the average price of what the pool lots still hold, *)
(* each line rounded half up to a penny.  The loops are those of the code; *)
(* ShareMatching's closed forms, which the ledger uses, are checked        *)
(* against them here, on the ledger's own lots.                            *)
(***************************************************************************)
EXTENDS LotLedger, Folds

VARIABLE price   \* lot -> acquisition_price_gbp, in pence

Cost(S, left) == SumFunctionOnSet([l \in S |-> left[l] * price[l]], S)

(* _round of num / den pence: two decimals, ROUND_HALF_UP                  *)
RoundHalfUp(num, den) == (2 * num + den) \div (2 * den)

(* The loop over S that comes to `last` of S in the end.                  *)
Loop(step(_, _), start, last(_), S) ==
  MapThenFoldSet(LAMBDA x, st : step(st, x), start, LAMBDA x : x, last, S)

Newest(S) == CHOOSE l \in S : \A k \in S \ {l} : Older(acqOf, k, l)

(* Faulty variant: the cost per share is rounded, not that of the line.    *)
GiveAtRoundedAverage(st, l, num, den) ==
  LET n == IF remOf[l] < st.want THEN remOf[l] ELSE st.want
  IN IF n = 0 THEN st
     ELSE [want  |-> st.want - n,
           take  |-> [st.take EXCEPT ![l] = n],
           cost  |-> st.cost + n * RoundHalfUp(num[l], den),
           lines |-> st.lines + 1]

(* A lot gives what is still wanted of it, and a line is written.          *)
Give(st, l, num, den) ==
  LET n == IF remOf[l] < st.want THEN remOf[l] ELSE st.want
  IN IF n = 0 THEN st
     ELSE [want  |-> st.want - n,
           take  |-> [st.take EXCEPT ![l] = n],
           cost  |-> st.cost + RoundHalfUp(n * num[l], den),
           lines |-> st.lines + 1]

(* One pass over lots, oldest first, giving what is still wanted.          *)
(* num[l] / den is the cost per share of the lines it writes.              *)
Pass(start, S, num, den) == Loop(LAMBDA st, l : Give(st, l, num, den), start, Newest, S)

Wanting(q) == [want |-> q, take |-> [l \in LotIds |-> 0], cost |-> 0, lines |-> 0]

(* allocate_uk_share_matching *)
AllocateUk(S, d, q) ==
  LET active  == {l \in S : remOf[l] > 0}
      same    == SameDay(active, acqOf, d)
      pool    == Pool(active, acqOf, d)
      first   == Pass(Wanting(q), same, price, 1)
      average == [l \in LotIds |-> Cost(pool, remOf)]
  IN IF first.want = 0 \/ pool = {} THEN first
     ELSE Pass(first, pool, average, Shares(pool, remOf))

(* allocate_fifo *)
AllocateFifo(S, q) == Pass(Wanting(q), {l \in S : remOf[l] > 0}, price, 1)

-----------------------------------------------------------------------------
(* What commit_disposal may offer the allocators on day d.                 *)
Offered(d) ==
  {{l \in ActiveOf(scheme) : Sellable(l, d)} : scheme \in Schemes \cup {Nothing}}

(* The closed forms the lot ledger uses give, lot by lot, what the loops   *)
(* of allocate_fifo and allocate_uk_share_matching allocate of the lots    *)
(* that commit_disposal offers them: for every quantity up to one share    *)
(* more than there is.                                                     *)
LoopsAgree ==
  \A d \in Days : \A pick \in Offered(d), q \in 1..(Shares(LotIds, remOf) + 1) :
    /\ AllocateUk(pick, d, q).take = UkTake(pick, remOf, acqOf, d, q)
    /\ (AllocateUk(pick, d, q).want = 0) = UkCovers(pick, remOf, acqOf, d, q)
    /\ AllocateFifo(pick, q).take = FifoTake(pick, remOf, acqOf, q)

(* However a disposal is split into lines, rounding moves its cost by at   *)
(* most half a penny a line from the exact same-day and pooled cost; in    *)
(* particular a disposal of every share relieves what is left to relieve.  *)
DisposalCostExact ==
  \A d \in Days :
    LET all  == SameDay(LotIds, acqOf, d) \cup Pool(LotIds, acqOf, d)
        r    == AllocateUk(LotIds, d, Shares(all, remOf))
        diff == 2 * (r.cost - Cost(all, remOf))
    IN diff <= r.lines /\ -diff <= r.lines
=============================================================================
