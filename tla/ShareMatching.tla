---------------------------- MODULE ShareMatching ----------------------------
(***************************************************************************)
(* The two share-identification algorithms of core/lot_engine, as pure     *)
(* operators over a set S of lot ids and the functions rem (shares left)   *)
(* and acq (acquisition day).  They are stated in closed form: a lot gives *)
(* its k-th share exactly when the shares identified before it leave room  *)
(* for k more.  PooledCost checks the closed forms against the loops the   *)
(* code runs.  Lot ids are naturals, ordered as their UUID text is.        *)
(***************************************************************************)
EXTENDS Integers, FiniteSets, Functions

(* (acquisition_date ASC, id ASC): the order of every active-lot query.    *)
Older(acq, k, l) == acq[k] < acq[l] \/ (acq[k] = acq[l] /\ k < l)

Shares(S, rem) == SumFunctionOnSet(rem, S)

(* Faulty variant: a lot is used up one share too early.                   *)
FilledShort(ahead, have, want) == Cardinality({k \in 1..have : ahead + k < want})

(* How many of a lot's `have` shares are wanted when `ahead` shares are    *)
(* identified before it and `want` are wanted in all.                      *)
Filled(ahead, have, want) == Cardinality({k \in 1..have : ahead + k <= want})

(* Faulty variants: the newest lot first; later lots join the pool.        *)
FifoTakeNewestFirst(S, rem, acq, q) ==
  [l \in DOMAIN rem |->
    IF l \in S
    THEN Filled(Shares({k \in S : Older(acq, l, k)}, rem), rem[l], q)
    ELSE 0]
PoolWithLater(S, acq, d) == {l \in S : acq[l] # d}

(* allocate_fifo: oldest lot first.                                        *)
FifoTake(S, rem, acq, q) ==
  [l \in DOMAIN rem |->
    IF l \in S
    THEN Filled(Shares({k \in S : Older(acq, k, l)}, rem), rem[l], q)
    ELSE 0]

SameDay(S, acq, d) == {l \in S : acq[l] = d}
Pool(S, acq, d)    == {l \in S : acq[l] < d}

(* allocate_uk_share_matching: acquisitions of the disposal day first,     *)
(* then the pool of earlier lots; later lots are never identified.         *)
UkTake(S, rem, acq, d, q) ==
  LET same == SameDay(S, acq, d)
      pool == Pool(S, acq, d)
  IN [l \in DOMAIN rem |->
       CASE l \in same ->
              Filled(Shares({k \in same : Older(acq, k, l)}, rem), rem[l], q)
         [] l \in pool ->
              Filled(Shares(same, rem)
                       + Shares({k \in pool : Older(acq, k, l)}, rem),
                     rem[l], q)
         [] OTHER -> 0]

(* FIFOResult.is_fully_allocated for the UK matcher.                       *)
UkCovers(S, rem, acq, d, q) ==
  Shares(SameDay(S, acq, d) \cup Pool(S, acq, d), rem) >= q
=============================================================================
