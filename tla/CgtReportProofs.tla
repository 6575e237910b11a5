--------------------------- MODULE CgtReportProofs ---------------------------
(***************************************************************************)
(* Proofs about share identification, its costs and the capital gains      *)
(* report over the lot ledger, for any lots, prices, quantities and days   *)
(* and any sequence of additions, corrections, moves and sales: the loops  *)
(* of the allocators give the closed forms the ledger is modelled with,    *)
(* and their pennies are exact up to half a penny a line.  The report,     *)
(* which matches the disposals again by other rules and from the rows as   *)
(* they now are, accounts for the cost of the rows it read; and while no   *)
(* row is re-dated past one of its sales, it finds every share disposed of *)
(* and is left with what the rows hold and what it reads beyond that: the  *)
(* shares moved to another row or forfeited.                               *)
(***************************************************************************)
EXTENDS CgtReport, LotLedgerProofs, SequenceTheorems

-----------------------------------------------------------------------------
(* Loops *)

\* A[s] is what a loop over s comes to when it starts with `start` and the last
\* element of s is last[s].
Computes(A, S, start, step, last) ==
  \A s \in SUBSET S :
    A[s] = IF s = {} THEN start ELSE step[<<A[s \ {last[s]}], last[s]>>]

\* The function a loop is computed by, when each of its steps stays in X.
LEMMA LoopExists ==
  ASSUME NEW S, IsFiniteSet(S), NEW X, NEW start \in X, NEW step \in [X \X S -> X],
         NEW last, \A s \in SUBSET S : s # {} => last[s] \in s
  PROVE  \E A \in [SUBSET S -> X] : Computes(A, S, start, step, last)
<1> DEFINE Eq(A, s) == A[s] = IF s = {} THEN start ELSE step[<<A[s \ {last[s]}], last[s]>>]
           U == {n \in Nat : \E A \in [SUBSET S -> X] :
                               \A s \in SUBSET S : Cardinality(s) <= n => Eq(A, s)}
<1>1. \A s \in SUBSET S : IsFiniteSet(s) /\ Cardinality(s) \in Nat
  BY FS_Subset, FS_CardinalityType
<1>2. 0 \in U
  <2> DEFINE A == [s \in SUBSET S |-> start]
  <2>1. \A s \in SUBSET S : Cardinality(s) <= 0 => s = {}
    <3> SUFFICES ASSUME NEW s \in SUBSET S, Cardinality(s) <= 0 PROVE s = {}
      OBVIOUS
    <3>1. Cardinality(s) = 0
      BY <1>1
    <3> QED
      BY <1>1, <3>1, FS_EmptySet
  <2>2. \A s \in SUBSET S : Cardinality(s) <= 0 => Eq(A, s)
    BY <2>1
  <2> QED
    BY <2>2
<1>3. ASSUME NEW n \in U PROVE n + 1 \in U
  <2>1. PICK A \in [SUBSET S -> X] : \A s \in SUBSET S : Cardinality(s) <= n => Eq(A, s)
    OBVIOUS
  <2> DEFINE B == [s \in SUBSET S |-> IF s = {} THEN start ELSE step[<<A[s \ {last[s]}], last[s]>>]]
  <2>2. \A s \in SUBSET S : Cardinality(s) <= n => B[s] = A[s]
    BY <2>1
  <2>3. ASSUME NEW s \in SUBSET S, Cardinality(s) <= n + 1, s # {}
        PROVE  B[s] = step[<<B[s \ {last[s]}], last[s]>>]
    <3>1. last[s] \in s /\ s \ {last[s]} \in SUBSET S
      BY <2>3
    <3>2. Cardinality(s \ {last[s]}) = Cardinality(s) - 1
      BY <1>1, <3>1, FS_RemoveElement
    <3>3. Cardinality(s \ {last[s]}) <= n
      BY <1>1, <2>3, <3>1, <3>2
    <3>4. B[s \ {last[s]}] = A[s \ {last[s]}]
      BY <2>2, <3>1, <3>3
    <3> QED
      BY <2>3, <3>4
  <2>4. B[{}] = start
    OBVIOUS
  <2>5. B \in [SUBSET S -> X]
    <3> SUFFICES ASSUME NEW s \in SUBSET S, s # {} PROVE step[<<A[s \ {last[s]}], last[s]>>] \in X
      OBVIOUS
    <3>1. last[s] \in S /\ A[s \ {last[s]}] \in X
      OBVIOUS
    <3> QED
      BY <3>1
  <2> HIDE DEF B
  <2>6. \A s \in SUBSET S : Cardinality(s) <= n + 1 => Eq(B, s)
    BY <2>3, <2>4
  <2>7. n + 1 \in Nat
    OBVIOUS
  <2> HIDE DEF Eq
  <2> QED
    BY <2>5, <2>6, <2>7
<1>4. U = Nat
  <2> HIDE DEF U
  <2>1. U \in SUBSET Nat
    BY DEF U
  <2> QED
    BY <1>2, <1>3, <2>1, NatsAll
<1>5. Cardinality(S) \in U
  BY <1>1, <1>4
<1>6. PICK A \in [SUBSET S -> X] : \A s \in SUBSET S : Cardinality(s) <= Cardinality(S) => Eq(A, s)
  BY <1>5
<1>7. \A s \in SUBSET S : Cardinality(s) <= Cardinality(S)
  BY FS_Subset
<1> QED
  BY <1>6, <1>7 DEF Computes

\* There is one such function: two that agree on a set wherever they agree on the
\* set without one of its elements agree.
LEMMA LoopUnique ==
  ASSUME NEW S, IsFiniteSet(S), NEW A, NEW C, A[{}] = C[{}],
         \A s \in SUBSET S : s # {} => \E x \in s : A[s \ {x}] = C[s \ {x}] => A[s] = C[s]
  PROVE  A[S] = C[S]
<1> DEFINE F == {s \in SUBSET S : A[s] = C[s]}
<1>1. {} \in F
  OBVIOUS
<1>2. ASSUME NEW s \in SUBSET S, s # {}, \A x \in s : s \ {x} \in F
      PROVE  s \in F
  BY <1>2
<1>3. F = SUBSET S
  <2> HIDE DEF F
  <2>1. F \in SUBSET SUBSET S
    BY DEF F
  <2> QED
    BY <1>1, <1>2, <2>1, SubsetsAll
<1> QED
  BY <1>3

-----------------------------------------------------------------------------
(* The order of the lots, and what a lot gives *)

Table ==
  remOf \in [LotIds -> Nat] /\ acqOf \in [LotIds -> Nat] /\ price \in [LotIds -> Nat]

LEMMA OlderOrder ==
  ASSUME Table, NEW j \in LotIds, NEW k \in LotIds, NEW l \in LotIds
  PROVE  /\ Older(acqOf, j, k) /\ Older(acqOf, k, l) => Older(acqOf, j, l)
         /\ ~(Older(acqOf, k, l) /\ Older(acqOf, l, k))
         /\ k = l \/ Older(acqOf, k, l) \/ Older(acqOf, l, k)
<1>1. /\ acqOf[j] \in Nat /\ acqOf[k] \in Nat /\ acqOf[l] \in Nat
      /\ j \in Nat /\ k \in Nat /\ l \in Nat
  BY LotIdsAssumption DEF Table
<1> QED
  BY <1>1 DEF Older

\* Of finitely many lots one is newer than the others.
LEMMA NewestIs ==
  ASSUME Table, NEW S \in SUBSET LotIds, S # {}
  PROVE  Newest(S) \in S /\ \A k \in S \ {Newest(S)} : Older(acqOf, k, Newest(S))
<1> DEFINE New(l, s) == \A k \in s \ {l} : Older(acqOf, k, l)
           F == {s \in SUBSET LotIds : s # {} => \E l \in s : New(l, s)}
<1>1. {} \in F
  OBVIOUS
<1>2. ASSUME NEW s \in SUBSET LotIds, s # {}, \A x \in s : s \ {x} \in F
      PROVE  s \in F
  <2>1. PICK x \in s : TRUE
    BY <1>2
  <2>2. CASE s \ {x} = {}
    <3>1. New(x, s)
      BY <2>2
    <3> QED
      BY <2>1, <3>1
  <2>3. CASE s \ {x} # {}
    <3>1. PICK l \in s \ {x} : New(l, s \ {x})
      BY <1>2, <2>1, <2>3
    <3>2. Older(acqOf, x, l) \/ Older(acqOf, l, x)
      BY <3>1, OlderOrder
    <3>3. CASE Older(acqOf, x, l)
      BY <3>1, <3>3
    <3>4. CASE Older(acqOf, l, x)
      <4>1. \A k \in s \ {x} : Older(acqOf, k, x)
        BY <3>1, <3>4, OlderOrder
      <4> QED
        BY <2>1, <4>1
    <3> QED
      BY <3>2, <3>3, <3>4
  <2> QED
    BY <2>2, <2>3
<1>3. F = SUBSET LotIds
  <2> HIDE DEF F
  <2>1. F \in SUBSET SUBSET LotIds
    BY DEF F
  <2>2. IsFiniteSet(LotIds)
    BY LotIdsAssumption
  <2>3. \A s \in SUBSET LotIds : s # {} /\ (\A x \in s : s \ {x} \in F) => s \in F
    BY <1>2
  <2>4. {} \in F
    BY <1>1
  <2> QED
    BY <2>1, <2>2, <2>3, <2>4, SubsetsAll
<1>4. \E l \in S : New(l, S)
  BY <1>3
<1> QED
  BY <1>4 DEF Newest

\* What a lot gives of its shares, in numbers.
LEMMA FilledIs ==
  ASSUME NEW ahead \in Nat, NEW have \in Nat, NEW want \in Nat
  PROVE  Filled(ahead, have, want) =
           IF want <= ahead THEN 0 ELSE IF have <= want - ahead THEN have ELSE want - ahead
<1> DEFINE n == IF want <= ahead THEN 0 ELSE IF have <= want - ahead THEN have ELSE want - ahead
           K == {k \in 1 .. have : ahead + k <= want}
<1>1. n \in Nat /\ K = 1 .. n
  OBVIOUS
<1> HIDE DEF n
<1>2. Cardinality(1 .. n) = n
  <2>1. Cardinality(1 .. n) = IF 1 > n THEN 0 ELSE n - 1 + 1
    BY <1>1, FS_Interval
  <2> QED
    BY <1>1, <2>1
<1> QED
  BY <1>1, <1>2 DEF Filled, n

\* Whoever comes later only wants what those before have left to want.
LEMMA FilledLater ==
  ASSUME NEW a \in Nat, NEW b \in Nat, NEW have \in Nat, NEW want \in Nat
  PROVE  /\ want > a => Filled(a + b, have, want) = Filled(b, have, want - a)
         /\ want <= a => Filled(a + b, have, want) = 0
<1>1. Filled(a + b, have, want) =
        IF want <= a + b THEN 0 ELSE IF have <= want - (a + b) THEN have ELSE want - (a + b)
  <2> DEFINE c == a + b
  <2>1. c \in Nat
    OBVIOUS
  <2> HIDE DEF c
  <2>2. Filled(c, have, want) =
          IF want <= c THEN 0 ELSE IF have <= want - c THEN have ELSE want - c
    BY <2>1, FilledIs
  <2> QED
    BY <2>2 DEF c
<1>2. ASSUME want > a
      PROVE  Filled(b, have, want - a) =
               IF want - a <= b THEN 0 ELSE IF have <= want - a - b THEN have ELSE want - a - b
  <2> DEFINE w == want - a
  <2>1. w \in Nat
    BY <1>2
  <2> HIDE DEF w
  <2>2. Filled(b, have, w) = IF w <= b THEN 0 ELSE IF have <= w - b THEN have ELSE w - b
    BY <2>1, FilledIs
  <2> QED
    BY <2>2 DEF w
<1> QED
  BY <1>1, <1>2

-----------------------------------------------------------------------------
(* One lot of a pass *)

\* A penny that is rounded is off by half at most.
LEMMA RoundedWithin ==
  ASSUME NEW x \in Nat, NEW den \in Nat \ {0}
  PROVE  /\ RoundHalfUp(x, den) \in Int
         /\ 2 * (den * RoundHalfUp(x, den)) <= 2 * x + den
         /\ 2 * x - den <= 2 * (den * RoundHalfUp(x, den))
<1> DEFINE m == 2 * den
           a == 2 * x + den
           r == a \div m
<1>1. m \in Nat \ {0} /\ a \in Nat
  OBVIOUS
<1>2. r \in Int /\ m * r <= a /\ a < m * r + m
  <2> HIDE DEF m, a
  <2>1. a \div m \in Int /\ a % m \in 0 .. m - 1 /\ a % m = a - m * (a \div m)
    BY <1>1
  <2> QED
    BY <1>1, <2>1
<1>3. m * r = 2 * (den * r)
  <2> HIDE DEF r
  <2> QED
    BY <1>2
<1>4. RoundHalfUp(x, den) = r
  BY DEF RoundHalfUp
<1> HIDE DEF r
<1> QED
  BY <1>2, <1>3, <1>4

PassState == [want : Nat, take : [LotIds -> Nat], cost : Int, lines : Nat]

LEMMA GiveType ==
  ASSUME Table, NEW st \in PassState, NEW l \in LotIds,
         NEW num \in [LotIds -> Nat], NEW den \in Nat \ {0}
  PROVE  Give(st, l, num, den) \in PassState
<1> DEFINE n == IF remOf[l] < st.want THEN remOf[l] ELSE st.want
           c == RoundHalfUp(n * num[l], den)
<1>1. n \in Nat /\ n <= st.want /\ st.want \in Nat
  BY DEF Table, PassState
<1>2. n * num[l] \in Nat
  BY <1>1
<1> DEFINE x == n * num[l]
<1>3. c \in Int
  <2> HIDE DEF x
  <2>1. RoundHalfUp(x, den) \in Int
    BY <1>2, RoundedWithin DEF x
  <2> QED
    BY <2>1 DEF x
<1> HIDE DEF c, n
<1>4. CASE n = 0
  BY <1>4 DEF Give, n
<1>5. CASE n # 0
  <2>1. Give(st, l, num, den) = [want |-> st.want - n, take |-> [st.take EXCEPT ![l] = n],
                                 cost |-> st.cost + c, lines |-> st.lines + 1]
    BY <1>5 DEF Give, n, c
  <2>2. st.want - n \in Nat /\ st.cost + c \in Int /\ st.lines + 1 \in Nat
    BY <1>1, <1>3 DEF PassState
  <2>3. [st.take EXCEPT ![l] = n] \in [LotIds -> Nat]
    BY <1>1 DEF PassState
  <2> QED
    BY <2>1, <2>2, <2>3 DEF PassState
<1> QED
  BY <1>4, <1>5

\* A pass comes from its start to its end by a lot each step, the newest last.
PassedBy(P, start, S, num, den) ==
  /\ P[{}] = start
  /\ \A s \in SUBSET S : s # {} => P[s] = Give(P[s \ {Newest(s)}], Newest(s), num, den)
  /\ P[S] = Pass(start, S, num, den)

LEMMA PassSteps ==
  ASSUME Table, NEW start \in PassState, NEW S \in SUBSET LotIds,
         NEW num \in [LotIds -> Nat], NEW den \in Nat \ {0}
  PROVE  \E P \in [SUBSET S -> PassState] : PassedBy(P, start, S, num, den)
<1> DEFINE Eq(P) == P = [s \in SUBSET S |-> IF s = {} THEN start
                                             ELSE Give(P[s \ {Newest(s)}], Newest(s), num, den)]
           step == [w \in PassState \X S |-> Give(w[1], w[2], num, den)]
           last == [s \in SUBSET S |-> Newest(s)]
<1>1. IsFiniteSet(S)
  BY LotIdsAssumption, FS_Subset
<1>2. step \in [PassState \X S -> PassState]
  <2> SUFFICES ASSUME NEW w \in PassState \X S PROVE Give(w[1], w[2], num, den) \in PassState
    OBVIOUS
  <2>1. w[1] \in PassState /\ w[2] \in LotIds
    OBVIOUS
  <2> QED
    BY <2>1, GiveType
<1>3. \A s \in SUBSET S : s # {} => last[s] = Newest(s) /\ Newest(s) \in s
  BY NewestIs
<1>4. PICK A \in [SUBSET S -> PassState] : Computes(A, S, start, step, last)
  <2> HIDE DEF step, last, Eq
  <2>1. \A s \in SUBSET S : s # {} => last[s] \in s
    BY <1>3
  <2> QED
    BY <1>1, <1>2, <2>1, LoopExists
<1>5. ASSUME NEW s \in SUBSET S, s # {}
      PROVE  A[s] = Give(A[s \ {Newest(s)}], Newest(s), num, den)
  <2>1. <<A[s \ {Newest(s)}], Newest(s)>> \in PassState \X S
    BY <1>3, <1>5
  <2>2. A[s] = step[<<A[s \ {Newest(s)}], Newest(s)>>]
    <3> HIDE DEF step, last
    <3> QED
      BY <1>3, <1>4, <1>5 DEF Computes
  <2> QED
    BY <2>1, <2>2
<1>6. A[{}] = start
  <2> HIDE DEF step, last
  <2> QED
    BY <1>4 DEF Computes
<1>7. Eq(A)
  BY <1>5, <1>6
<1> DEFINE C == CHOOSE P : Eq(P)
<1>8. Eq(C)
  <2> HIDE DEF Eq
  <2> QED
    BY <1>7
<1>9. A[S] = C[S]
  <2> HIDE DEF C
  <2>1. A[{}] = C[{}]
    BY <1>6, <1>8
  <2>2. ASSUME NEW s \in SUBSET S, s # {}
        PROVE  \E x \in s : A[s \ {x}] = C[s \ {x}] => A[s] = C[s]
    <3>1. C[s] = Give(C[s \ {Newest(s)}], Newest(s), num, den)
      BY <1>8, <2>2
    <3> QED
      BY <1>3, <1>5, <2>2, <3>1
  <2> HIDE DEF Eq, step, last
  <2> QED
    BY <1>1, <2>1, <2>2, LoopUnique
<1>10. Pass(start, S, num, den) = C[S]
  BY DEF Pass, Loop, MapThenFoldSet
<1> HIDE DEF C, Eq
<1> QED
  BY <1>5, <1>6, <1>9, <1>10 DEF PassedBy

Portion(st, l) == IF remOf[l] < st.want THEN remOf[l] ELSE st.want

\* The cost of a line is exact up to half a penny; without shares there is no line.
LEMMA GiveIs ==
  ASSUME Table, NEW st \in PassState, NEW l \in LotIds, st.take[l] = 0,
         NEW num \in [LotIds -> Nat], NEW den \in Nat \ {0}
  PROVE  LET r == Give(st, l, num, den)
             n == Portion(st, l)
         IN /\ r \in PassState /\ n \in Nat
            /\ r.want = st.want - n
            /\ r.take[l] = n
            /\ \A k \in LotIds : k # l => r.take[k] = st.take[k]
            /\ 2 * (den * (r.cost - st.cost)) <= 2 * (n * num[l]) + den * (r.lines - st.lines)
            /\ 2 * (n * num[l]) - den * (r.lines - st.lines) <= 2 * (den * (r.cost - st.cost))
<1> DEFINE r == Give(st, l, num, den)
           n == Portion(st, l)
           x == n * num[l]
           c == RoundHalfUp(x, den)
<1>1. r \in PassState
  BY GiveType
<1>2. /\ n \in Nat /\ x \in Nat
      /\ st.want \in Nat /\ st.take \in [LotIds -> Nat] /\ st.cost \in Int /\ st.lines \in Nat
  <2>1. n \in Nat
    BY DEF Table, PassState, Portion
  <2> HIDE DEF n
  <2>2. n * num[l] \in Nat
    BY <2>1
  <2> QED
    BY <2>1, <2>2 DEF PassState
<1>3. CASE n = 0
  <2>1. r = st /\ x = 0
    <3>1. 0 * num[l] = 0
      OBVIOUS
    <3> QED
      BY <1>3, <3>1 DEF Give, Portion
  <2> HIDE DEF r, n
  <2>2. st.cost - st.cost = 0 /\ st.lines - st.lines = 0 /\ st.want - 0 = st.want /\ den * 0 = 0
    BY <1>2
  <2>3. /\ r.want = st.want - n /\ r.take[l] = n
        /\ \A k \in LotIds : k # l => r.take[k] = st.take[k]
        /\ den * (r.cost - st.cost) = 0 /\ den * (r.lines - st.lines) = 0
    BY <1>3, <2>1, <2>2
  <2> HIDE DEF x
  <2> DEFINE a == den * (r.cost - st.cost)
             b == den * (r.lines - st.lines)
  <2>4. 2 * a <= 2 * x + b /\ 2 * x - b <= 2 * a
    <3>1. a = 0 /\ b = 0 /\ x = 0
      BY <2>1, <2>3
    <3> HIDE DEF a, b
    <3> QED
      BY <3>1
  <2> QED
    BY <1>1, <1>2, <2>3, <2>4 DEF r, n, x
<1>4. CASE n # 0
  <2>1. r = [want |-> st.want - n, take |-> [st.take EXCEPT ![l] = n],
             cost |-> st.cost + c, lines |-> st.lines + 1]
    BY <1>4 DEF Give, Portion
  <2> HIDE DEF x
  <2>2. c \in Int /\ 2 * (den * c) <= 2 * x + den /\ 2 * x - den <= 2 * (den * c)
    BY <1>2, RoundedWithin
  <2> HIDE DEF r, n, c
  <2>3. /\ r.want = st.want - n /\ r.take[l] = n
        /\ \A k \in LotIds : k # l => r.take[k] = st.take[k]
        /\ r.cost - st.cost = c /\ r.lines - st.lines = 1
    BY <1>2, <2>1, <2>2
  <2>4. den * 1 = den
    OBVIOUS
  <2>5. /\ 2 * (den * (r.cost - st.cost)) <= 2 * x + den * (r.lines - st.lines)
        /\ 2 * x - den * (r.lines - st.lines) <= 2 * (den * (r.cost - st.cost))
    BY <2>2, <2>3, <2>4
  <2> QED
    BY <1>1, <1>2, <2>3, <2>5 DEF r, n, x
<1> QED
  BY <1>3, <1>4

-----------------------------------------------------------------------------
(* A pass gives the closed forms *)

LEMMA SharesNat ==
  ASSUME Table, NEW S \in SUBSET LotIds
  PROVE  IsFiniteSet(S) /\ Shares(S, remOf) \in Nat
<1>1. IsFiniteSet(S)
  BY LotIdsAssumption, FS_Subset
<1>2. \A l \in S : remOf[l] \in Nat
  BY DEF Table
<1> QED
  BY <1>1, <1>2, SumNat DEF Shares

LEMMA SharesWithout ==
  ASSUME Table, NEW S \in SUBSET LotIds, NEW x \in S
  PROVE  Shares(S, remOf) = remOf[x] + Shares(S \ {x}, remOf)
<1>1. IsFiniteSet(S)
  BY LotIdsAssumption, FS_Subset
<1>2. \A l \in S : remOf[l] \in Int
  BY DEF Table
<1> QED
  BY <1>1, <1>2, SumRemove DEF Shares

\* What is asked for before lot l of S.
Before(S, l) == Shares({k \in S : Older(acqOf, k, l)}, remOf)
StillWanted(want, S) == IF want <= Shares(S, remOf) THEN 0 ELSE want - Shares(S, remOf)

Paid(st, S, num) == SumFunctionOnSet([l \in S |-> st.take[l] * num[l]], S)

\* A pass over S has given what the closed form says, and its cost is the exact one
\* up to half a penny a line.
HasPassed(st, start, S, num, den) ==
  /\ st.want = StillWanted(start.want, S)
  /\ \A l \in S : st.take[l] = Filled(Before(S, l), remOf[l], start.want)
  /\ \A l \in LotIds \ S : st.take[l] = start.take[l]
  /\ 2 * (den * (st.cost - start.cost)) <= 2 * Paid(st, S, num) + den * (st.lines - start.lines)
  /\ 2 * Paid(st, S, num) - den * (st.lines - start.lines) <= 2 * (den * (st.cost - start.cost))

\* Who comes before a lot does not change with a newer one.
LEMMA BeforeNewest ==
  ASSUME Table, NEW S \in SUBSET LotIds, S # {}
  PROVE  /\ Before(S, Newest(S)) = Shares(S \ {Newest(S)}, remOf)
         /\ \A l \in S \ {Newest(S)} : Before(S, l) = Before(S \ {Newest(S)}, l)
<1> DEFINE x == Newest(S)
<1>1. x \in S /\ \A k \in S \ {x} : Older(acqOf, k, x)
  BY NewestIs
<1> HIDE DEF x
<1>2. ~Older(acqOf, x, x) /\ \A k \in S \ {x} : ~Older(acqOf, x, k)
  BY <1>1, OlderOrder
<1>3. {k \in S : Older(acqOf, k, x)} = S \ {x}
  BY <1>1, <1>2
<1>4. \A l \in S \ {x} : {k \in S : Older(acqOf, k, l)} = {k \in S \ {x} : Older(acqOf, k, l)}
  BY <1>1, <1>2
<1> QED
  BY <1>3, <1>4 DEF Before, x

LEMMA PassPaid ==
  ASSUME NEW S \in SUBSET LotIds, NEW x \in S, NEW st \in PassState, NEW r \in PassState,
         NEW num \in [LotIds -> Nat], \A k \in LotIds : k # x => r.take[k] = st.take[k]
  PROVE  /\ Paid(st, S \ {x}, num) \in Nat
         /\ Paid(r, S, num) = Paid(st, S \ {x}, num) + r.take[x] * num[x]
<1> DEFINE f == [l \in S |-> r.take[l] * num[l]]
           g == [l \in S \ {x} |-> st.take[l] * num[l]]
<1>1. IsFiniteSet(S) /\ IsFiniteSet(S \ {x})
  BY LotIdsAssumption, FS_Subset
<1>2. \A l \in LotIds : st.take[l] * num[l] \in Nat /\ r.take[l] * num[l] \in Nat
  <2> SUFFICES ASSUME NEW l \in LotIds PROVE st.take[l] * num[l] \in Nat /\ r.take[l] * num[l] \in Nat
    OBVIOUS
  <2>1. st.take[l] \in Nat /\ r.take[l] \in Nat /\ num[l] \in Nat
    BY DEF PassState
  <2> QED
    BY <2>1
<1>3. /\ \A l \in S : f[l] \in Nat
      /\ \A l \in S \ {x} : g[l] \in Nat /\ f[l] = g[l]
      /\ f[x] = r.take[x] * num[x]
  BY <1>2
<1> HIDE DEF f, g
<1>4. SumFunctionOnSet(f, S) = f[x] + SumFunctionOnSet(f, S \ {x})
  BY <1>1, <1>3, SumRemove
<1>5. SumFunctionOnSet(f, S \ {x}) = SumFunctionOnSet(g, S \ {x})
  BY <1>1, <1>3, SumEqual
<1>6. SumFunctionOnSet(g, S \ {x}) \in Nat
  BY <1>1, <1>3, SumNat
<1>7. f[x] \in Nat
  BY <1>3
<1>8. SumFunctionOnSet(f, S) = SumFunctionOnSet(g, S \ {x}) + f[x]
  BY <1>4, <1>5, <1>6, <1>7
<1> QED
  BY <1>3, <1>6, <1>8 DEF Paid, f, g

LEMMA PassStep ==
  ASSUME Table, NEW S \in SUBSET LotIds, S # {},
         NEW start \in PassState, NEW st \in PassState, start.take[Newest(S)] = 0,
         NEW num \in [LotIds -> Nat], NEW den \in Nat \ {0},
         HasPassed(st, start, S \ {Newest(S)}, num, den)
  PROVE  HasPassed(Give(st, Newest(S), num, den), start, S, num, den)
<1> DEFINE x == Newest(S)
           t == S \ {x}
           r == Give(st, x, num, den)
           n == Portion(st, x)
           w == start.want
           a == Shares(t, remOf)
           h == remOf[x]
<1>1. x \in S /\ x \in LotIds /\ x \notin t
  BY NewestIs
<1>2. st.take[x] = 0
  BY <1>1 DEF HasPassed
<1>3. /\ r \in PassState /\ n \in Nat /\ r.want = st.want - n /\ r.take[x] = n
      /\ \A k \in LotIds : k # x => r.take[k] = st.take[k]
      /\ 2 * (den * (r.cost - st.cost)) <= 2 * (n * num[x]) + den * (r.lines - st.lines)
      /\ 2 * (n * num[x]) - den * (r.lines - st.lines) <= 2 * (den * (r.cost - st.cost))
  <2> HIDE DEF x
  <2> QED
    BY <1>1, <1>2, GiveIs
<1>4. w \in Nat /\ a \in Nat /\ h \in Nat /\ Shares(S, remOf) = h + a
  <2>1. a \in Nat
    BY SharesNat
  <2>2. Shares(S, remOf) = h + a
    BY <1>1, SharesWithout
  <2> QED
    BY <1>1, <2>1, <2>2 DEF PassState, Table
<1>5. st.want = IF w <= a THEN 0 ELSE w - a
  BY DEF HasPassed, StillWanted
<1>6. n = IF h < st.want THEN h ELSE st.want
  BY DEF Portion
<1>7. Before(S, x) = a /\ \A l \in t : Before(S, l) = Before(t, l)
  BY BeforeNewest
<1>8. Filled(a, h, w) = IF w <= a THEN 0 ELSE IF h <= w - a THEN h ELSE w - a
  <2> HIDE DEF a, h, w
  <2> QED
    BY <1>4, FilledIs
<1>9. r.want = StillWanted(w, S)
  <2> HIDE DEF r, n, w, a, h
  <2>1. r.want = IF w <= h + a THEN 0 ELSE w - (h + a)
    BY <1>3, <1>4, <1>5, <1>6
  <2> QED
    BY <1>4, <2>1 DEF StillWanted
<1>10. \A l \in S : r.take[l] = Filled(Before(S, l), remOf[l], w)
  <2>1. n = Filled(a, h, w)
    <3> HIDE DEF n, w, a, h
    <3> QED
      BY <1>4, <1>5, <1>6, <1>8
  <2>2. \A l \in t : st.take[l] = Filled(Before(t, l), remOf[l], w)
    BY DEF HasPassed
  <2>3. \A l \in S : l = x \/ (l \in t /\ l # x)
    <3>1. t = S \ {x}
      OBVIOUS
    <3> HIDE DEF x, t
    <3> QED
      BY <1>1, <3>1
  <2> HIDE DEF r, n, w, a, x, t
  <2> QED
    BY <1>3, <1>7, <2>1, <2>2, <2>3 DEF h
<1>11. \A l \in LotIds \ S : r.take[l] = start.take[l]
  <2>1. \A l \in LotIds \ S : st.take[l] = start.take[l] /\ l # x
    BY <1>1 DEF HasPassed
  <2> HIDE DEF r, x
  <2> QED
    BY <1>3, <2>1
<1>12. /\ 2 * (den * (r.cost - start.cost)) <= 2 * Paid(r, S, num) + den * (r.lines - start.lines)
       /\ 2 * Paid(r, S, num) - den * (r.lines - start.lines) <= 2 * (den * (r.cost - start.cost))
  <2> HIDE DEF r, n, x
  <2>1. /\ Paid(st, t, num) \in Nat
        /\ Paid(r, S, num) = Paid(st, t, num) + n * num[x]
    BY <1>1, <1>3, PassPaid
  <2>2. n * num[x] \in Int
    BY <1>1, <1>3
  <2>3. /\ den * (r.cost - start.cost) = den * (st.cost - start.cost) + den * (r.cost - st.cost)
        /\ den * (r.lines - start.lines) = den * (st.lines - start.lines) + den * (r.lines - st.lines)
    <3>1. \A b, c, d \in Int : den * (d - b) = den * (c - b) + den * (d - c)
      OBVIOUS
    <3>2. /\ r.cost \in Int /\ st.cost \in Int /\ start.cost \in Int
          /\ r.lines \in Int /\ st.lines \in Int /\ start.lines \in Int
      BY <1>3 DEF PassState
    <3> QED
      BY <3>1, <3>2
  <2>4. /\ 2 * (den * (st.cost - start.cost)) <= 2 * Paid(st, t, num) + den * (st.lines - start.lines)
        /\ 2 * Paid(st, t, num) - den * (st.lines - start.lines) <= 2 * (den * (st.cost - start.cost))
    BY DEF HasPassed, x
  <2>5. /\ den * (st.cost - start.cost) \in Int /\ den * (r.cost - st.cost) \in Int
        /\ den * (st.lines - start.lines) \in Int /\ den * (r.lines - st.lines) \in Int
    BY <1>3 DEF PassState
  <2> DEFINE p == Paid(st, t, num)
             e == n * num[x]
             c1 == den * (st.cost - start.cost)
             c2 == den * (r.cost - st.cost)
             l1 == den * (st.lines - start.lines)
             l2 == den * (r.lines - st.lines)
  <2>6. /\ 2 * c1 <= 2 * p + l1 /\ 2 * p - l1 <= 2 * c1
        /\ 2 * c2 <= 2 * e + l2 /\ 2 * e - l2 <= 2 * c2
        /\ p \in Int /\ e \in Int /\ c1 \in Int /\ c2 \in Int /\ l1 \in Int /\ l2 \in Int
    BY <1>3, <2>1, <2>2, <2>4, <2>5
  <2>7. /\ den * (r.cost - start.cost) = c1 + c2 /\ den * (r.lines - start.lines) = l1 + l2
        /\ Paid(r, S, num) = p + e
    BY <2>1, <2>3
  <2> HIDE DEF p, e, c1, c2, l1, l2
  <2> QED
    BY <2>6, <2>7
<1> QED
  BY <1>9, <1>10, <1>11, <1>12 DEF HasPassed

LEMMA PassGives ==
  ASSUME Table, NEW S \in SUBSET LotIds,
         NEW start \in PassState, \A l \in S : start.take[l] = 0,
         NEW num \in [LotIds -> Nat], NEW den \in Nat \ {0}
  PROVE  /\ Pass(start, S, num, den) \in PassState
         /\ HasPassed(Pass(start, S, num, den), start, S, num, den)
<1>1. PICK P \in [SUBSET S -> PassState] : PassedBy(P, start, S, num, den)
  BY PassSteps
<1> DEFINE F == {s \in SUBSET S : HasPassed(P[s], start, s, num, den)}
<1>2. {} \in F
  <2>1. Shares({}, remOf) = 0 /\ Paid(start, {}, num) = 0
    BY SumOfNone DEF Shares, Paid
  <2>2. start.want \in Nat /\ start.cost \in Int /\ start.lines \in Int
    BY DEF PassState
  <2>3. start.cost - start.cost = 0 /\ start.lines - start.lines = 0 /\ den * 0 = 0
    BY <2>2
  <2>4. start.want = StillWanted(start.want, {})
    BY <2>1, <2>2 DEF StillWanted
  <2> QED
    BY <1>1, <2>1, <2>3, <2>4 DEF HasPassed, PassedBy
<1>3. ASSUME NEW s \in SUBSET S, s # {}, \A x \in s : s \ {x} \in F
      PROVE  s \in F
  <2>1. Newest(s) \in s
    BY <1>3, NewestIs
  <2>2. HasPassed(P[s \ {Newest(s)}], start, s \ {Newest(s)}, num, den)
    BY <1>3, <2>1
  <2>3. P[s \ {Newest(s)}] \in PassState /\ start.take[Newest(s)] = 0 /\ s \in SUBSET LotIds
    BY <2>1
  <2>4. HasPassed(Give(P[s \ {Newest(s)}], Newest(s), num, den), start, s, num, den)
    BY <1>3, <2>2, <2>3, PassStep
  <2> QED
    BY <1>1, <1>3, <2>4 DEF PassedBy
<1>4. F = SUBSET S
  <2> HIDE DEF F
  <2>1. F \in SUBSET SUBSET S
    BY DEF F
  <2>2. IsFiniteSet(S)
    BY SharesNat
  <2> QED
    BY <1>2, <1>3, <2>1, <2>2, SubsetsAll
<1>5. S \in F
  BY <1>4
<1> QED
  BY <1>1, <1>5 DEF PassedBy

-----------------------------------------------------------------------------
(* The two allocators *)

\* A lot that is empty counts for nothing.
LEMMA EmptyLots ==
  ASSUME Table, NEW S \in SUBSET LotIds
  PROVE  Shares(S, remOf) = Shares({l \in S : remOf[l] > 0}, remOf)
<1> DEFINE A == {l \in S : remOf[l] > 0}
           Z == S \ A
<1>1. IsFiniteSet(A) /\ IsFiniteSet(Z)
  BY SharesNat, FS_Subset
<1>2. /\ A \cap Z = {} /\ S = A \cup Z
      /\ \A l \in A \cup Z : remOf[l] \in Int
      /\ \A l \in Z : remOf[l] = 0
  BY DEF Table
<1> HIDE DEF A, Z
<1>3. SumFunctionOnSet(remOf, A \cup Z) = SumFunctionOnSet(remOf, A) + SumFunctionOnSet(remOf, Z)
  BY <1>1, <1>2, SumOfUnion
<1>4. SumFunctionOnSet(remOf, Z) = 0
  BY <1>1, <1>2, SumOfZeros
<1>5. SumFunctionOnSet(remOf, A) \in Int
  BY <1>1, <1>2, SumType
<1>6. SumFunctionOnSet(remOf, S) = SumFunctionOnSet(remOf, A)
  BY <1>2, <1>3, <1>4, <1>5
<1> QED
  BY <1>6 DEF Shares, A

LEMMA EmptyBefore ==
  ASSUME Table, NEW S \in SUBSET LotIds, NEW l \in LotIds
  PROVE  /\ Before(S, l) = Before({k \in S : remOf[k] > 0}, l)
         /\ Before(S, l) \in Nat
<1> DEFINE B == {k \in S : Older(acqOf, k, l)}
<1>1. B \in SUBSET LotIds
  OBVIOUS
<1>2. {k \in B : remOf[k] > 0} = {k \in {k \in S : remOf[k] > 0} : Older(acqOf, k, l)}
  OBVIOUS
<1> HIDE DEF B
<1>3. Shares(B, remOf) = Shares({k \in B : remOf[k] > 0}, remOf) /\ Shares(B, remOf) \in Nat
  BY <1>1, EmptyLots, SharesNat
<1> QED
  BY <1>2, <1>3 DEF Before, B

LEMMA WantingType ==
  ASSUME NEW q \in Nat
  PROVE  Wanting(q) \in PassState /\ Wanting(q).want = q /\ Wanting(q).cost = 0 /\ Wanting(q).lines = 0
         /\ \A l \in LotIds : Wanting(q).take[l] = 0
BY DEF Wanting, PassState

LEMMA NothingFilled ==
  ASSUME NEW a \in Nat, NEW want \in Nat
  PROVE  Filled(a, 0, want) = 0
<1>1. Filled(a, 0, want) =
        IF want <= a THEN 0 ELSE IF 0 <= want - a THEN 0 ELSE want - a
  BY FilledIs
<1> QED
  BY <1>1

\* allocate_fifo gives the closed form.
LEMMA FifoGives ==
  ASSUME Table, NEW S \in SUBSET LotIds, NEW q \in Nat
  PROVE  AllocateFifo(S, q).take = FifoTake(S, remOf, acqOf, q)
<1> DEFINE A == {l \in S : remOf[l] > 0}
           start == Wanting(q)
           r == Pass(start, A, price, 1)
<1>1. /\ start \in PassState /\ start.want = q
      /\ \A l \in LotIds : start.take[l] = 0
  BY WantingType
<1>2. A \in SUBSET LotIds /\ price \in [LotIds -> Nat] /\ 1 \in Nat \ {0}
  BY DEF Table
<1> HIDE DEF start
<1>3. r \in PassState /\ HasPassed(r, start, A, price, 1)
  <2> HIDE DEF A
  <2> QED
    BY <1>1, <1>2, PassGives
<1> HIDE DEF r
<1>4. ASSUME NEW l \in LotIds
      PROVE  r.take[l] = FifoTake(S, remOf, acqOf, q)[l]
  <2>1. DOMAIN remOf = LotIds /\ remOf[l] \in Nat
    BY DEF Table
  <2>2. FifoTake(S, remOf, acqOf, q)[l] = IF l \in S THEN Filled(Before(S, l), remOf[l], q) ELSE 0
    BY <2>1 DEF FifoTake, Before
  <2>3. Before(S, l) = Before(A, l) /\ Before(S, l) \in Nat
    BY EmptyBefore
  <2>4. CASE l \in A
    BY <1>1, <1>3, <2>2, <2>3, <2>4 DEF HasPassed
  <2>5. CASE l \notin A
    <3>1. r.take[l] = 0
      BY <1>1, <1>3, <2>5 DEF HasPassed
    <3>2. l \in S => remOf[l] = 0
      BY <2>1, <2>5
    <3> QED
      BY <2>2, <2>3, <3>1, <3>2, NothingFilled
  <2> QED
    BY <2>4, <2>5
<1>5. DOMAIN r.take = LotIds /\ r.take = [l \in LotIds |-> r.take[l]]
  BY <1>3 DEF PassState
<1>6. DOMAIN FifoTake(S, remOf, acqOf, q) = LotIds
      /\ FifoTake(S, remOf, acqOf, q) = [l \in LotIds |-> FifoTake(S, remOf, acqOf, q)[l]]
  BY DEF FifoTake, Table
<1>7. AllocateFifo(S, q) = r
  BY DEF AllocateFifo, r, start
<1> QED
  BY <1>4, <1>5, <1>6, <1>7

ActiveLots(S) == {l \in S : remOf[l] > 0}
ActiveSame(S, d) == SameDay(ActiveLots(S), acqOf, d)
ActivePool(S, d) == Pool(ActiveLots(S), acqOf, d)
SameDayPass(S, d, q) == Pass(Wanting(q), ActiveSame(S, d), price, 1)
Average(S, d) == [l \in LotIds |-> Cost(ActivePool(S, d), remOf)]

LEMMA CostNat ==
  ASSUME Table, NEW S \in SUBSET LotIds
  PROVE  Cost(S, remOf) \in Nat
<1> DEFINE f == [l \in S |-> remOf[l] * price[l]]
<1>1. \A l \in S : f[l] \in Nat
  <2> SUFFICES ASSUME NEW l \in S PROVE remOf[l] * price[l] \in Nat
    OBVIOUS
  <2>1. remOf[l] \in Nat /\ price[l] \in Nat
    BY DEF Table
  <2> QED
    BY <2>1
<1>2. IsFiniteSet(S)
  BY SharesNat
<1> HIDE DEF f
<1>3. SumFunctionOnSet(f, S) \in Nat
  BY <1>1, <1>2, SumNat
<1> QED
  BY <1>3 DEF Cost, f

\* allocate_uk_share_matching is a pass over the lots of the day and, if that leaves
\* something to want, one over the pool.
LEMMA UkPasses ==
  ASSUME Table, NEW S \in SUBSET LotIds, NEW d, NEW q \in Nat
  PROVE  LET first == SameDayPass(S, d, q)
             pool  == ActivePool(S, d)
             r     == AllocateUk(S, d, q)
         IN /\ first \in PassState
            /\ HasPassed(first, Wanting(q), ActiveSame(S, d), price, 1)
            /\ first.want = 0 \/ pool = {} => r = first
            /\ ~(first.want = 0 \/ pool = {}) =>
                 /\ Shares(pool, remOf) \in Nat \ {0} /\ r \in PassState
                 /\ HasPassed(r, first, pool, Average(S, d), Shares(pool, remOf))
<1> DEFINE first == SameDayPass(S, d, q)
           same == ActiveSame(S, d)
           pool == ActivePool(S, d)
           r == AllocateUk(S, d, q)
           start == Wanting(q)
<1>1. /\ same \in SUBSET LotIds /\ pool \in SUBSET LotIds /\ same \cap pool = {}
      /\ \A l \in pool : remOf[l] > 0
  <2>1. same \in SUBSET LotIds /\ pool \in SUBSET LotIds /\ \A l \in pool : remOf[l] > 0
    BY DEF ActiveSame, ActivePool, SameDay, Pool, ActiveLots
  <2>2. \A l \in LotIds : acqOf[l] \in Nat
    BY DEF Table
  <2>3. \A n \in Nat : ~(n < n)
    OBVIOUS
  <2>4. same \cap pool = {}
    BY <2>2, <2>3 DEF ActiveSame, ActivePool, SameDay, Pool, ActiveLots
  <2> QED
    BY <2>1, <2>4
<1>2. /\ start \in PassState /\ \A l \in LotIds : start.take[l] = 0
      /\ price \in [LotIds -> Nat] /\ 1 \in Nat \ {0}
  BY WantingType DEF Table
<1>3. first = Pass(start, same, price, 1)
  BY DEF SameDayPass
<1>4. r = IF first.want = 0 \/ pool = {} THEN first
          ELSE Pass(first, pool, Average(S, d), Shares(pool, remOf))
  BY DEF AllocateUk, SameDayPass, ActiveSame, ActivePool, ActiveLots, Average
<1> HIDE DEF first, same, pool, r, start
<1>5. first \in PassState /\ HasPassed(first, start, same, price, 1)
  BY <1>1, <1>2, <1>3, PassGives
<1>6. ASSUME pool # {}
      PROVE  Shares(pool, remOf) \in Nat \ {0}
  <2>1. PICK x \in pool : TRUE
    BY <1>6
  <2>2. Shares(pool, remOf) = remOf[x] + Shares(pool \ {x}, remOf)
    BY <1>1, SharesWithout
  <2>3. remOf[x] \in Nat /\ remOf[x] > 0
    BY <1>1 DEF Table
  <2>4. Shares(pool \ {x}, remOf) \in Nat
    BY <1>1, SharesNat
  <2> QED
    BY <2>2, <2>3, <2>4
<1>7. Average(S, d) \in [LotIds -> Nat]
  BY <1>1, CostNat DEF Average, pool
<1>8. \A l \in pool : first.take[l] = 0
  BY <1>1, <1>2, <1>5 DEF HasPassed
<1>9. ASSUME ~(first.want = 0 \/ pool = {})
      PROVE  /\ Shares(pool, remOf) \in Nat \ {0} /\ r \in PassState
             /\ HasPassed(r, first, pool, Average(S, d), Shares(pool, remOf))
  BY <1>1, <1>4, <1>5, <1>6, <1>7, <1>8, <1>9, PassGives
<1> QED
  BY <1>4, <1>5, <1>9 DEF first, pool, r, start, same

\* The lots of the day, and the pool, with those that are empty.
LEMMA ActiveParts ==
  ASSUME Table, NEW S \in SUBSET LotIds, NEW d
  PROVE  /\ Shares(SameDay(S, acqOf, d), remOf) = Shares(ActiveSame(S, d), remOf)
         /\ Shares(Pool(S, acqOf, d), remOf) = Shares(ActivePool(S, d), remOf)
         /\ \A l \in LotIds :
              /\ Before(SameDay(S, acqOf, d), l) = Before(ActiveSame(S, d), l)
              /\ Before(Pool(S, acqOf, d), l) = Before(ActivePool(S, d), l)
<1> DEFINE same == SameDay(S, acqOf, d)
           pool == Pool(S, acqOf, d)
<1>1. same \in SUBSET LotIds /\ pool \in SUBSET LotIds
  BY DEF SameDay, Pool
<1>2. /\ {l \in same : remOf[l] > 0} = ActiveSame(S, d)
      /\ {l \in pool : remOf[l] > 0} = ActivePool(S, d)
  BY DEF SameDay, Pool, ActiveSame, ActivePool, ActiveLots
<1> HIDE DEF same, pool
<1>3. /\ Shares(same, remOf) = Shares(ActiveSame(S, d), remOf)
      /\ Shares(pool, remOf) = Shares(ActivePool(S, d), remOf)
  BY <1>1, <1>2, EmptyLots
<1>4. \A l \in LotIds : /\ Before(same, l) = Before(ActiveSame(S, d), l)
                        /\ Before(pool, l) = Before(ActivePool(S, d), l)
  BY <1>1, <1>2, EmptyBefore
<1> QED
  BY <1>3, <1>4 DEF same, pool

LEMMA UkGives ==
  ASSUME Table, NEW S \in SUBSET LotIds, NEW d, NEW q \in Nat
  PROVE  /\ AllocateUk(S, d, q) \in PassState
         /\ AllocateUk(S, d, q).take = UkTake(S, remOf, acqOf, d, q)
         /\ (AllocateUk(S, d, q).want = 0) = UkCovers(S, remOf, acqOf, d, q)
<1> DEFINE first == SameDayPass(S, d, q)
           allSame == SameDay(S, acqOf, d)
           allPool == Pool(S, acqOf, d)
           same == ActiveSame(S, d)
           pool == ActivePool(S, d)
           r == AllocateUk(S, d, q)
           a == Shares(same, remOf)
           p == Shares(pool, remOf)
<1>1. /\ first \in PassState
      /\ HasPassed(first, Wanting(q), same, price, 1)
      /\ first.want = 0 \/ pool = {} => r = first
      /\ ~(first.want = 0 \/ pool = {}) =>
           r \in PassState /\ HasPassed(r, first, pool, Average(S, d), p)
  BY UkPasses
<1>2. /\ Wanting(q).want = q /\ \A l \in LotIds : Wanting(q).take[l] = 0
  BY WantingType
<1>3. /\ same \in SUBSET LotIds /\ pool \in SUBSET LotIds
      /\ allSame \in SUBSET LotIds /\ allPool \in SUBSET LotIds
      /\ same = {l \in allSame : remOf[l] > 0} /\ pool = {l \in allPool : remOf[l] > 0}
  BY DEF ActiveSame, ActivePool, SameDay, Pool, ActiveLots
<1>4. allSame \cap allPool = {}
  <2>1. \A l \in LotIds : acqOf[l] \in Nat
    BY DEF Table
  <2>2. \A n \in Nat : ~(n < n)
    OBVIOUS
  <2> QED
    BY <2>1, <2>2 DEF SameDay, Pool
<1>5. /\ Shares(allSame, remOf) = a /\ Shares(allPool, remOf) = p
      /\ \A l \in LotIds : Before(allSame, l) = Before(same, l) /\ Before(allPool, l) = Before(pool, l)
  BY ActiveParts
<1>6. a \in Nat /\ p \in Nat
  BY <1>3, SharesNat
<1>7. \A l \in LotIds : Before(same, l) \in Nat /\ Before(pool, l) \in Nat
  BY <1>3, EmptyBefore
<1>8. ASSUME NEW l \in LotIds
      PROVE  UkTake(S, remOf, acqOf, d, q)[l] =
               IF l \in allSame THEN Filled(Before(same, l), remOf[l], q)
               ELSE IF l \in allPool THEN Filled(a + Before(pool, l), remOf[l], q) ELSE 0
  <2>1. DOMAIN remOf = LotIds
    BY DEF Table
  <2>2. UkTake(S, remOf, acqOf, d, q)[l] =
          CASE l \in allSame -> Filled(Before(allSame, l), remOf[l], q)
            [] l \in allPool -> Filled(Shares(allSame, remOf) + Before(allPool, l), remOf[l], q)
            [] OTHER -> 0
    BY <2>1 DEF UkTake, Before
  <2>3. /\ Before(allSame, l) = Before(same, l) /\ Before(allPool, l) = Before(pool, l)
        /\ Shares(allSame, remOf) = a
    BY <1>5
  <2> HIDE DEF allSame, allPool, same, pool, a
  <2> QED
    BY <1>4, <2>2, <2>3
<1>9. /\ first.want = IF q <= a THEN 0 ELSE q - a
      /\ \A l \in same : first.take[l] = Filled(Before(same, l), remOf[l], q)
      /\ \A l \in LotIds \ same : first.take[l] = 0
  BY <1>1, <1>2 DEF HasPassed, StillWanted
<1> HIDE DEF first, allSame, allPool, same, pool, r, a, p
<1>10. ASSUME first.want = 0 \/ pool = {}
       PROVE  /\ r \in PassState /\ (r.want = 0) = (a + p >= q)
              /\ \A l \in LotIds : r.take[l] = UkTake(S, remOf, acqOf, d, q)[l]
  <2>1. r = first
    BY <1>1, <1>10
  <2>2. ASSUME NEW l \in LotIds PROVE r.take[l] = UkTake(S, remOf, acqOf, d, q)[l]
    <3>1. remOf[l] \in Nat
      BY DEF Table
    <3>2. CASE l \in same
      BY <1>3, <1>8, <1>9, <2>1, <3>2
    <3>3. CASE l \notin same /\ l \in allSame
      <4>1. remOf[l] = 0
        BY <1>3, <3>1, <3>3
      <4> QED
        BY <1>7, <1>8, <1>9, <2>1, <3>3, <4>1, NothingFilled
    <3>4. CASE l \in allPool
      <4>1. l \notin allSame /\ l \notin same
        BY <1>3, <1>4, <3>4
      <4>2. Filled(a + Before(pool, l), remOf[l], q) = 0
        <5>1. CASE first.want = 0
          <6>1. q <= a
            BY <1>6, <1>9, <5>1
          <6> DEFINE b == Before(pool, l)
                     h == remOf[l]
          <6>2. b \in Nat /\ h \in Nat
            BY <1>7, <3>1
          <6> HIDE DEF b, h
          <6>3. Filled(a + b, h, q) = 0
            BY <1>6, <6>1, <6>2, FilledLater
          <6> QED
            BY <6>3 DEF b, h
        <5>2. CASE pool = {}
          <6>1. remOf[l] = 0
            BY <1>3, <3>1, <3>4, <5>2
          <6>2. a + Before(pool, l) \in Nat
            BY <1>6, <1>7
          <6> QED
            BY <6>1, <6>2, NothingFilled
        <5> QED
          BY <1>10, <5>1, <5>2
      <4> QED
        BY <1>8, <1>9, <2>1, <3>4, <4>1, <4>2
    <3>5. CASE l \notin allSame /\ l \notin allPool
      BY <1>3, <1>8, <1>9, <2>1, <3>5
    <3> QED
      BY <3>2, <3>3, <3>4, <3>5
  <2>3. r \in PassState
    BY <1>1, <2>1
  <2>4. (r.want = 0) = (a + p >= q)
    <3>1. CASE first.want = 0
      BY <1>6, <1>9, <2>1, <3>1
    <3>2. CASE pool = {}
      <4>1. p = 0
        BY <3>2, SumOfNone DEF p, Shares
      <4> QED
        BY <1>6, <1>9, <2>1, <4>1
    <3> QED
      BY <1>10, <3>1, <3>2
  <2> QED
    BY <2>2, <2>3, <2>4
<1>11. ASSUME ~(first.want = 0 \/ pool = {})
       PROVE  /\ r \in PassState /\ (r.want = 0) = (a + p >= q)
              /\ \A l \in LotIds : r.take[l] = UkTake(S, remOf, acqOf, d, q)[l]
  <2>1. r \in PassState /\ HasPassed(r, first, pool, Average(S, d), p)
    BY <1>1, <1>11
  <2>2. q > a /\ first.want = q - a
    BY <1>6, <1>9, <1>11
  <2>3. /\ \A l \in pool : r.take[l] = Filled(Before(pool, l), remOf[l], q - a)
        /\ \A l \in LotIds \ pool : r.take[l] = first.take[l]
        /\ r.want = IF q - a <= p THEN 0 ELSE q - a - p
    BY <2>1, <2>2 DEF HasPassed, StillWanted, p
  <2>4. ASSUME NEW l \in LotIds PROVE r.take[l] = UkTake(S, remOf, acqOf, d, q)[l]
    <3>1. remOf[l] \in Nat
      BY DEF Table
    <3>2. CASE l \in same
      <4>1. l \in allSame /\ l \notin pool
        BY <1>3, <1>4, <3>2
      <4> QED
        BY <1>8, <1>9, <2>3, <3>2, <4>1
    <3>3. CASE l \notin same /\ l \in allSame
      <4>1. remOf[l] = 0 /\ l \notin pool
        BY <1>3, <1>4, <3>1, <3>3
      <4> QED
        BY <1>7, <1>8, <1>9, <2>3, <3>3, <4>1, NothingFilled
    <3>4. CASE l \in pool
      <4>1. l \in allPool /\ l \notin allSame
        BY <1>3, <1>4, <3>4
      <4>2. Filled(a + Before(pool, l), remOf[l], q) = Filled(Before(pool, l), remOf[l], q - a)
        BY <1>6, <1>7, <2>2, <3>1, FilledLater
      <4> QED
        BY <1>8, <2>3, <3>4, <4>1, <4>2
    <3>5. CASE l \notin pool /\ l \in allPool
      <4>1. remOf[l] = 0 /\ l \notin allSame /\ l \notin same
        BY <1>3, <1>4, <3>1, <3>5
      <4>2. a + Before(pool, l) \in Nat
        BY <1>6, <1>7
      <4>3. Filled(a + Before(pool, l), remOf[l], q) = 0
        BY <4>1, <4>2, NothingFilled
      <4> QED
        BY <1>8, <1>9, <2>3, <3>5, <4>1, <4>3
    <3>6. CASE l \notin allSame /\ l \notin allPool
      BY <1>3, <1>8, <1>9, <2>3, <3>6
    <3> QED
      BY <3>2, <3>3, <3>4, <3>5, <3>6
  <2>5. (r.want = 0) = (a + p >= q)
    BY <1>6, <2>2, <2>3
  <2> QED
    BY <2>1, <2>4, <2>5
<1>12. UkCovers(S, remOf, acqOf, d, q) = (a + p >= q)
  <2>1. IsFiniteSet(allSame) /\ IsFiniteSet(allPool) /\ \A l \in allSame \cup allPool : remOf[l] \in Int
    <3>1. \A l \in allSame \cup allPool : remOf[l] \in Int
      BY <1>3 DEF Table
    <3> QED
      BY <1>3, <3>1, SharesNat
  <2>2. SumFunctionOnSet(remOf, allSame \cup allPool) =
          SumFunctionOnSet(remOf, allSame) + SumFunctionOnSet(remOf, allPool)
    BY <1>4, <2>1, SumOfUnion
  <2>3. Shares(allSame \cup allPool, remOf) = a + p
    BY <1>5, <2>2 DEF Shares
  <2> QED
    BY <2>3 DEF UkCovers, allSame, allPool
<1>13. r \in PassState /\ (r.want = 0) = (a + p >= q)
       /\ \A l \in LotIds : r.take[l] = UkTake(S, remOf, acqOf, d, q)[l]
  BY <1>10, <1>11
<1>14. DOMAIN r.take = LotIds /\ r.take = [l \in LotIds |-> r.take[l]]
  BY <1>13 DEF PassState
<1>15. /\ DOMAIN UkTake(S, remOf, acqOf, d, q) = LotIds
       /\ UkTake(S, remOf, acqOf, d, q) = [l \in LotIds |-> UkTake(S, remOf, acqOf, d, q)[l]]
  BY DEF UkTake, Table
<1> QED
  BY <1>12, <1>13, <1>14, <1>15 DEF r

-----------------------------------------------------------------------------
(* The pennies of a disposal of everything *)

Value == [l \in LotIds |-> remOf[l] * price[l]]

LEMMA ValueNat ==
  ASSUME Table
  PROVE  \A l \in LotIds : Value[l] \in Nat /\ (remOf[l] = 0 => Value[l] = 0)
<1> SUFFICES ASSUME NEW l \in LotIds
             PROVE  remOf[l] * price[l] \in Nat /\ (remOf[l] = 0 => remOf[l] * price[l] = 0)
  BY DEF Value
<1>1. remOf[l] \in Nat /\ price[l] \in Nat
  BY DEF Table
<1> QED
  BY <1>1

LEMMA CostIsSum ==
  ASSUME Table, NEW S \in SUBSET LotIds
  PROVE  Cost(S, remOf) = SumFunctionOnSet(Value, S)
<1> DEFINE f == [l \in S |-> remOf[l] * price[l]]
<1>1. IsFiniteSet(S) /\ \A l \in S : f[l] = Value[l]
  BY SharesNat DEF Value
<1> HIDE DEF f
<1>2. SumFunctionOnSet(f, S) = SumFunctionOnSet(Value, S)
  BY <1>1, SumEqual
<1> QED
  BY <1>2 DEF Cost, f

\* The lots of the day and the pool cost what those of them cost that hold shares.
LEMMA CostOfParts ==
  ASSUME Table, NEW d
  PROVE  Cost(SameDay(LotIds, acqOf, d) \cup Pool(LotIds, acqOf, d), remOf)
           = Cost(ActiveSame(LotIds, d), remOf) + Cost(ActivePool(LotIds, d), remOf)
<1> DEFINE all == SameDay(LotIds, acqOf, d) \cup Pool(LotIds, acqOf, d)
           same == ActiveSame(LotIds, d)
           pool == ActivePool(LotIds, d)
           rest == all \ (same \cup pool)
<1>1. /\ all \in SUBSET LotIds /\ same \in SUBSET LotIds /\ pool \in SUBSET LotIds
      /\ all = (same \cup pool) \cup rest
      /\ \A l \in rest : ~(remOf[l] > 0)
  BY DEF SameDay, Pool, ActiveSame, ActivePool, ActiveLots
<1>2. same \cap pool = {}
  <2>1. \A l \in LotIds : acqOf[l] \in Nat
    BY DEF Table
  <2>2. \A n \in Nat : ~(n < n)
    OBVIOUS
  <2> QED
    BY <2>1, <2>2 DEF ActiveSame, ActivePool, ActiveLots, SameDay, Pool
<1>3. (same \cup pool) \cap rest = {} /\ same \cup pool \in SUBSET LotIds /\ rest \in SUBSET LotIds
  BY <1>1
<1> HIDE DEF all, same, pool, rest
<1>4. /\ IsFiniteSet(same) /\ IsFiniteSet(pool) /\ IsFiniteSet(rest) /\ IsFiniteSet(same \cup pool)
  BY <1>1, <1>3, SharesNat
<1>5. \A l \in LotIds : Value[l] \in Int
  BY ValueNat
<1>6. SumFunctionOnSet(Value, same \cup pool) = SumFunctionOnSet(Value, same) + SumFunctionOnSet(Value, pool)
  BY <1>1, <1>2, <1>4, <1>5, SumOfUnion
<1>7. SumFunctionOnSet(Value, rest) = 0
  <2>1. \A l \in rest : Value[l] = 0
    <3> SUFFICES ASSUME NEW l \in rest PROVE remOf[l] = 0
      BY <1>3, ValueNat
    <3>1. remOf[l] \in Nat /\ ~(remOf[l] > 0)
      BY <1>1, <1>3 DEF Table
    <3> QED
      BY <3>1
  <2> QED
    BY <1>4, <2>1, SumOfZeros
<1>8. SumFunctionOnSet(Value, (same \cup pool) \cup rest) =
        SumFunctionOnSet(Value, same \cup pool) + SumFunctionOnSet(Value, rest)
  <2> DEFINE both == same \cup pool
  <2>1. both \cap rest = {} /\ IsFiniteSet(both) /\ \A l \in both \cup rest : Value[l] \in Int
    BY <1>3, <1>4, <1>5
  <2> HIDE DEF both
  <2>2. SumFunctionOnSet(Value, both \cup rest) =
          SumFunctionOnSet(Value, both) + SumFunctionOnSet(Value, rest)
    BY <1>4, <2>1, SumOfUnion
  <2> QED
    BY <2>2 DEF both
<1>9. SumFunctionOnSet(Value, same) \in Int /\ SumFunctionOnSet(Value, pool) \in Int
  BY <1>1, <1>4, <1>5, SumType
<1>10. SumFunctionOnSet(Value, all) = SumFunctionOnSet(Value, same) + SumFunctionOnSet(Value, pool)
  BY <1>1, <1>6, <1>7, <1>8, <1>9
<1>11. /\ Cost(all, remOf) = SumFunctionOnSet(Value, all)
       /\ Cost(same, remOf) = SumFunctionOnSet(Value, same)
       /\ Cost(pool, remOf) = SumFunctionOnSet(Value, pool)
  BY <1>1, CostIsSum
<1> QED
  BY <1>10, <1>11 DEF all, same, pool

\* A lot and those before it hold no more than all of them.
LEMMA BeforeFits ==
  ASSUME Table, NEW S \in SUBSET LotIds, NEW l \in S
  PROVE  Before(S, l) \in Nat /\ Before(S, l) + remOf[l] <= Shares(S, remOf)
<1> DEFINE B == {k \in S : Older(acqOf, k, l)}
<1>1. l \notin B /\ B \subseteq S
  BY OlderOrder
<1>2. IsFiniteSet(S) /\ IsFiniteSet(B) /\ Shares(B, remOf) \in Nat
  BY <1>1, SharesNat
<1>3. \A k \in S : remOf[k] \in Nat
  BY DEF Table
<1> HIDE DEF B
<1>4. SumFunctionOnSet(remOf, B \cup {l}) = SumFunctionOnSet(remOf, B) + remOf[l]
  <2>1. \A k \in B \cup {l} : remOf[k] \in Int
    BY <1>1, <1>3
  <2> QED
    BY <1>1, <1>2, <2>1, SumAdd
<1>5. SumFunctionOnSet(remOf, B \cup {l}) <= SumFunctionOnSet(remOf, S)
  <2> DEFINE T == B \cup {l}
  <2>1. T \in SUBSET S
    BY <1>1
  <2> HIDE DEF T
  <2>2. SumFunctionOnSet(remOf, T) <= SumFunctionOnSet(remOf, S)
    BY <1>2, <1>3, <2>1, SumOfPart
  <2> QED
    BY <2>2 DEF T
<1>6. Shares(B, remOf) + remOf[l] <= Shares(S, remOf)
  BY <1>4, <1>5 DEF Shares
<1> QED
  BY <1>2, <1>6 DEF Before, B

\* Where enough is wanted, each lot gives all it has.
LEMMA FilledWhole ==
  ASSUME NEW ahead \in Nat, NEW have \in Nat, NEW want \in Nat, ahead + have <= want
  PROVE  Filled(ahead, have, want) = have
<1>1. Filled(ahead, have, want) =
        IF want <= ahead THEN 0 ELSE IF have <= want - ahead THEN have ELSE want - ahead
  BY FilledIs
<1> QED
  BY <1>1

LEMMA Divide ==
  ASSUME NEW n \in Nat \ {0}, NEW x \in Int, NEW y \in Int, n * x <= n * y
  PROVE  x <= y
<1> SUFFICES ASSUME y < x PROVE FALSE
  OBVIOUS
<1> DEFINE e == x - y
<1>1. e \in Nat /\ e > 0 /\ x = y + e
  OBVIOUS
<1> HIDE DEF e
<1>2. n * (y + e) = n * y + n * e
  BY <1>1
<1>3. n * e > 0
  BY <1>1
<1>4. n * y \in Int /\ n * e \in Int
  BY <1>1
<1> QED
  BY <1>1, <1>2, <1>3, <1>4

\* However many lines a disposal of everything is written in, their pennies add up to
\* the exact cost up to half a penny a line.
LEMMA EverythingExact ==
  ASSUME Table, NEW d
  PROVE  LET all  == SameDay(LotIds, acqOf, d) \cup Pool(LotIds, acqOf, d)
             r    == AllocateUk(LotIds, d, Shares(all, remOf))
             diff == 2 * (r.cost - Cost(all, remOf))
         IN diff <= r.lines /\ -diff <= r.lines
<1> DEFINE all == SameDay(LotIds, acqOf, d) \cup Pool(LotIds, acqOf, d)
           q == Shares(all, remOf)
           r == AllocateUk(LotIds, d, q)
           first == SameDayPass(LotIds, d, q)
           same == ActiveSame(LotIds, d)
           pool == ActivePool(LotIds, d)
           a == Shares(same, remOf)
           p == Shares(pool, remOf)
           average == Average(LotIds, d)
           c == Cost(pool, remOf)
<1>1. /\ same \in SUBSET LotIds /\ pool \in SUBSET LotIds /\ all \in SUBSET LotIds
      /\ \A l \in LotIds : average[l] = c
  BY DEF ActiveSame, ActivePool, SameDay, Pool, ActiveLots, Average
<1>2. q = a + p /\ a \in Nat /\ p \in Nat /\ q \in Nat
  <2>1. SameDay(LotIds, acqOf, d) \in SUBSET LotIds /\ Pool(LotIds, acqOf, d) \in SUBSET LotIds
    BY DEF SameDay, Pool
  <2>2. SameDay(LotIds, acqOf, d) \cap Pool(LotIds, acqOf, d) = {}
    <3>1. \A l \in LotIds : acqOf[l] \in Nat
      BY DEF Table
    <3>2. \A n \in Nat : ~(n < n)
      OBVIOUS
    <3> QED
      BY <3>1, <3>2 DEF SameDay, Pool
  <2>3. \A l \in SameDay(LotIds, acqOf, d) \cup Pool(LotIds, acqOf, d) : remOf[l] \in Int
    BY <2>1 DEF Table
  <2>4. IsFiniteSet(SameDay(LotIds, acqOf, d)) /\ IsFiniteSet(Pool(LotIds, acqOf, d))
    BY <2>1, SharesNat
  <2>5. SumFunctionOnSet(remOf, SameDay(LotIds, acqOf, d) \cup Pool(LotIds, acqOf, d)) =
          SumFunctionOnSet(remOf, SameDay(LotIds, acqOf, d)) + SumFunctionOnSet(remOf, Pool(LotIds, acqOf, d))
    BY <2>2, <2>3, <2>4, SumOfUnion
  <2>6. /\ Shares(SameDay(LotIds, acqOf, d), remOf) = a
        /\ Shares(Pool(LotIds, acqOf, d), remOf) = p
    BY ActiveParts
  <2>7. q = a + p
    BY <2>5, <2>6 DEF Shares
  <2>8. a \in Nat /\ p \in Nat /\ q \in Nat
    BY <1>1, SharesNat
  <2> QED
    BY <2>7, <2>8
<1>3. /\ first \in PassState
      /\ HasPassed(first, Wanting(q), same, price, 1)
      /\ first.want = 0 \/ pool = {} => r = first
      /\ ~(first.want = 0 \/ pool = {}) =>
           p \in Nat \ {0} /\ r \in PassState /\ HasPassed(r, first, pool, average, p)
  <2> HIDE DEF q
  <2> QED
    BY <1>2, UkPasses
<1>4. Cost(all, remOf) = Cost(same, remOf) + c /\ Cost(same, remOf) \in Nat /\ c \in Nat
  BY <1>1, CostOfParts, CostNat
<1>5. Wanting(q).want = q /\ Wanting(q).cost = 0 /\ Wanting(q).lines = 0
  <2> HIDE DEF q
  <2> QED
    BY <1>2, WantingType
<1> HIDE DEF all, q, r, first, same, pool, average
<1>6. /\ first.want = p
      /\ \A l \in same : first.take[l] = remOf[l]
  <2>1. first.want = IF q <= a THEN 0 ELSE q - a
    BY <1>3, <1>5 DEF HasPassed, StillWanted
  <2>2. ASSUME NEW l \in same PROVE first.take[l] = remOf[l]
    <3>1. first.take[l] = Filled(Before(same, l), remOf[l], q)
      BY <1>3, <1>5 DEF HasPassed
    <3> DEFINE b == Before(same, l)
               h == remOf[l]
    <3>2. b \in Nat /\ b + h <= a
      BY <1>1, BeforeFits
    <3>3. h \in Nat
      BY <1>1 DEF Table
    <3> HIDE DEF a, b, h
    <3>4. b + h <= q
      BY <1>2, <3>2, <3>3
    <3>5. Filled(b, h, q) = h
      BY <1>2, <3>2, <3>3, <3>4, FilledWhole
    <3> QED
      BY <3>1, <3>5 DEF b, h
  <2> HIDE DEF a, p
  <2> QED
    BY <1>2, <2>1, <2>2
<1>7. Paid(first, same, price) = Cost(same, remOf)
  <2> DEFINE f == [l \in same |-> first.take[l] * price[l]]
  <2>1. IsFiniteSet(same) /\ \A l \in same : f[l] = Value[l]
    BY <1>1, <1>6, SharesNat DEF Value
  <2> HIDE DEF f
  <2>2. SumFunctionOnSet(f, same) = SumFunctionOnSet(Value, same)
    BY <2>1, SumEqual
  <2> QED
    BY <1>1, <2>2, CostIsSum DEF Paid, f
<1>8. /\ first.cost \in Int /\ first.lines \in Nat
      /\ 2 * first.cost <= 2 * Cost(same, remOf) + first.lines
      /\ 2 * Cost(same, remOf) - first.lines <= 2 * first.cost
  <2>1. first.cost \in Int /\ first.lines \in Nat
    BY <1>3 DEF PassState
  <2>2. /\ 2 * (1 * (first.cost - 0)) <= 2 * Cost(same, remOf) + 1 * (first.lines - 0)
        /\ 2 * Cost(same, remOf) - 1 * (first.lines - 0) <= 2 * (1 * (first.cost - 0))
    BY <1>3, <1>5, <1>7 DEF HasPassed
  <2> QED
    BY <1>4, <2>1, <2>2
<1>9. ASSUME first.want = 0 \/ pool = {}
      PROVE  r = first /\ c = 0
  <2>1. r = first
    BY <1>3, <1>9
  <2>2. pool = {}
    <3> SUFFICES ASSUME NEW x \in pool, p = 0 PROVE FALSE
      BY <1>6, <1>9
    <3>1. remOf[x] \in Nat /\ remOf[x] > 0
      BY DEF Table, pool, ActivePool, ActiveLots, Pool
    <3>2. Before(pool, x) \in Nat /\ Before(pool, x) + remOf[x] <= p
      BY <1>1, BeforeFits
    <3> QED
      BY <3>1, <3>2
  <2>3. c = 0
    BY <2>2, SumOfNone DEF Cost
  <2> QED
    BY <2>1, <2>3
<1>10. ASSUME ~(first.want = 0 \/ pool = {})
       PROVE  /\ r.cost \in Int /\ r.lines \in Nat
              /\ 2 * (r.cost - first.cost) <= 2 * c + (r.lines - first.lines)
              /\ 2 * c - (r.lines - first.lines) <= 2 * (r.cost - first.cost)
  <2>1. p \in Nat \ {0} /\ r \in PassState /\ HasPassed(r, first, pool, average, p)
    BY <1>3, <1>10
  <2>2. \A l \in pool : r.take[l] = remOf[l]
    <3> SUFFICES ASSUME NEW l \in pool PROVE r.take[l] = remOf[l]
      OBVIOUS
    <3>1. r.take[l] = Filled(Before(pool, l), remOf[l], p)
      BY <1>6, <2>1 DEF HasPassed
    <3> DEFINE b == Before(pool, l)
               h == remOf[l]
    <3>2. b \in Nat /\ b + h <= p
      BY <1>1, BeforeFits
    <3>3. h \in Nat
      BY <1>1 DEF Table
    <3> HIDE DEF p, b, h
    <3>4. Filled(b, h, p) = h
      BY <1>2, <3>2, <3>3, FilledWhole
    <3> QED
      BY <3>1, <3>4 DEF b, h
  <2>3. Paid(r, pool, average) = p * c
    <3> DEFINE f == [l \in pool |-> r.take[l] * average[l]]
    <3>1. IsFiniteSet(pool) /\ \A l \in pool : remOf[l] \in Int /\ f[l] = remOf[l] * c
      <4>1. \A l \in pool : remOf[l] \in Int
        BY <1>1 DEF Table
      <4>2. \A l \in pool : f[l] = remOf[l] * c
        BY <1>1, <2>2
      <4> QED
        BY <1>1, <4>1, <4>2, SharesNat
    <3> HIDE DEF f, c
    <3> DEFINE held == remOf
    <3>2. IsFiniteSet(pool) /\ \A l \in pool : held[l] \in Int /\ f[l] = held[l] * c
      BY <3>1
    <3>3. c \in Int
      BY <1>4
    <3> HIDE DEF held
    <3>4. SumFunctionOnSet(f, pool) = SumFunctionOnSet(held, pool) * c
      BY <3>2, <3>3, SumTimes
    <3> QED
      BY <3>4 DEF Paid, f, Shares, held
  <2>4. /\ r.cost \in Int /\ r.lines \in Nat
        /\ 2 * (p * (r.cost - first.cost)) <= 2 * (p * c) + p * (r.lines - first.lines)
        /\ 2 * (p * c) - p * (r.lines - first.lines) <= 2 * (p * (r.cost - first.cost))
    BY <2>1, <2>3 DEF HasPassed, PassState
  <2> DEFINE x == r.cost - first.cost
             k == r.lines - first.lines
  <2>5. x \in Int /\ k \in Int
    BY <1>8, <2>4
  <2>6. 2 * (p * x) <= 2 * (p * c) + p * k /\ 2 * (p * c) - p * k <= 2 * (p * x)
    BY <2>4
  <2> HIDE DEF x, k, p, c
  <2>7. p * (2 * x) <= p * (2 * c + k) /\ p * (2 * c - k) <= p * (2 * x)
    <3>1. /\ p * (2 * x) = 2 * (p * x)
          /\ p * (2 * c + k) = 2 * (p * c) + p * k
          /\ p * (2 * c - k) = 2 * (p * c) - p * k
      BY <1>2, <1>4, <2>5
    <3> QED
      BY <2>6, <3>1
  <2>8. 2 * x \in Int /\ 2 * c + k \in Int /\ 2 * c - k \in Int
    BY <1>4, <2>5
  <2>9. 2 * x <= 2 * c + k /\ 2 * c - k <= 2 * x
    BY <2>1, <2>7, <2>8, Divide
  <2> QED
    BY <2>4, <2>9 DEF x, k
<1>11. 2 * (r.cost - Cost(all, remOf)) <= r.lines /\ -(2 * (r.cost - Cost(all, remOf))) <= r.lines
  <2> HIDE DEF c
  <2>1. CASE first.want = 0 \/ pool = {}
    BY <1>4, <1>8, <1>9, <2>1
  <2>2. CASE ~(first.want = 0 \/ pool = {})
    BY <1>4, <1>8, <1>10, <2>2
  <2> QED
    BY <2>1, <2>2
<1> QED
  BY <1>11 DEF all, q, r

-----------------------------------------------------------------------------
(* What the closed forms give in all *)

Lesser(x, y) == IF x <= y THEN x ELSE y

\* Oldest first, the lots of S give what is wanted of them or all they have.
LEMMA FifoTotal ==
  ASSUME Table, NEW have \in [LotIds -> Nat], NEW S \in SUBSET LotIds, NEW q \in Nat
  PROVE  LET take == FifoTake(S, have, acqOf, q)
         IN /\ take \in [LotIds -> Nat]
            /\ \A l \in LotIds : take[l] <= have[l] /\ (l \notin S => take[l] = 0)
            /\ Shares(S, have) \in Nat
            /\ Shares(S, take) = Lesser(q, Shares(S, have))
            /\ Shares(LotIds, take) = Lesser(q, Shares(S, have))
<1> DEFINE Ahead(s, l) == Shares({k \in s : Older(acqOf, k, l)}, have)
           G(s) == [l \in s |-> Filled(Ahead(s, l), have[l], q)]
           F == {s \in SUBSET LotIds : SumFunctionOnSet(G(s), s) = Lesser(q, Shares(s, have))}
           take == FifoTake(S, have, acqOf, q)
<1>1. \A s \in SUBSET LotIds : IsFiniteSet(s) /\ Shares(s, have) \in Nat
  <2> SUFFICES ASSUME NEW s \in SUBSET LotIds PROVE IsFiniteSet(s) /\ Shares(s, have) \in Nat
    OBVIOUS
  <2>1. IsFiniteSet(s)
    BY LotIdsAssumption, FS_Subset
  <2>2. \A l \in s : have[l] \in Nat
    OBVIOUS
  <2> QED
    BY <2>1, <2>2, SumNat DEF Shares
<1>2. \A s \in SUBSET LotIds, l \in LotIds : Ahead(s, l) \in Nat
  BY <1>1
<1>3. {} \in F
  <2>1. Shares({}, have) = 0 /\ SumFunctionOnSet(G({}), {}) = 0
    BY SumOfNone DEF Shares
  <2> HIDE DEF G
  <2> QED
    BY <2>1 DEF Lesser
<1>4. ASSUME NEW s \in SUBSET LotIds, s # {}, \A x \in s : s \ {x} \in F
      PROVE  s \in F
  <2> DEFINE x == Newest(s)
             t == s \ {x}
             a == Shares(t, have)
             h == have[x]
  <2>1. x \in s /\ t \in SUBSET LotIds /\ \A k \in t : Older(acqOf, k, x)
    BY <1>4, NewestIs
  <2>2. SumFunctionOnSet(G(t), t) = Lesser(q, a)
    BY <1>4, <2>1
  <2>3. h \in Nat /\ a \in Nat /\ Shares(s, have) = h + a
    <3>1. \A l \in s : have[l] \in Int
      OBVIOUS
    <3>2. h \in Nat
      BY <2>1
    <3>3. Shares(s, have) = have[x] + Shares(s \ {x}, have)
      <4> HIDE DEF x
      <4> QED
        BY <1>1, <2>1, <3>1, SumRemove DEF Shares
    <3> QED
      BY <1>1, <2>1, <3>2, <3>3
  <2>4. Ahead(s, x) = a /\ \A l \in t : Ahead(s, l) = Ahead(t, l)
    <3> HIDE DEF x
    <3>1. ~Older(acqOf, x, x) /\ \A k \in t : ~Older(acqOf, x, k)
      BY <2>1, OlderOrder
    <3>2. {k \in s : Older(acqOf, k, x)} = t
      BY <2>1, <3>1
    <3>3. \A l \in t : {k \in s : Older(acqOf, k, l)} = {k \in t : Older(acqOf, k, l)}
      BY <2>1, <3>1
    <3> QED
      BY <3>2, <3>3
  <2>5. G(s)[x] = Filled(a, h, q) /\ \A l \in t : G(s)[l] = G(t)[l]
    BY <2>1, <2>4
  <2>6. Filled(a, h, q) = IF q <= a THEN 0 ELSE IF h <= q - a THEN h ELSE q - a
    <3> HIDE DEF a, h
    <3> QED
      BY <2>3, FilledIs
  <2>7. \A l \in s : G(s)[l] \in Nat
    <3> SUFFICES ASSUME NEW l \in s PROVE Filled(Ahead(s, l), have[l], q) \in Nat
      OBVIOUS
    <3> DEFINE b == Ahead(s, l)
               g == have[l]
    <3>1. b \in Nat /\ g \in Nat
      BY <1>2
    <3> HIDE DEF b, g
    <3>2. Filled(b, g, q) = IF q <= b THEN 0 ELSE IF g <= q - b THEN g ELSE q - b
      BY <3>1, FilledIs
    <3> QED
      BY <3>1, <3>2 DEF b, g
  <2> DEFINE gs == G(s)
             gt == G(t)
  <2>8. IsFiniteSet(s) /\ IsFiniteSet(t)
    BY <1>1, <2>1
  <2>9. /\ gs[x] = Filled(a, h, q) /\ \A l \in t : gs[l] = gt[l]
        /\ \A l \in s : gs[l] \in Int
        /\ SumFunctionOnSet(gt, t) = Lesser(q, a)
    BY <2>2, <2>5, <2>7
  <2> HIDE DEF gs, gt
  <2>10. SumFunctionOnSet(gs, s) = gs[x] + SumFunctionOnSet(gs, t)
    <3> HIDE DEF x
    <3> QED
      BY <2>1, <2>8, <2>9, SumRemove
  <2>11. SumFunctionOnSet(gs, t) = SumFunctionOnSet(gt, t)
    <3> HIDE DEF t
    <3> QED
      BY <2>8, <2>9, SumEqual
  <2>12. SumFunctionOnSet(gs, s) = Lesser(q, Shares(s, have))
    <3>1. SumFunctionOnSet(gs, s) = Filled(a, h, q) + Lesser(q, a)
      BY <2>9, <2>10, <2>11
    <3> HIDE DEF a, h
    <3> QED
      BY <2>3, <2>6, <3>1 DEF Lesser
  <2> QED
    BY <2>12 DEF gs
<1>5. F = SUBSET LotIds
  <2> HIDE DEF F
  <2>1. F \in SUBSET SUBSET LotIds
    BY DEF F
  <2> QED
    BY <1>3, <1>4, <2>1, SubsetsAll, LotIdsAssumption
<1>6. SumFunctionOnSet(G(S), S) = Lesser(q, Shares(S, have))
  BY <1>5
<1>7. take = [l \in LotIds |-> IF l \in S THEN Filled(Ahead(S, l), have[l], q) ELSE 0]
  BY DEF FifoTake
<1>8. \A l \in LotIds :
        /\ take[l] \in Nat /\ take[l] <= have[l]
        /\ l \in S => take[l] = G(S)[l]
        /\ l \notin S => take[l] = 0
  <2> SUFFICES ASSUME NEW l \in LotIds
               PROVE  /\ take[l] \in Nat /\ take[l] <= have[l]
                      /\ l \in S => take[l] = G(S)[l]
                      /\ l \notin S => take[l] = 0
    OBVIOUS
  <2> DEFINE b == Ahead(S, l)
             h == have[l]
  <2>1. b \in Nat /\ h \in Nat
    BY <1>2
  <2>2. take[l] = IF l \in S THEN Filled(b, h, q) ELSE 0
    BY <1>7
  <2>3. l \in S => G(S)[l] = Filled(b, h, q)
    OBVIOUS
  <2> HIDE DEF b, h, take, G
  <2>4. Filled(b, h, q) = IF q <= b THEN 0 ELSE IF h <= q - b THEN h ELSE q - b
    BY <2>1, FilledIs
  <2>5. Filled(b, h, q) \in Nat /\ Filled(b, h, q) <= h
    BY <2>1, <2>4
  <2> QED
    BY <2>1, <2>2, <2>3, <2>5 DEF h
<1>9. take \in [LotIds -> Nat]
  BY <1>7, <1>8
<1> DEFINE g == G(S)
<1>10. \A l \in S : take[l] = g[l]
  BY <1>8
<1> HIDE DEF take, g
<1>11. SumFunctionOnSet(take, S) = SumFunctionOnSet(g, S)
  BY <1>1, <1>10, SumEqual
<1>12. Shares(S, take) = Lesser(q, Shares(S, have))
  BY <1>6, <1>11 DEF Shares, g
<1>13. Shares(LotIds, take) = Shares(S, take)
  <2> DEFINE Z == LotIds \ S
  <2>1. S \cap Z = {} /\ S \cup Z = LotIds /\ Z \in SUBSET LotIds /\ \A l \in Z : take[l] = 0
    BY <1>8
  <2> HIDE DEF Z
  <2>2. IsFiniteSet(S) /\ IsFiniteSet(Z) /\ \A l \in S \cup Z : take[l] \in Int
    BY <1>1, <1>9, <2>1
  <2>3. SumFunctionOnSet(take, S \cup Z) = SumFunctionOnSet(take, S) + SumFunctionOnSet(take, Z)
    BY <2>1, <2>2, SumOfUnion
  <2>4. SumFunctionOnSet(take, Z) = 0
    BY <2>1, <2>2, SumOfZeros
  <2>5. SumFunctionOnSet(take, S) \in Int
    BY <2>2, SumType
  <2>6. SumFunctionOnSet(take, LotIds) = SumFunctionOnSet(take, S \cup Z)
    BY <2>1
  <2>7. SumFunctionOnSet(take, S) + 0 = SumFunctionOnSet(take, S)
    BY <2>5, PlusNothing
  <2> QED
    BY <2>3, <2>4, <2>6, <2>7 DEF Shares
<1> QED
  BY <1>1, <1>8, <1>9, <1>12, <1>13 DEF take

-----------------------------------------------------------------------------
(* Sums over lots *)

LEMMA SharesMove ==
  ASSUME NEW S \in SUBSET LotIds, NEW have, NEW take, NEW rest,
         \A l \in S : have[l] \in Int /\ take[l] \in Int /\ rest[l] = have[l] - take[l]
  PROVE  /\ Shares(S, have) \in Int /\ Shares(S, take) \in Int /\ Shares(S, rest) \in Int
         /\ Shares(S, rest) = Shares(S, have) - Shares(S, take)
<1>1. IsFiniteSet(S)
  BY LotIdsAssumption, FS_Subset
<1>2. \A l \in S : rest[l] \in Int /\ have[l] = take[l] + rest[l]
  OBVIOUS
<1>3. Shares(S, have) \in Int /\ Shares(S, take) \in Int /\ Shares(S, rest) \in Int
  BY <1>1, <1>2, SumType DEF Shares
<1>4. Shares(S, have) = Shares(S, take) + Shares(S, rest)
  BY <1>1, <1>2, SumPlus DEF Shares
<1> QED
  BY <1>3, <1>4

LEMMA SharesPart ==
  ASSUME NEW S \in SUBSET LotIds, NEW take \in [LotIds -> Nat]
  PROVE  /\ Shares(S, take) \in Nat
         /\ Shares(S, take) <= Shares(LotIds, take)
         /\ (\A l \in LotIds \ S : take[l] = 0) => Shares(S, take) = Shares(LotIds, take)
<1> DEFINE Z == LotIds \ S
<1>1. IsFiniteSet(S) /\ IsFiniteSet(Z) /\ IsFiniteSet(LotIds)
  BY LotIdsAssumption, FS_Subset
<1>2. S \cap Z = {} /\ S \cup Z = LotIds
  OBVIOUS
<1>3. /\ \A l \in S \cup Z : take[l] \in Int
      /\ \A l \in LotIds : take[l] \in Nat
      /\ \A l \in S : take[l] \in Nat
  OBVIOUS
<1> HIDE DEF Z
<1>4. Shares(S, take) \in Nat
  BY <1>1, <1>3, SumNat DEF Shares
<1>5. Shares(S, take) <= Shares(LotIds, take)
  BY <1>1, <1>3, SumOfPart DEF Shares
<1>6. ASSUME \A l \in Z : take[l] = 0
      PROVE  Shares(S, take) = Shares(LotIds, take)
  <2>1. SumFunctionOnSet(take, S \cup Z) = SumFunctionOnSet(take, S) + SumFunctionOnSet(take, Z)
    BY <1>1, <1>2, <1>3, SumOfUnion
  <2>2. SumFunctionOnSet(take, Z) = 0
    BY <1>1, <1>6, SumOfZeros
  <2>3. SumFunctionOnSet(take, S) \in Int
    BY <1>4 DEF Shares
  <2>4. SumFunctionOnSet(take, S) + 0 = SumFunctionOnSet(take, S)
    BY <2>3, PlusNothing
  <2>5. SumFunctionOnSet(take, LotIds) = SumFunctionOnSet(take, S \cup Z)
    BY <1>2
  <2> QED
    BY <2>1, <2>2, <2>4, <2>5 DEF Shares
<1> QED
  BY <1>4, <1>5, <1>6 DEF Z

\* Lots that give nothing may be left out.
LEMMA SharesOnly ==
  ASSUME NEW T \in SUBSET LotIds, NEW S \in SUBSET T, NEW take \in [LotIds -> Nat],
         \A l \in T \ S : take[l] = 0
  PROVE  Shares(S, take) = Shares(T, take)
<1> DEFINE f == [l \in LotIds |-> IF l \in T THEN take[l] ELSE 0]
<1>1. f \in [LotIds -> Nat]
  OBVIOUS
<1>2. S \in SUBSET LotIds /\ IsFiniteSet(S) /\ IsFiniteSet(T)
  BY LotIdsAssumption, FS_Subset
<1>3. /\ \A l \in S : f[l] = take[l]
      /\ \A l \in T : f[l] = take[l]
      /\ \A l \in LotIds \ S : f[l] = 0
      /\ \A l \in LotIds \ T : f[l] = 0
  OBVIOUS
<1> HIDE DEF f
<1>4. Shares(S, f) = Shares(LotIds, f) /\ Shares(T, f) = Shares(LotIds, f)
  BY <1>1, <1>2, <1>3, SharesPart
<1>5. Shares(S, f) = Shares(S, take) /\ Shares(T, f) = Shares(T, take)
  BY <1>2, <1>3, SumEqual DEF Shares
<1> QED
  BY <1>4, <1>5

-----------------------------------------------------------------------------
(* The ledger, its prices and its disposals *)

SaleRow  == [day : Nat, take : [LotIds -> Nat]]
Taken(l) == [i \in DOMAIN sales |-> sales[i].take[l]]

\* What the ledger knows a lot to have sold is what the disposals say of it.
SoldIsWritten ==
  \A l \in LotIds : gone[l].sold = SumFunctionOnSet(Taken(l), DOMAIN sales)

GainsInv ==
  /\ LedgerInv
  /\ price \in [LotIds -> Nat]
  /\ sales \in Seq(SaleRow)
  /\ SoldIsWritten

LEMMA GainsStart == ReportInit => GainsInv
<1> SUFFICES ASSUME ReportInit PROVE GainsInv
  OBVIOUS
<1>1. LedgerInv
  BY InitLedger DEF ReportInit
<1>2. price \in [LotIds -> Nat] /\ sales = <<>> /\ sales \in Seq(SaleRow)
  BY DEF ReportInit
<1>3. ASSUME NEW l \in LotIds PROVE gone[l].sold = SumFunctionOnSet(Taken(l), DOMAIN sales)
  <2>1. gone[l].sold = 0
    BY DEF ReportInit, Init
  <2>2. DOMAIN sales = {}
    BY <1>2
  <2> QED
    BY <2>1, <2>2, SumOfNone
<1> QED
  BY <1>1, <1>2, <1>3 DEF GainsInv, SoldIsWritten

\* A disposal writes down what the lots give.
LEMMA DisposalWrites ==
  ASSUME GainsInv, NEW q \in Quantities, NEW d \in Days, NEW scheme \in Schemes \cup {Nothing},
         Disposal(q, d, scheme)
  PROVE  GainsInv'
<1>1. LedgerInv /\ CommitDisposal(q, d, scheme)
  BY DEF GainsInv, Disposal
<1>2. LedgerInv'
  BY <1>1, CommitDisposalKeeps
<1>3. PICK take \in [LotIds -> Nat], lost \in SUBSET LotIds : SaleOf(take, lost, d)
  BY <1>1, SaleEffect
<1>4. \A l \in LotIds : Sold(l) = take[l] /\ take[l] \in Nat
  BY <1>1, <1>3, SoldIsTaken
<1> DEFINE row == [day |-> d, take |-> take]
<1>5. sales' = Append(sales, row) /\ price' = price
  <2>1. [l \in LotIds |-> Sold(l)] = take
    BY <1>4
  <2> QED
    BY <2>1 DEF Disposal
<1>6. row \in SaleRow /\ sales \in Seq(SaleRow)
  BY DEF SaleRow, GainsInv, Days
<1>7. row.take = take
  OBVIOUS
<1> HIDE DEF row
<1>8. sales' \in Seq(SaleRow)
  BY <1>5, <1>6
<1>9. ASSUME NEW l \in LotIds
      PROVE  gone'[l].sold = SumFunctionOnSet(Taken(l)', DOMAIN sales')
  <2> DEFINE n == Len(sales)
             S == 1 .. n
             m == n + 1
             f == Taken(l)
             g == Taken(l)'
  <2>1. /\ n \in Nat /\ DOMAIN sales = S /\ DOMAIN sales' = 1 .. m
        /\ \A i \in S : sales'[i] = sales[i] /\ sales[i] \in SaleRow
        /\ sales'[m] = row
    BY <1>5, <1>6
  <2>2. S \cup {m} = 1 .. m /\ m \notin S /\ IsFiniteSet(S)
    <3>1. n \in Nat
      BY <2>1
    <3> HIDE DEF n
    <3>2. IsFiniteSet(S)
      BY <3>1, FS_Interval
    <3>3. S \cup {m} = 1 .. m /\ m \notin S
      BY <3>1
    <3> QED
      BY <3>2, <3>3
  <2>3. \A i \in S : g[i] = f[i] /\ f[i] \in Nat
    BY <2>1, <2>2 DEF Taken, SaleRow
  <2>4. g[m] = take[l]
    BY <1>7, <2>1, <2>2 DEF Taken
  <2>5. gone'[l].sold = gone[l].sold + take[l] /\ gone[l].sold = SumFunctionOnSet(f, S)
    BY <1>3, <2>1 DEF SaleOf, GainsInv, SoldIsWritten
  <2>6. DOMAIN sales' = S \cup {m}
    BY <2>1, <2>2
  <2> HIDE DEF n, S, m, f, g
  <2>7. SumFunctionOnSet(g, S) = SumFunctionOnSet(f, S)
    BY <2>2, <2>3, SumEqual
  <2>8. SumFunctionOnSet(g, S \cup {m}) = SumFunctionOnSet(g, S) + g[m]
    <3>1. \A i \in S \cup {m} : g[i] \in Int
      BY <1>4, <2>3, <2>4
    <3>2. IsFiniteSet(S) /\ m \notin S
      BY <2>2
    <3> QED
      BY <3>1, <3>2, SumAdd
  <2>9. gone'[l].sold = SumFunctionOnSet(g, S \cup {m})
    BY <2>4, <2>5, <2>7, <2>8
  <2> QED
    BY <2>6, <2>9 DEF g
<1>10. SoldIsWritten'
  BY <1>9 DEF SoldIsWritten
<1>11. price' \in [LotIds -> Nat]
  BY <1>5 DEF GainsInv
<1> QED
  BY <1>2, <1>8, <1>10, <1>11 DEF GainsInv

\* Whatever sells nothing keeps the disposals as they are.
LEMMA OthersKeep ==
  ASSUME GainsInv, LedgerInv', price' \in [LotIds -> Nat], sales' = sales,
         \A l \in LotIds : gone'[l].sold = gone[l].sold
  PROVE  GainsInv'
<1>1. \A l \in LotIds : Taken(l)' = Taken(l)
  BY DEF Taken
<1>2. SoldIsWritten'
  BY <1>1 DEF SoldIsWritten, GainsInv
<1> QED
  BY <1>2 DEF GainsInv

LEMMA GainsNext == GainsInv /\ [ReportNext]_reportVars => GainsInv'
<1> SUFFICES ASSUME GainsInv, [ReportNext]_reportVars PROVE GainsInv'
  OBVIOUS
<1>1. /\ LedgerInv /\ price \in [LotIds -> Nat] /\ Prices \subseteq Nat
      /\ \A l \in LotIds : gone[l] \in Gone
  BY ReportAssumption DEF GainsInv, LedgerInv, TypeOK
<1>2. CASE NextDay /\ UNCHANGED <<price, sales>>
  <2>1. LedgerInv'
    BY <1>1, <1>2, NextDayKeeps
  <2> QED
    BY <1>1, <1>2, <2>1, OthersKeep DEF NextDay
<1>3. ASSUME NEW l \in LotIds, NEW d \in Days, NEW q \in Quantities, NEW c \in Currencies,
             NEW p \in Prices, NEW scheme \in Acquirable, PricedAdd(l, scheme, d, q, c, p)
      PROVE  GainsInv'
  <2>1. AddLot(l, scheme, d, q, c) /\ price' = [price EXCEPT ![l] = p] /\ sales' = sales
    BY <1>3 DEF PricedAdd
  <2>2. LedgerInv'
    BY <1>1, <2>1, AddLotKeeps
  <2>3. price' \in [LotIds -> Nat] /\ gone' = gone
    BY <1>1, <2>1 DEF AddLot
  <2> QED
    BY <2>1, <2>2, <2>3, OthersKeep
<1>4. ASSUME NEW l \in LotIds, NEW d \in Days, NEW q \in Quantities, NEW c \in Currencies,
             NEW p \in Prices, NEW m \in LotIds, NEW qm \in Quantities,
             PricedPair(l, m, d, q, qm, c, p)
      PROVE  GainsInv'
  <2>1. /\ AddEsppPlusPair(l, m, d, q, qm, c) /\ sales' = sales
        /\ price' = [price EXCEPT ![l] = p, ![m] = 0]
    BY <1>4 DEF PricedPair
  <2>2. LedgerInv'
    BY <1>1, <2>1, AddPairKeeps
  <2>3. price' \in [LotIds -> Nat] /\ gone' = gone
    BY <1>1, <2>1 DEF AddEsppPlusPair
  <2> QED
    BY <2>1, <2>2, <2>3, OthersKeep
<1>5. ASSUME NEW l \in LotIds, NEW d \in Days, NEW q \in Quantities,
             NEW c \in Currencies \cup {Nothing}, NEW p \in Prices, PricedEdit(l, d, q, c, p)
      PROVE  GainsInv'
  <2>1. EditLot(l, d, q, c) /\ price' = [price EXCEPT ![l] = p] /\ sales' = sales
    BY <1>5 DEF PricedEdit
  <2>2. LedgerInv'
    BY <1>1, <2>1, EditLotKeeps
  <2>3. price' \in [LotIds -> Nat] /\ gone' = gone
    BY <1>1, <2>1 DEF EditLot
  <2> QED
    BY <2>1, <2>2, <2>3, OthersKeep
<1>6. ASSUME NEW l \in LotIds, NEW c \in Currencies \cup {Nothing},
             FullTransfer(l, c) /\ UNCHANGED <<price, sales>>
      PROVE  GainsInv'
  <2>1. LedgerInv'
    BY <1>1, <1>6, FullTransferKeeps
  <2>2. \A k \in LotIds : gone'[k].sold = gone[k].sold
    <3> DEFINE lost == IF lots[l].scheme = "ESPP_PLUS" THEN Forfeitable({l}, today) ELSE {}
    <3>1. gone' = [k \in LotIds |->
            IF k \in lost THEN [gone[k] EXCEPT !.forfeited = @ + lots[k].rem] ELSE gone[k]]
      BY <1>6 DEF FullTransfer
    <3> HIDE DEF lost
    <3> QED
      BY <1>1, <3>1 DEF Gone
  <2> QED
    BY <1>1, <1>6, <2>1, <2>2, OthersKeep
<1>7. ASSUME NEW l \in LotIds, NEW c \in Currencies \cup {Nothing},
             NEW q \in Requests \cup {AllShares}, PricedMove(l, q, c)
      PROVE  GainsInv'
  <2>1. EsppTransfer(l, q, c) /\ sales' = sales
    BY <1>7 DEF PricedMove
  <2>2. LedgerInv'
    BY <1>1, <2>1, EsppTransferKeeps
  <2>3. price' \in [LotIds -> Nat]
    <3>1. price' = [k \in LotIds |-> IF ~Live(k) /\ lots'[k].origin # NoLot
                                     THEN price[lots'[k].origin] ELSE price[k]]
      BY <1>7 DEF PricedMove
    <3>2. \A k \in LotIds : lots'[k].origin \in LotIds \cup {NoLot}
      BY <2>2 DEF LedgerInv, TypeOK, Lot
    <3> QED
      BY <1>1, <3>1, <3>2
  <2>4. \A k \in LotIds : gone'[k].sold = gone[k].sold
    <3>1. PICK take \in [LotIds -> Nat], moved \in SUBSET LotIds, b \in Currencies :
            \E dst \in [moved -> LotIds \ moved] : MoveOf(take, moved, dst, b)
      BY <1>1, <2>1, MoveEffect
    <3>2. gone' = [k \in LotIds |-> [gone[k] EXCEPT !.moved = @ + take[k]]]
      BY <3>1 DEF MoveOf
    <3> QED
      BY <1>1, <3>2 DEF Gone
  <2> QED
    BY <2>1, <2>2, <2>3, <2>4, OthersKeep
<1>8. ASSUME NEW q \in Quantities, NEW d \in Days, NEW scheme \in Schemes \cup {Nothing},
             Disposal(q, d, scheme)
      PROVE  GainsInv'
  BY <1>8, DisposalWrites
<1>9. CASE UNCHANGED reportVars
  <2>1. UNCHANGED vars /\ UNCHANGED <<price, sales>>
    BY <1>9 DEF reportVars
  <2>2. LedgerInv'
    BY <1>1, <2>1, NextKeeps
  <2>3. gone' = gone
    BY <2>1 DEF vars
  <2> QED
    BY <1>1, <2>1, <2>2, <2>3, OthersKeep
<1> QED
  BY <1>2, <1>3, <1>4, <1>5, <1>6, <1>7, <1>8, <1>9 DEF ReportNext

\* The tables keep their types, and the disposals say where every share sold came from.
THEOREM GainsAlways == ReportSpec => []GainsInv
<1> QED
  BY GainsStart, GainsNext, PTL DEF ReportSpec

\* The report adds prices and a list of the disposals to the ledger and takes nothing away:
\* its histories are histories of the ledger, and what is proved of those holds here.
THEOREM ReportRunsLedger == ReportSpec => Spec
<1>1. ReportInit => Init
  BY DEF ReportInit
<1>2. [ReportNext]_reportVars => [Next]_vars
  <2> SUFFICES ASSUME [ReportNext]_reportVars PROVE [Next]_vars
    OBVIOUS
  <2>1. CASE NextDay /\ UNCHANGED <<price, sales>>
    BY <2>1 DEF Next
  <2>2. ASSUME NEW l \in LotIds, NEW d \in Days, NEW q \in Quantities, NEW c \in Currencies,
               NEW p \in Prices,
               \/ \E scheme \in Acquirable : PricedAdd(l, scheme, d, q, c, p)
               \/ \E m \in LotIds, qm \in Quantities :
                    "ESPP_PLUS" \in Acquirable /\ PricedPair(l, m, d, q, qm, c, p)
        PROVE  Next
    BY <2>2 DEF Next, PricedAdd, PricedPair
  <2>3. ASSUME NEW l \in LotIds, NEW d \in Days, NEW q \in Quantities,
               NEW c \in Currencies \cup {Nothing}, NEW p \in Prices, PricedEdit(l, d, q, c, p)
        PROVE  Next
    BY <2>3 DEF Next, PricedEdit
  <2>4. ASSUME NEW l \in LotIds, NEW c \in Currencies \cup {Nothing},
               \/ FullTransfer(l, c)
               \/ \E q \in Requests \cup {AllShares} : PricedMove(l, q, c)
        PROVE  Next
    BY <2>4 DEF Next, PricedMove
  <2>5. ASSUME NEW q \in Quantities, NEW d \in Days, NEW scheme \in Schemes \cup {Nothing},
               Disposal(q, d, scheme)
        PROVE  Next
    BY <2>5 DEF Next, Disposal
  <2>6. CASE UNCHANGED reportVars
    BY <2>6 DEF reportVars
  <2> QED
    BY <2>1, <2>2, <2>3, <2>4, <2>5, <2>6 DEF ReportNext
<1> QED
  BY <1>1, <1>2, PTL DEF ReportSpec, Spec

LEMMA GainsTable == GainsInv => Table
BY DEF GainsInv, LedgerInv, TypeOK, Table, remOf, acqOf, Lot

\* The closed forms of the two allocators, which the lot ledger is modelled with, give what
\* the loops of allocate_fifo and allocate_uk_share_matching give, lot by lot, of whatever
\* lots commit_disposal offers them.
THEOREM ClosedFormsHold == ReportSpec => []LoopsAgree
<1>1. GainsInv => LoopsAgree
  <2> SUFFICES ASSUME GainsInv, NEW d \in Days, NEW pick \in Offered(d),
                      NEW q \in 1 .. (Shares(LotIds, remOf) + 1)
               PROVE  /\ AllocateUk(pick, d, q).take = UkTake(pick, remOf, acqOf, d, q)
                      /\ (AllocateUk(pick, d, q).want = 0) = UkCovers(pick, remOf, acqOf, d, q)
                      /\ AllocateFifo(pick, q).take = FifoTake(pick, remOf, acqOf, q)
    BY DEF LoopsAgree
  <2>1. Table
    BY GainsTable
  <2>2. Shares(LotIds, remOf) \in Nat
    BY <2>1, SharesNat
  <2>3. q \in Nat /\ d \in Nat
    BY <2>2 DEF Days
  <2>4. pick \in SUBSET LotIds
    BY DEF Offered, ActiveOf
  <2> QED
    BY <2>1, <2>3, <2>4, UkGives, FifoGives
<1> QED
  BY <1>1, GainsAlways, PTL

\* The rounded lines of a disposal of everything add up to the exact cost up to half a penny
\* a line, whatever was added, corrected, moved and sold before it.
THEOREM PenniesAddUp == ReportSpec => []DisposalCostExact
<1>1. GainsInv => DisposalCostExact
  <2> SUFFICES ASSUME GainsInv PROVE DisposalCostExact
    OBVIOUS
  <2>1. Table
    BY GainsTable
  <2> QED
    BY <2>1, EverythingExact DEF DisposalCostExact
<1> QED
  BY <1>1, GainsAlways, PTL

-----------------------------------------------------------------------------
(* The steps of the report *)

Index == DOMAIN disposals

ReportState ==
  {st \in [left : [LotIds -> Nat], pooled : SUBSET LotIds, qty : Nat, cost : Int,
           shares : [Index -> Nat], basis : [Index -> Int]] :
     \A i \in Index : st.shares[i] <= disposals[i].qty}

Sale == [qty : Nat, day : Nat]

Ready ==
  /\ Table
  /\ Index \in SUBSET Nat /\ IsFiniteSet(Index)
  /\ disposals \in [Index -> Sale]
  /\ bought \in [LotIds -> Nat]

LEMMA ReadySales ==
  ASSUME Ready
  PROVE  IsFiniteSet(Index) /\ \A i \in Index : disposals[i].qty \in Nat /\ disposals[i].day \in Nat
BY DEF Ready, Sale

\* What the shares left in each lot cost.
Worth(left) == [l \in LotIds |-> LotCost(l, left[l])]

LEMMA LotCostNat ==
  ASSUME Table, NEW l \in LotIds, NEW n \in Nat, NEW m \in Nat, m <= n
  PROVE  /\ LotCost(l, n) \in Nat
         /\ LotCost(l, n - m) = LotCost(l, n) - LotCost(l, m)
         /\ LotCost(l, 0) = 0
<1>1. price[l] \in Nat /\ Fraction \in Nat
  BY ReportAssumption DEF Table
<1> DEFINE p == price[l]
           c == Fraction
<1> HIDE DEF p, c
<1>2. p \in Nat /\ c \in Nat
  BY <1>1 DEF p, c
<1>3. n * p * c \in Nat /\ (n - m) * p * c = n * p * c - m * p * c /\ 0 * p * c = 0
  <2>1. (n - m) * p = n * p - m * p /\ n * p \in Nat /\ m * p \in Nat /\ 0 * p = 0
    BY <1>2
  <2> DEFINE x == n * p
             y == m * p
  <2>2. x \in Nat /\ y \in Nat
    BY <2>1
  <2> HIDE DEF x, y
  <2>3. (x - y) * c = x * c - y * c /\ x * c \in Nat /\ 0 * c = 0
    BY <1>2, <2>2
  <2> QED
    BY <2>1, <2>3 DEF x, y
<1> QED
  BY <1>3 DEF LotCost, p, c

LEMMA CostsIsSum ==
  ASSUME Table, NEW S \in SUBSET LotIds, NEW left \in [LotIds -> Nat]
  PROVE  /\ Costs(S, left) = SumFunctionOnSet(Worth(left), S)
         /\ Costs(S, left) \in Nat
         /\ \A l \in LotIds : Worth(left)[l] \in Nat
<1> DEFINE f == [l \in S |-> LotCost(l, left[l])]
<1>1. IsFiniteSet(S) /\ \A l \in S : f[l] = Worth(left)[l]
  BY SharesNat DEF Worth
<1> HIDE DEF f
<1>2. SumFunctionOnSet(f, S) = SumFunctionOnSet(Worth(left), S)
  BY <1>1, SumEqual
<1>3. \A l \in LotIds : Worth(left)[l] \in Nat
  <2> SUFFICES ASSUME NEW l \in LotIds PROVE LotCost(l, left[l]) \in Nat
    BY DEF Worth
  <2>1. left[l] \in Nat
    OBVIOUS
  <2> QED
    BY <2>1, LotCostNat
<1>4. SumFunctionOnSet(Worth(left), S) \in Nat
  BY <1>1, <1>3, SumNat
<1> QED
  BY <1>2, <1>3, <1>4 DEF Costs, f

\* The cost a report has relieved so far, with what it can still relieve.
Total(st) ==
  SumFunctionOnSet(st.basis, Index) + st.cost + Costs(LotIds \ st.pooled, st.left)

LotsBy(e) == {l \in LotIds : acqOf[l] <= e}

Stock(st, e) == st.qty + Shares(LotsBy(e) \ st.pooled, st.left)

\* Lots acquired by day d are added to the pool without changing what there is in all.
LEMMA AddToPoolIs ==
  ASSUME Ready, NEW st \in ReportState, NEW S \in SUBSET LotIds
  PROVE  LET r == AddToPool(st, S)
         IN /\ r \in ReportState
            /\ r.left = st.left /\ r.pooled = st.pooled \cup S /\ r.shares = st.shares
            /\ Total(r) = Total(st)
            /\ \A e \in Nat : S \subseteq LotsBy(e) => Stock(r, e) = Stock(st, e)
<1> DEFINE new == S \ st.pooled
           r == AddToPool(st, S)
           rest == LotIds \ (st.pooled \cup S)
<1>1. /\ st.left \in [LotIds -> Nat] /\ st.pooled \in SUBSET LotIds /\ st.qty \in Nat /\ st.cost \in Int
      /\ st.shares \in [Index -> Nat] /\ st.basis \in [Index -> Int]
      /\ \A i \in Index : st.shares[i] <= disposals[i].qty
      /\ Table /\ new \in SUBSET LotIds /\ rest \in SUBSET LotIds
  BY DEF ReportState, Ready
<1>2. r = [st EXCEPT !.pooled = @ \cup S, !.qty = @ + Shares(new, st.left), !.cost = @ + Costs(new, st.left)]
  BY DEF AddToPool
<1> DEFINE n == Shares(new, st.left)
           c == Costs(new, st.left)
<1>3. n \in Nat /\ c \in Nat
  <2> HIDE DEF new
  <2> QED
    BY <1>1, SharesPart, CostsIsSum
<1>4. /\ r.left = st.left /\ r.pooled = st.pooled \cup S
      /\ r.qty = st.qty + n /\ r.cost = st.cost + c
      /\ r.shares = st.shares /\ r.basis = st.basis
      /\ r \in ReportState
  <2> HIDE DEF n, c
  <2>1. r = [st EXCEPT !.pooled = @ \cup S, !.qty = @ + n, !.cost = @ + c]
    BY <1>2 DEF n, c
  <2> HIDE DEF r
  <2>2. st.pooled \cup S \in SUBSET LotIds /\ st.qty + n \in Nat /\ st.cost + c \in Int
    BY <1>1, <1>3
  <2> QED
    BY <1>1, <2>1, <2>2 DEF ReportState
<1> HIDE DEF r
<1>5. Total(r) = Total(st)
  <2>1. new \cap rest = {} /\ new \cup rest = LotIds \ st.pooled
    OBVIOUS
  <2>2. IsFiniteSet(new) /\ IsFiniteSet(rest)
    BY LotIdsAssumption, FS_Subset
  <2> HIDE DEF new, rest
  <2> DEFINE f == Worth(st.left)
  <2>3. /\ c = SumFunctionOnSet(f, new)
        /\ Costs(rest, st.left) = SumFunctionOnSet(f, rest) /\ Costs(rest, st.left) \in Nat
        /\ Costs(LotIds \ st.pooled, st.left) = SumFunctionOnSet(f, LotIds \ st.pooled)
        /\ \A l \in LotIds : f[l] \in Nat
    BY <1>1, CostsIsSum
  <2> HIDE DEF f
  <2>4. SumFunctionOnSet(f, new \cup rest) = SumFunctionOnSet(f, new) + SumFunctionOnSet(f, rest)
    <3>1. \A l \in new \cup rest : f[l] \in Int
      BY <1>1, <2>3
    <3> QED
      BY <2>1, <2>2, <3>1, SumOfUnion
  <2>5. Costs(LotIds \ st.pooled, st.left) = c + Costs(rest, st.left)
    BY <2>1, <2>3, <2>4
  <2>6. LotIds \ r.pooled = rest
    BY <1>4 DEF rest
  <2>7. SumFunctionOnSet(st.basis, Index) \in Int
    BY <1>1, ReadySales, SumType
  <2> DEFINE a == SumFunctionOnSet(st.basis, Index)
             b == Costs(rest, st.left)
  <2>8. Total(r) = a + (st.cost + c) + b
    BY <1>4, <2>6 DEF Total
  <2>9. Total(st) = a + st.cost + (c + b)
    BY <2>5 DEF Total
  <2>10. a \in Int /\ b \in Int
    BY <2>3, <2>7
  <2> HIDE DEF a, b, c
  <2> QED
    BY <1>1, <1>3, <2>8, <2>9, <2>10
<1>6. ASSUME NEW e \in Nat, S \subseteq LotsBy(e)
      PROVE  Stock(r, e) = Stock(st, e)
  <2> DEFINE E == LotsBy(e) \ (st.pooled \cup S)
  <2>1. new \cap E = {} /\ new \cup E = LotsBy(e) \ st.pooled
    BY <1>6
  <2>2. E \in SUBSET LotIds
    BY DEF LotsBy
  <2>3. IsFiniteSet(new) /\ IsFiniteSet(E)
    BY <2>2, LotIdsAssumption, FS_Subset
  <2> HIDE DEF E, new
  <2>4. \A l \in new \cup E : st.left[l] \in Int
    BY <1>1, <2>2
  <2>5. SumFunctionOnSet(st.left, new \cup E) = SumFunctionOnSet(st.left, new) + SumFunctionOnSet(st.left, E)
    BY <2>1, <2>3, <2>4, SumOfUnion
  <2>6. SumFunctionOnSet(st.left, E) \in Int
    BY <2>3, <2>4, SumType
  <2>7. LotsBy(e) \ r.pooled = E
    BY <1>4 DEF E
  <2>8. Stock(r, e) = (st.qty + n) + SumFunctionOnSet(st.left, E)
    BY <1>4, <2>7 DEF Stock, Shares
  <2>9. Stock(st, e) = st.qty + (n + SumFunctionOnSet(st.left, E))
    BY <2>1, <2>5 DEF Stock, Shares
  <2> DEFINE b == SumFunctionOnSet(st.left, E)
  <2> HIDE DEF b, n
  <2>10. b \in Int
    BY <2>6 DEF b
  <2>11. Stock(r, e) = (st.qty + n) + b /\ Stock(st, e) = st.qty + (n + b)
    BY <2>8, <2>9 DEF b
  <2> QED
    BY <1>1, <1>3, <2>10, <2>11
<1> QED
  BY <1>4, <1>5, <1>6 DEF r

Wants(st, i) == disposals[i].qty - st.shares[i]

LEMMA BasisChange ==
  ASSUME Ready, NEW f \in [Index -> Int], NEW i \in Index, NEW c \in Int,
         NEW g \in [Index -> Int], g[i] = f[i] + c, \A j \in Index : j # i => g[j] = f[j]
  PROVE  /\ SumFunctionOnSet(f, Index) \in Int
         /\ SumFunctionOnSet(g, Index) = SumFunctionOnSet(f, Index) + c
<1>1. IsFiniteSet(Index)
  BY ReadySales
<1>2. SumFunctionOnSet(f, Index) \in Int
  <2>1. \A j \in Index : f[j] \in Int
    OBVIOUS
  <2> QED
    BY <1>1, <2>1, SumType
<1>3. \A j \in Index : f[j] \in Int /\ g[j] \in Int /\ (j # i => g[j] = f[j])
  OBVIOUS
<1>4. SumFunctionOnSet(g, Index) = SumFunctionOnSet(f, Index) - f[i] + g[i]
  BY <1>1, <1>3, SumOfChange
<1>5. f[i] \in Int
  OBVIOUS
<1> QED
  BY <1>2, <1>4, <1>5

\* A disposal is matched with lots not in the pool: it gets what it wants of them or all
\* they have, at what they cost.
LEMMA MatchLotsIs ==
  ASSUME Ready, NEW st \in ReportState, NEW i \in Index, NEW S \in SUBSET LotIds
  PROVE  LET r == MatchLots(st, i, S)
             n == Lesser(Wants(st, i), Shares(S, st.left))
         IN /\ r \in ReportState /\ n \in Nat
            /\ r.pooled = st.pooled /\ r.qty = st.qty
            /\ r.shares = [st.shares EXCEPT ![i] = st.shares[i] + n]
            /\ S \cap st.pooled = {} => Total(r) = Total(st)
            /\ \A E \in SUBSET LotIds : /\ Shares(E, r.left) \in Nat /\ Shares(E, st.left) \in Nat
                                        /\ Shares(E, r.left) + n >= Shares(E, st.left)
                                        /\ S \subseteq E => Shares(E, r.left) + n = Shares(E, st.left)
<1> DEFINE r == MatchLots(st, i, S)
           w == Wants(st, i)
           n == Lesser(w, Shares(S, st.left))
           take == FifoTake(S, st.left, acqOf, w)
           rest == [l \in LotIds |-> st.left[l] - take[l]]
           c == Costs(LotIds, take)
<1>1. /\ st.left \in [LotIds -> Nat] /\ st.pooled \in SUBSET LotIds /\ st.qty \in Nat /\ st.cost \in Int
      /\ st.shares \in [Index -> Nat] /\ st.basis \in [Index -> Int]
      /\ \A j \in Index : st.shares[j] <= disposals[j].qty
      /\ Table
  BY DEF ReportState, Ready
<1>2. w \in Nat /\ disposals[i].qty \in Nat /\ st.shares[i] \in Nat
  BY <1>1, ReadySales DEF Wants
<1>3. r = [st EXCEPT !.left = rest, !.shares[i] = @ + Shares(LotIds, take), !.basis[i] = @ + c]
  BY DEF MatchLots, Wants
<1>4. /\ take \in [LotIds -> Nat]
      /\ \A l \in LotIds : take[l] <= st.left[l] /\ (l \notin S => take[l] = 0)
      /\ Shares(S, st.left) \in Nat
      /\ Shares(LotIds, take) = n
  <2> DEFINE have == st.left
  <2>1. have \in [LotIds -> Nat] /\ w \in Nat /\ Table
    BY <1>1, <1>2
  <2> HIDE DEF w, have
  <2> DEFINE f == FifoTake(S, have, acqOf, w)
  <2>2. /\ f \in [LotIds -> Nat]
        /\ \A l \in LotIds : f[l] <= have[l] /\ (l \notin S => f[l] = 0)
        /\ Shares(S, have) \in Nat
        /\ Shares(LotIds, f) = Lesser(w, Shares(S, have))
    BY <2>1, FifoTotal
  <2>3. f = take /\ have = st.left
    BY DEF have
  <2> HIDE DEF f, take
  <2> QED
    BY <2>2, <2>3
<1> HIDE DEF take
<1>5. c \in Nat /\ n \in Nat /\ n <= w
  <2>1. c \in Nat
    BY <1>1, <1>4, CostsIsSum
  <2> QED
    BY <1>2, <1>4, <2>1 DEF Lesser
<1>6. rest \in [LotIds -> Nat]
  <2> SUFFICES ASSUME NEW l \in LotIds PROVE st.left[l] - take[l] \in Nat
    OBVIOUS
  <2>1. st.left[l] \in Nat /\ take[l] \in Nat /\ take[l] <= st.left[l]
    BY <1>1, <1>4
  <2> QED
    BY <2>1
<1> HIDE DEF c, n, rest, w
<1>7. r = [st EXCEPT !.left = rest, !.shares[i] = @ + n, !.basis[i] = @ + c]
  BY <1>3, <1>4
<1> HIDE DEF r
<1>8. /\ r.left = rest /\ r.pooled = st.pooled /\ r.qty = st.qty /\ r.cost = st.cost
      /\ r.shares = [st.shares EXCEPT ![i] = st.shares[i] + n]
      /\ r.basis = [st.basis EXCEPT ![i] = st.basis[i] + c]
      /\ r = [left |-> r.left, pooled |-> r.pooled, qty |-> r.qty, cost |-> r.cost,
              shares |-> r.shares, basis |-> r.basis]
  BY <1>1, <1>7 DEF ReportState
<1>9. /\ r.shares \in [Index -> Nat] /\ r.basis \in [Index -> Int]
      /\ \A j \in Index : r.shares[j] <= disposals[j].qty
      /\ r.basis[i] = st.basis[i] + c /\ \A j \in Index : j # i => r.basis[j] = st.basis[j]
  <2>1. st.shares[i] + n \in Nat /\ st.basis[i] + c \in Int /\ st.shares[i] + n <= disposals[i].qty
    BY <1>1, <1>2, <1>5 DEF w, Wants
  <2> QED
    BY <1>1, <1>8, <2>1
<1>10. r \in ReportState
  BY <1>1, <1>6, <1>8, <1>9 DEF ReportState
<1>11. ASSUME NEW E \in SUBSET LotIds
       PROVE  /\ Shares(E, r.left) \in Nat /\ Shares(E, st.left) \in Nat
              /\ Shares(E, r.left) + n >= Shares(E, st.left)
              /\ S \subseteq E => Shares(E, r.left) + n = Shares(E, st.left)
  <2>1. Shares(E, rest) \in Nat /\ Shares(E, st.left) \in Nat /\ Shares(E, take) \in Nat
    BY <1>1, <1>4, <1>6, SharesPart
  <2>2. Shares(E, take) <= n
    BY <1>4, SharesPart
  <2>4. ASSUME S \subseteq E PROVE Shares(E, take) = n
    <3>1. \A l \in LotIds \ E : take[l] = 0
      BY <1>4, <2>4
    <3> QED
      BY <1>4, <3>1, SharesPart
  <2>3. Shares(E, rest) = Shares(E, st.left) - Shares(E, take)
    <3>1. \A l \in E : st.left[l] \in Int /\ take[l] \in Int /\ rest[l] = st.left[l] - take[l]
      BY <1>1, <1>4 DEF rest
    <3> QED
      BY <3>1, SharesMove
  <2> QED
    BY <1>5, <1>8, <2>1, <2>2, <2>3, <2>4
<1>12. ASSUME S \cap st.pooled = {}
       PROVE  Total(r) = Total(st)
  <2> DEFINE E == LotIds \ st.pooled
             f == Worth(st.left)
             g == Worth(take)
             h == Worth(rest)
  <2>1. /\ E \in SUBSET LotIds /\ IsFiniteSet(E)
        /\ \A l \in LotIds \ E : l \notin S
    BY <1>12, LotIdsAssumption, FS_Subset
  <2> HIDE DEF E
  <2>2. /\ Costs(E, st.left) = SumFunctionOnSet(f, E) /\ Costs(E, st.left) \in Nat
        /\ Costs(E, take) = SumFunctionOnSet(g, E) /\ Costs(E, take) \in Nat
        /\ Costs(E, rest) = SumFunctionOnSet(h, E) /\ Costs(E, rest) \in Nat
        /\ Costs(LotIds, take) = SumFunctionOnSet(g, LotIds)
        /\ \A l \in LotIds : f[l] \in Nat /\ g[l] \in Nat /\ h[l] \in Nat
    BY <1>1, <1>4, <1>6, <2>1, CostsIsSum
  <2>3. \A l \in LotIds : f[l] = g[l] + h[l] /\ (take[l] = 0 => g[l] = 0)
    <3> SUFFICES ASSUME NEW l \in LotIds
                 PROVE  /\ LotCost(l, st.left[l]) = LotCost(l, take[l]) + LotCost(l, st.left[l] - take[l])
                        /\ take[l] = 0 => LotCost(l, take[l]) = 0
      BY DEF Worth, rest
    <3> DEFINE x == st.left[l]
               y == take[l]
    <3>1. x \in Nat /\ y \in Nat /\ y <= x
      BY <1>1, <1>4
    <3> HIDE DEF x, y
    <3>2. /\ LotCost(l, x) \in Nat /\ LotCost(l, y) \in Nat
          /\ LotCost(l, x - y) = LotCost(l, x) - LotCost(l, y)
          /\ LotCost(l, 0) = 0
      BY <1>1, <3>1, LotCostNat
    <3> QED
      BY <3>2 DEF x, y
  <2> HIDE DEF f, g, h
  <2>4. SumFunctionOnSet(f, E) = SumFunctionOnSet(g, E) + SumFunctionOnSet(h, E)
    <3>1. \A l \in E : g[l] \in Int /\ h[l] \in Int /\ f[l] = g[l] + h[l]
      BY <2>1, <2>2, <2>3
    <3> QED
      BY <2>1, <3>1, SumPlus
  <2>5. SumFunctionOnSet(g, E) = c
    <3>1. g \in [LotIds -> Nat]
      BY <2>2 DEF g, Worth
    <3>2. \A l \in LotIds \ E : g[l] = 0
      BY <1>4, <2>1, <2>3
    <3>3. Shares(E, g) = Shares(LotIds, g)
      BY <2>1, <3>1, <3>2, SharesPart
    <3> QED
      BY <2>2, <3>3 DEF Shares, c
  <2> DEFINE a == SumFunctionOnSet(st.basis, Index)
             b == Costs(E, rest)
  <2>6. Costs(E, st.left) = c + b
    BY <2>2, <2>4, <2>5
  <2>7. a \in Int /\ SumFunctionOnSet(r.basis, Index) = a + c
    <3> DEFINE before == st.basis
               after == r.basis
    <3>1. /\ before \in [Index -> Int] /\ after \in [Index -> Int] /\ c \in Int
          /\ after[i] = before[i] + c /\ \A j \in Index : j # i => after[j] = before[j]
      BY <1>1, <1>5, <1>9
    <3> HIDE DEF before, after
    <3>2. /\ SumFunctionOnSet(before, Index) \in Int
          /\ SumFunctionOnSet(after, Index) = SumFunctionOnSet(before, Index) + c
      BY <3>1, BasisChange
    <3> QED
      BY <3>2 DEF before, after
  <2>8. Total(r) = a + c + st.cost + b
    BY <1>8, <2>7 DEF Total, E
  <2>9. Total(st) = a + st.cost + (c + b)
    BY <2>6 DEF Total, E
  <2>10. b \in Int
    BY <2>2
  <2> HIDE DEF a, b
  <2> QED
    BY <1>1, <1>5, <2>7, <2>8, <2>9, <2>10
<1> QED
  BY <1>5, <1>8, <1>10, <1>11, <1>12 DEF r, n, w

\* The rest of a disposal is matched with the pool, which gives up what it relieves.
LEMMA MatchPoolIs ==
  ASSUME Ready, NEW st \in ReportState, NEW i \in Index
  PROVE  LET r == MatchPool(st, i)
             n == Lesser(Wants(st, i), st.qty)
         IN /\ r \in ReportState /\ n \in Nat
            /\ r.pooled = st.pooled /\ r.left = st.left /\ r.qty = st.qty - n
            /\ r.shares = [st.shares EXCEPT ![i] = st.shares[i] + n]
            /\ Total(r) = Total(st)
<1> DEFINE r == MatchPool(st, i)
           w == Wants(st, i)
           n == Lesser(w, st.qty)
           m == IF w < st.qty THEN w ELSE st.qty
           c == IF m = 0 THEN 0 ELSE (m * st.cost) \div st.qty
<1>1. /\ st.left \in [LotIds -> Nat] /\ st.pooled \in SUBSET LotIds /\ st.qty \in Nat /\ st.cost \in Int
      /\ st.shares \in [Index -> Nat] /\ st.basis \in [Index -> Int]
      /\ \A j \in Index : st.shares[j] <= disposals[j].qty
      /\ Table
  BY DEF ReportState, Ready
<1>2. w \in Nat /\ disposals[i].qty \in Nat /\ st.shares[i] \in Nat
  BY <1>1, ReadySales DEF Wants
<1>3. r = [st EXCEPT !.qty = @ - m, !.cost = @ - c, !.shares[i] = @ + m, !.basis[i] = @ + c]
  BY DEF MatchPool, Wants
<1> HIDE DEF w
<1>4. m \in Nat /\ m <= w /\ m <= st.qty /\ m = n
  BY <1>1, <1>2 DEF Lesser
<1> HIDE DEF m, n
<1>5. c \in Int
  <2> DEFINE x == m * st.cost
  <2>1. x \in Int
    BY <1>1, <1>4
  <2> HIDE DEF x
  <2>2. m # 0 => st.qty \in Nat \ {0}
    BY <1>1, <1>4
  <2>3. \A k \in Nat \ {0} : x \div k \in Int
    BY <2>1
  <2> QED
    BY <2>2, <2>3 DEF x
<1> HIDE DEF r, c
<1>6. /\ r.left = st.left /\ r.pooled = st.pooled /\ r.qty = st.qty - m /\ r.cost = st.cost - c
      /\ r.shares = [st.shares EXCEPT ![i] = st.shares[i] + m]
      /\ r.basis = [st.basis EXCEPT ![i] = st.basis[i] + c]
      /\ r = [left |-> r.left, pooled |-> r.pooled, qty |-> r.qty, cost |-> r.cost,
              shares |-> r.shares, basis |-> r.basis]
  BY <1>1, <1>3 DEF ReportState
<1>7. /\ r.shares \in [Index -> Nat] /\ r.basis \in [Index -> Int]
      /\ \A j \in Index : r.shares[j] <= disposals[j].qty
      /\ r.basis[i] = st.basis[i] + c /\ \A j \in Index : j # i => r.basis[j] = st.basis[j]
  <2>1. st.shares[i] + m \in Nat /\ st.basis[i] + c \in Int /\ st.shares[i] + m <= disposals[i].qty
    BY <1>1, <1>2, <1>4, <1>5 DEF w, Wants
  <2> QED
    BY <1>1, <1>6, <2>1
<1>8. st.qty - m \in Nat /\ st.cost - c \in Int
  BY <1>1, <1>4, <1>5
<1>9. r \in ReportState
  BY <1>1, <1>6, <1>7, <1>8 DEF ReportState
<1>10. Total(r) = Total(st)
  <2> DEFINE a == SumFunctionOnSet(st.basis, Index)
             b == Costs(LotIds \ st.pooled, st.left)
  <2>1. a \in Int /\ SumFunctionOnSet(r.basis, Index) = a + c
    <3> DEFINE f == st.basis
               g == r.basis
    <3>1. /\ f \in [Index -> Int] /\ g \in [Index -> Int] /\ c \in Int
          /\ g[i] = f[i] + c /\ \A j \in Index : j # i => g[j] = f[j]
      BY <1>1, <1>5, <1>7
    <3> HIDE DEF f, g
    <3>2. /\ SumFunctionOnSet(f, Index) \in Int
          /\ SumFunctionOnSet(g, Index) = SumFunctionOnSet(f, Index) + c
      BY <3>1, BasisChange
    <3> QED
      BY <3>2 DEF f, g
  <2>2. b \in Nat
    <3> DEFINE E == LotIds \ st.pooled
    <3>1. E \in SUBSET LotIds
      OBVIOUS
    <3> HIDE DEF E
    <3>2. Costs(E, st.left) \in Nat
      BY <1>1, <3>1, CostsIsSum
    <3> QED
      BY <3>2 DEF E
  <2>3. Total(r) = a + c + (st.cost - c) + b /\ Total(st) = a + st.cost + b
    BY <1>6, <2>1 DEF Total
  <2> HIDE DEF a, b
  <2> QED
    BY <1>1, <1>5, <2>1, <2>2, <2>3
<1> QED
  BY <1>4, <1>6, <1>9, <1>10 DEF r, n, w

-----------------------------------------------------------------------------
(* A disposal finds all its shares *)

Qty == [i \in Index |-> disposals[i].qty]

\* What the disposals up to day e want that are not among those in D.
Wanted(D, e) == SumFunctionOnSet(Qty, {i \in Index \ D : disposals[i].day <= e})

LEMMA WantedWithout ==
  ASSUME Ready, NEW D \in SUBSET Index, NEW i \in Index \ D, NEW e \in Nat
  PROVE  /\ Wanted(D, e) \in Nat /\ Wanted(D \cup {i}, e) \in Nat
         /\ disposals[i].day <= e => Wanted(D, e) = disposals[i].qty + Wanted(D \cup {i}, e)
         /\ ~(disposals[i].day <= e) => Wanted(D, e) = Wanted(D \cup {i}, e)
<1> DEFINE A == {j \in Index \ D : disposals[j].day <= e}
           B == {j \in Index \ (D \cup {i}) : disposals[j].day <= e}
<1>1. IsFiniteSet(A) /\ IsFiniteSet(B)
  BY ReadySales, FS_Subset
<1>2. \A j \in Index : Qty[j] = disposals[j].qty /\ Qty[j] \in Nat
  BY ReadySales DEF Qty
<1>3. A \subseteq Index /\ B \subseteq Index
  OBVIOUS
<1>4. disposals[i].day <= e => i \in A /\ B = A \ {i}
  OBVIOUS
<1>5. ~(disposals[i].day <= e) => B = A
  OBVIOUS
<1> HIDE DEF A, B
<1>6. /\ \A j \in A : Qty[j] \in Nat
      /\ \A j \in B : Qty[j] \in Nat
  BY <1>2, <1>3
<1>7. SumFunctionOnSet(Qty, A) \in Nat /\ SumFunctionOnSet(Qty, B) \in Nat
  BY <1>1, <1>6, SumNat
<1>8. ASSUME disposals[i].day <= e
      PROVE  SumFunctionOnSet(Qty, A) = disposals[i].qty + SumFunctionOnSet(Qty, B)
  <2>1. i \in A /\ B = A \ {i}
    BY <1>4, <1>8
  <2>2. \A j \in A : Qty[j] \in Int
    BY <1>6
  <2>3. SumFunctionOnSet(Qty, A) = Qty[i] + SumFunctionOnSet(Qty, A \ {i})
    BY <1>1, <2>1, <2>2, SumRemove
  <2> QED
    BY <1>2, <2>1, <2>3
<1> QED
  BY <1>5, <1>7, <1>8 DEF Wanted, A, B

\* The rows bought by any day are enough for the disposals up to it.
Enough == \A e \in Nat : Wanted({}, e) <= Shares(LotsBy(e), bought)

\* The disposals in D are matched in full and no other, what the report holds by day d or
\* any later day is enough for the others, and it holds all shares that D did not take.
Complete(st, D, d) ==
  /\ \A i \in Index : st.shares[i] = IF i \in D THEN disposals[i].qty ELSE 0
  /\ \A e \in Nat : d <= e => Wanted(D, e) <= Stock(st, e)
  /\ \A e \in Nat : (d <= e /\ LotsBy(e) = LotIds) =>
       Stock(st, e) + Wanted({}, e) = Shares(LotIds, bought) + Wanted(D, e)

\* The report accounts for the cost of the rows it read, and when they are enough it is
\* complete for the disposals in D.
Progress(st, D, d) ==
  /\ st \in ReportState
  /\ Total(st) = Costs(LotIds, bought)
  /\ Enough => Complete(st, D, d)

LEMMA WantedNat ==
  ASSUME Ready, NEW D, NEW e
  PROVE  Wanted(D, e) \in Nat
<1> DEFINE A == {j \in Index \ D : disposals[j].day <= e}
<1>1. A \in SUBSET Index
  OBVIOUS
<1>2. \A j \in A : Qty[j] \in Nat
  BY ReadySales DEF Qty
<1> HIDE DEF A
<1>3. IsFiniteSet(A)
  BY <1>1, ReadySales, FS_Subset
<1>4. SumFunctionOnSet(Qty, A) \in Nat
  BY <1>2, <1>3, SumNat
<1> QED
  BY <1>4 DEF Wanted, A

LEMMA MatchStep ==
  ASSUME Ready, NEW st, NEW D \in SUBSET Index, NEW i \in Index \ D,
         Progress(st, D, disposals[i].day), st.pooled = BoughtBefore(disposals[i].day)
  PROVE  /\ Progress(Match(st, i), D \cup {i}, disposals[i].day)
         /\ Match(st, i).pooled = BoughtBefore(disposals[i].day)
<1> DEFINE d == disposals[i].day
           q == disposals[i].qty
           On == BoughtOn(d)
           Soon == Repurchases(d)
           s1 == MatchLots(st, i, On)
           s2 == MatchLots(s1, i, Soon)
           r == MatchPool(s2, i)
           B == Shares(On, st.left)
           n1 == Lesser(Wants(st, i), B)
           n2 == Lesser(Wants(s1, i), Shares(Soon, s1.left))
           n3 == Lesser(Wants(s2, i), s2.qty)
<1>1. /\ st \in ReportState
      /\ d \in Nat /\ q \in Nat /\ i \in Index
      /\ \A l \in LotIds : acqOf[l] \in Nat
  BY ReadySales DEF Progress, Ready, Table
<1>2. /\ On \in SUBSET LotIds /\ Soon \in SUBSET LotIds
      /\ On \cap BoughtBefore(d) = {} /\ Soon \cap BoughtBefore(d) = {}
      /\ LotsBy(d) \ BoughtBefore(d) = On
  <2>1. \A x, y \in Nat : /\ x = y => ~(x < y)
                          /\ y < x => ~(x < y)
                          /\ (x <= y /\ ~(x < y)) = (x = y)
    OBVIOUS
  <2> HIDE DEF d
  <2>2. /\ On \in SUBSET LotIds /\ Soon \in SUBSET LotIds
    BY DEF BoughtOn, Repurchases
  <2>3. On \cap BoughtBefore(d) = {} /\ Soon \cap BoughtBefore(d) = {}
    BY <1>1, <2>1 DEF BoughtOn, BoughtBefore, Repurchases
  <2>4. LotsBy(d) \ BoughtBefore(d) = On
    BY <1>1, <2>1 DEF BoughtOn, BoughtBefore, LotsBy
  <2> QED
    BY <2>2, <2>3, <2>4
<1>3. Match(st, i) = r
  BY DEF Match
<1> HIDE DEF On, Soon
<1>4. /\ s1 \in ReportState /\ n1 \in Nat
      /\ s1.pooled = st.pooled /\ s1.qty = st.qty
      /\ s1.shares = [st.shares EXCEPT ![i] = st.shares[i] + n1]
      /\ Total(s1) = Total(st)
      /\ \A E \in SUBSET LotIds : /\ Shares(E, s1.left) \in Nat /\ Shares(E, st.left) \in Nat
                                  /\ Shares(E, s1.left) + n1 >= Shares(E, st.left)
                                  /\ On \subseteq E => Shares(E, s1.left) + n1 = Shares(E, st.left)
  BY <1>1, <1>2, MatchLotsIs
<1> HIDE DEF s1, n1
<1>5. /\ s2 \in ReportState /\ n2 \in Nat
      /\ s2.pooled = s1.pooled /\ s2.qty = s1.qty
      /\ s2.shares = [s1.shares EXCEPT ![i] = s1.shares[i] + n2]
      /\ Total(s2) = Total(s1)
      /\ \A E \in SUBSET LotIds : /\ Shares(E, s2.left) \in Nat
                                  /\ Shares(E, s2.left) + n2 >= Shares(E, s1.left)
                                  /\ Soon \subseteq E => Shares(E, s2.left) + n2 = Shares(E, s1.left)
  <2>1. s1 \in ReportState /\ Soon \in SUBSET LotIds /\ i \in Index /\ Soon \cap s1.pooled = {}
    BY <1>1, <1>2, <1>4
  <2>2. /\ s2 \in ReportState /\ n2 \in Nat
        /\ s2.pooled = s1.pooled /\ s2.qty = s1.qty
        /\ s2.shares = [s1.shares EXCEPT ![i] = s1.shares[i] + n2]
        /\ Soon \cap s1.pooled = {} => Total(s2) = Total(s1)
        /\ \A E \in SUBSET LotIds : /\ Shares(E, s2.left) \in Nat /\ Shares(E, s1.left) \in Nat
                                    /\ Shares(E, s2.left) + n2 >= Shares(E, s1.left)
                                    /\ Soon \subseteq E => Shares(E, s2.left) + n2 = Shares(E, s1.left)
    BY <2>1, MatchLotsIs
  <2> QED
    BY <2>1, <2>2
<1> HIDE DEF s2, n2
<1>6. /\ r \in ReportState /\ n3 \in Nat
      /\ r.pooled = s2.pooled /\ r.left = s2.left /\ r.qty = s2.qty - n3
      /\ r.shares = [s2.shares EXCEPT ![i] = s2.shares[i] + n3]
      /\ Total(r) = Total(s2)
  BY <1>1, <1>5, MatchPoolIs
<1> HIDE DEF r, n3
<1>7. /\ st.shares \in [Index -> Nat] /\ st.qty \in Nat
      /\ s1.shares \in [Index -> Nat] /\ s2.shares \in [Index -> Nat]
  BY <1>1, <1>4, <1>5 DEF ReportState
<1>8. ASSUME Enough
      PROVE  Complete(r, D \cup {i}, d)
  <2>1. Complete(st, D, d) /\ st.shares[i] = 0
    <3>1. Complete(st, D, d)
      BY <1>8 DEF Progress
    <3> QED
      BY <3>1 DEF Complete
  <2>2. /\ s1.shares[i] = n1 /\ s2.shares[i] = n1 + n2 /\ r.shares[i] = n1 + n2 + n3
        /\ \A j \in Index : j # i => r.shares[j] = st.shares[j]
    <3>1. s1.shares[i] = 0 + n1 /\ \A j \in Index : j # i => s1.shares[j] = st.shares[j]
      BY <2>1, <1>4, <1>7
    <3>2. s1.shares[i] = n1
      BY <1>4, <3>1
    <3>3. s2.shares[i] = n1 + n2 /\ \A j \in Index : j # i => s2.shares[j] = s1.shares[j]
      BY <1>1, <1>5, <1>7, <3>2
    <3>4. r.shares[i] = n1 + n2 + n3 /\ \A j \in Index : j # i => r.shares[j] = s2.shares[j]
      BY <1>1, <1>6, <1>7, <3>3
    <3> QED
      BY <3>1, <3>2, <3>3, <3>4
  <2>3. /\ Wanted(D, d) <= st.qty + B /\ B \in Nat
        /\ Wanted(D, d) = q + Wanted(D \cup {i}, d) /\ Wanted(D \cup {i}, d) \in Nat
    <3>1. Wanted(D, d) <= Stock(st, d)
      <4>1. d <= d
        BY <1>1
      <4> QED
        BY <1>1, <2>1, <4>1 DEF Complete
    <3>2. Stock(st, d) = st.qty + B
      <4> HIDE DEF d
      <4> QED
        BY <1>2 DEF Stock, d
    <3>3. d <= d
      BY <1>1
    <3>4. Wanted(D, d) = q + Wanted(D \cup {i}, d) /\ Wanted(D \cup {i}, d) \in Nat
      BY <1>1, <3>3, WantedWithout
    <3> QED
      BY <1>2, <1>4, <3>1, <3>2, <3>4
  <2>4. q <= st.qty + B
    <3> DEFINE u == Wanted(D \cup {i}, d)
    <3>1. u \in Nat /\ q + u <= st.qty + B
      BY <2>3
    <3> HIDE DEF u, B, q
    <3> QED
      BY <1>1, <1>7, <2>3, <3>1
  <2>5. n1 + n2 + n3 = q
    <3> DEFINE R == Shares(Soon, s1.left)
               a == st.qty
    <3>1. R \in Nat /\ a \in Nat
      BY <1>2, <1>4, <1>7
    <3>2. n1 = Lesser(q - 0, B)
      BY <2>1 DEF n1, Wants
    <3>3. n2 = Lesser(q - n1, R)
      BY <2>2 DEF n2, Wants
    <3>4. n3 = Lesser(q - (n1 + n2), a)
      BY <1>4, <1>5, <2>2 DEF n3, Wants
    <3>5. q <= a + B
      BY <2>4
    <3> HIDE DEF R, B, q, a
    <3> QED
      BY <1>1, <1>4, <1>5, <1>6, <2>3, <3>1, <3>2, <3>3, <3>4, <3>5 DEF Lesser
  <2>6. ASSUME NEW e \in Nat, d <= e
         PROVE  Wanted(D \cup {i}, e) <= Stock(r, e)
    <3> DEFINE E == LotsBy(e) \ st.pooled
               x0 == Shares(E, st.left)
               x1 == Shares(E, s1.left)
               x2 == Shares(E, s2.left)
               u == Wanted(D, e)
               v == Wanted(D \cup {i}, e)
    <3>1. E \in SUBSET LotIds
      BY DEF LotsBy
    <3> HIDE DEF E
    <3>2. x0 \in Nat /\ x1 \in Nat /\ x2 \in Nat /\ x1 + n1 >= x0 /\ x2 + n2 >= x1
      BY <1>4, <1>5, <3>1
    <3>3. u <= st.qty + x0
      BY <2>1, <2>6 DEF Complete, Stock, E
    <3>4. Stock(r, e) = (st.qty - n3) + x2
      BY <1>4, <1>5, <1>6 DEF Stock, E
    <3>5. u = q + v /\ v \in Nat
      BY <1>1, <2>6, WantedWithout
    <3> HIDE DEF x0, x1, x2, u, v, q
    <3>6. v <= (st.qty - n3) + x2
      BY <1>1, <1>4, <1>5, <1>6, <1>7, <2>5, <3>2, <3>3, <3>5
    <3> QED
      BY <3>4, <3>6 DEF v
  <2>7. \A j \in Index : r.shares[j] = IF j \in D \cup {i} THEN disposals[j].qty ELSE 0
    BY <2>1, <2>2, <2>5 DEF Complete
  <2>8. ASSUME NEW e \in Nat, d <= e, LotsBy(e) = LotIds
        PROVE  Stock(r, e) + Wanted({}, e) = Shares(LotIds, bought) + Wanted(D \cup {i}, e)
    <3> DEFINE E == LotIds \ st.pooled
               x0 == Shares(E, st.left)
               x1 == Shares(E, s1.left)
               x2 == Shares(E, s2.left)
               u == Wanted(D, e)
               v == Wanted(D \cup {i}, e)
               w == Wanted({}, e)
               k == Shares(LotIds, bought)
    <3>1. E \in SUBSET LotIds /\ On \subseteq E /\ Soon \subseteq E
      BY <1>2
    <3> HIDE DEF E
    <3>2. x0 \in Nat /\ x1 \in Nat /\ x2 \in Nat /\ x1 + n1 = x0 /\ x2 + n2 = x1
      BY <1>4, <1>5, <3>1
    <3>3. (st.qty + x0) + w = k + u
      BY <2>1, <2>8 DEF Complete, Stock, E
    <3>4. Stock(r, e) = (st.qty - n3) + x2
      BY <1>4, <1>5, <1>6, <2>8 DEF Stock, E
    <3>5. u = q + v /\ v \in Nat /\ u \in Nat
      BY <1>1, <2>8, WantedWithout
    <3>6. w \in Nat /\ k \in Int
      <4>1. w \in Nat
        BY WantedNat
      <4>2. bought \in [LotIds -> Nat] /\ LotIds \in SUBSET LotIds
        BY DEF Ready
      <4>3. k \in Nat
        BY <4>2, SharesPart
      <4> QED
        BY <4>1, <4>3
    <3> HIDE DEF x0, x1, x2, u, v, w, k, q
    <3>7. ((st.qty - n3) + x2) + w = k + v
      BY <1>1, <1>4, <1>5, <1>6, <1>7, <2>5, <3>2, <3>3, <3>5, <3>6
    <3> QED
      BY <3>4, <3>7 DEF v, w, k
  <2> QED
    BY <2>6, <2>7, <2>8 DEF Complete
<1>9. Total(r) = Costs(LotIds, bought) /\ r.pooled = BoughtBefore(d)
  BY <1>4, <1>5, <1>6 DEF Progress
<1> QED
  BY <1>3, <1>6, <1>8, <1>9 DEF Progress

-----------------------------------------------------------------------------
(* The disposals of a day, one after the other *)

LEMMA MaxIs ==
  ASSUME NEW S \in SUBSET Nat, IsFiniteSet(S), S # {}
  PROVE  Max(S) \in S /\ \A y \in S : y <= Max(S)
<1> DEFINE Most(x, s) == \A y \in s : x >= y
           F == {s \in SUBSET S : s # {} => \E x \in s : Most(x, s)}
<1>1. {} \in F
  OBVIOUS
<1>2. ASSUME NEW s \in SUBSET S, s # {}, \A x \in s : s \ {x} \in F
      PROVE  s \in F
  <2>1. PICK x \in s : TRUE
    BY <1>2
  <2>2. s \in SUBSET Nat /\ x \in Nat
    OBVIOUS
  <2>3. CASE s \ {x} = {}
    <3>1. x >= x
      BY <2>2
    <3>2. Most(x, s)
      BY <2>3, <3>1
    <3> QED
      BY <2>1, <3>2
  <2>4. CASE s \ {x} # {}
    <3>1. PICK m \in s \ {x} : Most(m, s \ {x})
      BY <1>2, <2>1, <2>4
    <3>2. m \in Nat
      BY <2>2
    <3>3. CASE m >= x
      <4>1. Most(m, s)
        BY <3>1, <3>3
      <4> QED
        BY <4>1
    <3>4. CASE ~(m >= x)
      <4>1. x >= x /\ \A y \in s \ {x} : x >= y
        BY <2>2, <3>1, <3>2, <3>4
      <4>2. Most(x, s)
        BY <4>1
      <4> QED
        BY <2>1, <4>2
    <3> QED
      BY <3>3, <3>4
  <2> QED
    BY <2>3, <2>4
<1>3. F = SUBSET S
  <2> HIDE DEF F
  <2>1. F \in SUBSET SUBSET S
    BY DEF F
  <2> QED
    BY <1>1, <1>2, <2>1, SubsetsAll
<1>4. \E x \in S : Most(x, S)
  BY <1>3
<1>5. Max(S) \in S /\ \A y \in S : Max(S) >= y
  BY <1>4 DEF Max
<1> HIDE DEF Most
<1>6. Max(S) \in Nat
  BY <1>5
<1> QED
  BY <1>5, <1>6

LEMMA MatchType ==
  ASSUME Ready, NEW st \in ReportState, NEW i \in Index
  PROVE  Match(st, i) \in ReportState
<1> DEFINE On == BoughtOn(disposals[i].day)
           Soon == Repurchases(disposals[i].day)
           s1 == MatchLots(st, i, On)
           s2 == MatchLots(s1, i, Soon)
<1>1. On \in SUBSET LotIds /\ Soon \in SUBSET LotIds
  BY DEF BoughtOn, Repurchases
<1>2. Match(st, i) = MatchPool(s2, i)
  BY DEF Match
<1> HIDE DEF On, Soon
<1>3. s1 \in ReportState
  BY <1>1, MatchLotsIs
<1> HIDE DEF s1
<1>4. s2 \in ReportState
  BY <1>1, <1>3, MatchLotsIs
<1> HIDE DEF s2
<1> QED
  BY <1>2, <1>4, MatchPoolIs

\* The disposals of a day are matched one after the other, the last of them last.
MatchedBy(P, before, d) ==
  /\ P[{}] = before
  /\ \A s \in SUBSET SalesOf(d) : s # {} => P[s] = Match(P[s \ {Max(s)}], Max(s))
  /\ P[SalesOf(d)] = Loop(Match, before, Max, SalesOf(d))

LEMMA SalesOfDay ==
  ASSUME Ready, NEW d, NEW s \in SUBSET SalesOf(d), s # {}
  PROVE  IsFiniteSet(s) /\ Max(s) \in s /\ Max(s) \in Index /\ disposals[Max(s)].day = d
<1>1. SalesOf(d) \subseteq Index /\ Index \subseteq Nat
  BY DEF SalesOf, Index, Ready
<1>2. IsFiniteSet(s) /\ s \in SUBSET Nat
  BY <1>1, ReadySales, FS_Subset
<1>3. Max(s) \in s
  BY <1>2, MaxIs
<1> QED
  BY <1>1, <1>2, <1>3 DEF SalesOf

LEMMA DayLoop ==
  ASSUME Ready, NEW before \in ReportState, NEW d
  PROVE  \E P \in [SUBSET SalesOf(d) -> ReportState] : MatchedBy(P, before, d)
<1> DEFINE S == SalesOf(d)
           Eq(P) == P = [s \in SUBSET S |-> IF s = {} THEN before ELSE Match(P[s \ {Max(s)}], Max(s))]
           step == [w \in ReportState \X S |-> Match(w[1], w[2])]
           last == [s \in SUBSET S |-> Max(s)]
<1>1. IsFiniteSet(S) /\ S \subseteq Index
  <2>1. S \subseteq Index
    BY DEF SalesOf, Index
  <2> HIDE DEF S
  <2> QED
    BY <2>1, ReadySales, FS_Subset
<1>2. step \in [ReportState \X S -> ReportState]
  <2> SUFFICES ASSUME NEW w \in ReportState \X S PROVE Match(w[1], w[2]) \in ReportState
    OBVIOUS
  <2>1. w[1] \in ReportState /\ w[2] \in Index
    BY <1>1
  <2> QED
    BY <2>1, MatchType
<1>3. \A s \in SUBSET S : s # {} => last[s] = Max(s) /\ Max(s) \in s
  BY SalesOfDay
<1> HIDE DEF S
<1>4. PICK A \in [SUBSET S -> ReportState] : Computes(A, S, before, step, last)
  <2> HIDE DEF step, last, Eq
  <2>1. \A s \in SUBSET S : s # {} => last[s] \in s
    BY <1>3
  <2> QED
    BY <1>1, <1>2, <2>1, LoopExists
<1>5. ASSUME NEW s \in SUBSET S, s # {}
      PROVE  A[s] = Match(A[s \ {Max(s)}], Max(s))
  <2>1. <<A[s \ {Max(s)}], Max(s)>> \in ReportState \X S
    BY <1>3, <1>5
  <2>2. A[s] = step[<<A[s \ {Max(s)}], Max(s)>>]
    <3> HIDE DEF step, last
    <3> QED
      BY <1>3, <1>4, <1>5 DEF Computes
  <2> QED
    BY <2>1, <2>2
<1>6. A[{}] = before
  <2> HIDE DEF step, last
  <2> QED
    BY <1>4 DEF Computes
<1>7. Eq(A)
  BY <1>5, <1>6
<1> DEFINE C == CHOOSE P : Eq(P)
<1>8. Eq(C)
  <2> HIDE DEF Eq
  <2> QED
    BY <1>7
<1>9. A[S] = C[S]
  <2> HIDE DEF C
  <2>1. A[{}] = C[{}]
    BY <1>6, <1>8
  <2>2. ASSUME NEW s \in SUBSET S, s # {}
        PROVE  \E x \in s : A[s \ {x}] = C[s \ {x}] => A[s] = C[s]
    <3>1. C[s] = Match(C[s \ {Max(s)}], Max(s))
      BY <1>8, <2>2
    <3> QED
      BY <1>3, <1>5, <2>2, <3>1
  <2> HIDE DEF Eq, step, last
  <2> QED
    BY <1>1, <2>1, <2>2, LoopUnique
<1>10. Loop(Match, before, Max, S) = C[S]
  BY DEF Loop, MapThenFoldSet
<1> HIDE DEF C, Eq
<1> QED
  BY <1>5, <1>6, <1>9, <1>10 DEF MatchedBy, S

\* The days of the disposals are matched one after the other, the last day last.
DaysOfSales == {disposals[i].day : i \in DOMAIN disposals}
ReportedBy(P) ==
  /\ P[{}] = Fresh
  /\ \A s \in SUBSET DaysOfSales : s # {} => P[s] = MatchDay(P[s \ {Max(s)}], Max(s))
  /\ P[DaysOfSales] = HmrcMatches

LEMMA SaleDays ==
  ASSUME Ready
  PROVE  DaysOfSales \in SUBSET Nat /\ IsFiniteSet(DaysOfSales)
<1>1. DaysOfSales = {disposals[i].day : i \in Index}
  BY DEF DaysOfSales, Index
<1>2. \A i \in Index : disposals[i].day \in Nat
  BY ReadySales
<1>3. IsFiniteSet({disposals[i].day : i \in Index})
  <2> DEFINE f == [i \in Index |-> disposals[i].day]
             T == {disposals[i].day : i \in Index}
  <2>1. f \in [Index -> T] /\ \A t \in T : \E i \in Index : f[i] = t
    OBVIOUS
  <2> HIDE DEF f, T
  <2>2. f \in Surjection(Index, T)
    BY <2>1 DEF Surjection
  <2>3. IsFiniteSet(Index)
    BY ReadySales
  <2>4. IsFiniteSet(T)
    BY <2>2, <2>3, FS_Surjection
  <2> QED
    BY <2>4 DEF T
<1> QED
  BY <1>1, <1>2, <1>3

-----------------------------------------------------------------------------
(* A day of the report *)

Done(T) == {i \in Index : disposals[i].day \in T}

\* What holds of the report after the days of T, on any day that is later than those.
Reported(st, T) ==
  /\ st \in ReportState
  /\ \A d \in Nat : (\A t \in T : t < d) => Progress(st, Done(T), d) /\ st.pooled \subseteq BoughtBefore(d)

LEMMA LotsOfDay ==
  ASSUME Ready, NEW d \in Nat
  PROVE  /\ BoughtBefore(d) \in SUBSET LotIds /\ BoughtOn(d) \in SUBSET LotIds
         /\ \A e \in Nat : d <= e => BoughtBefore(d) \subseteq LotsBy(e) /\ BoughtOn(d) \subseteq LotsBy(e)
         /\ \A e \in Nat : d < e => BoughtBefore(d) \subseteq BoughtBefore(e) /\ BoughtOn(d) \subseteq BoughtBefore(e)
<1>1. \A l \in LotIds : acqOf[l] \in Nat
  BY DEF Ready, Table
<1>2. \A n, m, k \in Nat : /\ n < m /\ m <= k => n <= k
                           /\ n < m /\ m < k => n < k
  OBVIOUS
<1> QED
  BY <1>1, <1>2 DEF BoughtBefore, BoughtOn, LotsBy

LEMMA PoolKeeps ==
  ASSUME Ready, NEW st, NEW D, NEW d \in Nat, Progress(st, D, d), NEW S \in SUBSET LotIds,
         \A e \in Nat : d <= e => S \subseteq LotsBy(e)
  PROVE  /\ Progress(AddToPool(st, S), D, d)
         /\ AddToPool(st, S).pooled = st.pooled \cup S
<1> DEFINE r == AddToPool(st, S)
<1>1. st \in ReportState
  BY DEF Progress
<1>2. /\ r \in ReportState
      /\ r.pooled = st.pooled \cup S /\ r.shares = st.shares
      /\ Total(r) = Total(st)
      /\ \A e \in Nat : S \subseteq LotsBy(e) => Stock(r, e) = Stock(st, e)
  BY <1>1, AddToPoolIs
<1> HIDE DEF r
<1>3. ASSUME Enough PROVE Complete(r, D, d)
  <2>1. Complete(st, D, d)
    BY <1>3 DEF Progress
  <2>2. \A e \in Nat : d <= e => Stock(r, e) = Stock(st, e)
    BY <1>2
  <2> QED
    BY <1>2, <2>1, <2>2 DEF Complete
<1>4. Progress(r, D, d)
  BY <1>2, <1>3 DEF Progress
<1> QED
  BY <1>2, <1>4 DEF r

LEMMA MatchDayIs ==
  ASSUME Ready, NEW st \in ReportState, NEW d
  PROVE  \E P \in [SUBSET SalesOf(d) -> ReportState] :
            /\ MatchedBy(P, AddToPool(st, BoughtBefore(d)), d)
            /\ MatchDay(st, d) = AddToPool(P[SalesOf(d)], BoughtOn(d))
            /\ MatchDay(st, d) \in ReportState
<1> DEFINE before == AddToPool(st, BoughtBefore(d))
<1>1. BoughtBefore(d) \in SUBSET LotIds /\ BoughtOn(d) \in SUBSET LotIds
  BY DEF BoughtBefore, BoughtOn
<1>2. before \in ReportState
  BY <1>1, AddToPoolIs
<1>3. MatchDay(st, d) = AddToPool(Loop(Match, before, Max, SalesOf(d)), BoughtOn(d))
  BY DEF MatchDay
<1> HIDE DEF before
<1>4. PICK P \in [SUBSET SalesOf(d) -> ReportState] : MatchedBy(P, before, d)
  BY <1>2, DayLoop
<1>5. MatchDay(st, d) = AddToPool(P[SalesOf(d)], BoughtOn(d))
  BY <1>3, <1>4 DEF MatchedBy
<1>6. P[SalesOf(d)] \in ReportState
  OBVIOUS
<1>7. MatchDay(st, d) \in ReportState
  BY <1>1, <1>5, <1>6, AddToPoolIs
<1> QED
  BY <1>4, <1>5, <1>7 DEF before

LEMMA DayStep ==
  ASSUME Ready, NEW T \in SUBSET DaysOfSales, NEW d \in Nat, \A t \in T : t < d,
         NEW st, Reported(st, T)
  PROVE  Reported(MatchDay(st, d), T \cup {d})
<1> DEFINE before == AddToPool(st, BoughtBefore(d))
           on == BoughtOn(d)
           S == SalesOf(d)
           D == Done(T)
<1>1. Progress(st, D, d) /\ st.pooled \subseteq BoughtBefore(d) /\ st \in ReportState
  BY DEF Reported
<1>2. /\ BoughtBefore(d) \in SUBSET LotIds /\ on \in SUBSET LotIds
      /\ \A e \in Nat : d <= e => BoughtBefore(d) \subseteq LotsBy(e) /\ on \subseteq LotsBy(e)
      /\ \A e \in Nat : d < e => BoughtBefore(d) \subseteq BoughtBefore(e) /\ on \subseteq BoughtBefore(e)
  BY LotsOfDay
<1>3. /\ S \in SUBSET Index /\ D \in SUBSET Index /\ IsFiniteSet(S)
      /\ \A i \in S : i \in Index /\ disposals[i].day = d
      /\ S \cap D = {}
      /\ Done(T \cup {d}) = D \cup S
  <2>1. S \in SUBSET Index /\ D \in SUBSET Index /\ \A i \in S : i \in Index /\ disposals[i].day = d
    BY DEF SalesOf, Done, Index
  <2>2. IsFiniteSet(S)
    <3> HIDE DEF S
    <3> QED
      BY <2>1, ReadySales, FS_Subset
  <2>3. d \notin T
    <3>1. ~(d < d)
      OBVIOUS
    <3> QED
      BY <3>1
  <2>4. S \cap D = {}
    BY <2>1, <2>3 DEF Done
  <2>5. Done(T \cup {d}) = D \cup S
    BY DEF Done, SalesOf, Index
  <2> QED
    BY <2>1, <2>2, <2>4, <2>5
<1>4. PICK P \in [SUBSET S -> ReportState] :
            /\ MatchedBy(P, before, d)
            /\ MatchDay(st, d) = AddToPool(P[S], on)
            /\ MatchDay(st, d) \in ReportState
  BY <1>1, MatchDayIs
<1>5. Progress(before, D, d) /\ before.pooled = BoughtBefore(d)
  <2>1. before.pooled = st.pooled \cup BoughtBefore(d) /\ Progress(before, D, d)
    BY <1>1, <1>2, PoolKeeps
  <2> QED
    BY <1>1, <2>1
<1> HIDE DEF before, on, S, D
<1> DEFINE F == {s \in SUBSET S : Progress(P[s], D \cup s, d) /\ P[s].pooled = BoughtBefore(d)}
<1>6. {} \in F
  <2>1. P[{}] = before
    BY <1>4 DEF MatchedBy
  <2> QED
    BY <1>5, <2>1
<1>7. ASSUME NEW s \in SUBSET S, s # {}, \A x \in s : s \ {x} \in F
      PROVE  s \in F
  <2> DEFINE i == Max(s)
             s1 == s \ {i}
             D1 == D \cup s1
  <2>1. i \in s /\ i \in Index /\ disposals[i].day = d
    <3>1. s \in SUBSET SalesOf(d)
      BY DEF S
    <3> QED
      BY <1>7, <3>1, SalesOfDay
  <2>2. P[s] = Match(P[s1], i)
    BY <1>4, <1>7 DEF MatchedBy, S
  <2> HIDE DEF i
  <2>3. Progress(P[s1], D1, d) /\ P[s1].pooled = BoughtBefore(d)
    BY <1>7, <2>1
  <2>4. D1 \in SUBSET Index /\ i \in Index \ D1 /\ D1 \cup {i} = D \cup s
    BY <1>3, <2>1
  <2> HIDE DEF D1, s1
  <2>5. Progress(Match(P[s1], i), D1 \cup {i}, d) /\ Match(P[s1], i).pooled = BoughtBefore(d)
    <3>1. Progress(P[s1], D1, disposals[i].day) /\ P[s1].pooled = BoughtBefore(disposals[i].day)
      BY <2>1, <2>3
    <3>2. /\ Progress(Match(P[s1], i), D1 \cup {i}, disposals[i].day)
          /\ Match(P[s1], i).pooled = BoughtBefore(disposals[i].day)
      BY <2>4, <3>1, MatchStep
    <3> QED
      BY <2>1, <3>2
  <2> QED
    BY <2>2, <2>4, <2>5
<1>8. F = SUBSET S
  <2> HIDE DEF F
  <2>1. F \in SUBSET SUBSET S
    BY DEF F
  <2>2. IsFiniteSet(S)
    BY <1>3
  <2>3. \A s \in SUBSET S : s # {} /\ (\A x \in s : s \ {x} \in F) => s \in F
    BY <1>7
  <2>4. {} \in F
    BY <1>6
  <2> QED
    BY <2>1, <2>2, <2>3, <2>4, SubsetsAll
<1>9. Progress(P[S], D \cup S, d) /\ P[S].pooled = BoughtBefore(d)
  BY <1>8
<1> HIDE DEF F
<1> DEFINE a == P[S]
           r == AddToPool(a, on)
<1>10. Progress(a, D \cup S, d) /\ a.pooled = BoughtBefore(d)
  BY <1>9
<1> HIDE DEF a
<1>11. Progress(r, D \cup S, d) /\ r.pooled = BoughtBefore(d) \cup on
  BY <1>2, <1>10, PoolKeeps
<1>12. MatchDay(st, d) = r
  BY <1>4 DEF a
<1> HIDE DEF r
<1>13. ASSUME NEW f \in Nat, \A t \in T \cup {d} : t < f
       PROVE  Progress(r, D \cup S, f) /\ r.pooled \subseteq BoughtBefore(f)
  <2>1. d < f
    BY <1>13
  <2>2. \A e \in Nat : f <= e => d <= e
    BY <2>1
  <2>3. Complete(r, D \cup S, d) => Complete(r, D \cup S, f)
    BY <2>2 DEF Complete
  <2> QED
    BY <1>2, <1>11, <2>1, <2>3 DEF Progress
<1> QED
  BY <1>3, <1>4, <1>12, <1>13 DEF Reported

-----------------------------------------------------------------------------
(* The whole report *)

LEMMA ReportLoop ==
  ASSUME Ready, Fresh \in ReportState
  PROVE  \E P \in [SUBSET DaysOfSales -> ReportState] : ReportedBy(P)
<1> DEFINE S == DaysOfSales
           Eq(P) == P = [s \in SUBSET S |-> IF s = {} THEN Fresh ELSE MatchDay(P[s \ {Max(s)}], Max(s))]
           step == [w \in ReportState \X S |-> MatchDay(w[1], w[2])]
           last == [s \in SUBSET S |-> Max(s)]
<1>1. IsFiniteSet(S) /\ S \in SUBSET Nat
  BY SaleDays
<1>2. step \in [ReportState \X S -> ReportState]
  <2> SUFFICES ASSUME NEW w \in ReportState \X S PROVE MatchDay(w[1], w[2]) \in ReportState
    OBVIOUS
  <2>1. w[1] \in ReportState
    OBVIOUS
  <2> QED
    BY <2>1, MatchDayIs
<1>3. \A s \in SUBSET S : s # {} => last[s] = Max(s) /\ Max(s) \in s
  <2> SUFFICES ASSUME NEW s \in SUBSET S, s # {} PROVE Max(s) \in s
    OBVIOUS
  <2> HIDE DEF S
  <2>1. s \in SUBSET Nat /\ IsFiniteSet(s)
    BY <1>1, FS_Subset
  <2> QED
    BY <2>1, MaxIs
<1> HIDE DEF S
<1>4. PICK A \in [SUBSET S -> ReportState] : Computes(A, S, Fresh, step, last)
  <2> HIDE DEF step, last, Eq
  <2>1. \A s \in SUBSET S : s # {} => last[s] \in s
    BY <1>3
  <2> QED
    BY <1>1, <1>2, <2>1, LoopExists
<1>5. ASSUME NEW s \in SUBSET S, s # {}
      PROVE  A[s] = MatchDay(A[s \ {Max(s)}], Max(s))
  <2>1. <<A[s \ {Max(s)}], Max(s)>> \in ReportState \X S
    BY <1>3, <1>5
  <2>2. A[s] = step[<<A[s \ {Max(s)}], Max(s)>>]
    <3> HIDE DEF step, last
    <3> QED
      BY <1>3, <1>4, <1>5 DEF Computes
  <2> QED
    BY <2>1, <2>2
<1>6. A[{}] = Fresh
  <2> HIDE DEF step, last
  <2> QED
    BY <1>4 DEF Computes
<1>7. Eq(A)
  BY <1>5, <1>6
<1> DEFINE C == CHOOSE P : Eq(P)
<1>8. Eq(C)
  <2> HIDE DEF Eq
  <2> QED
    BY <1>7
<1>9. A[S] = C[S]
  <2> HIDE DEF C
  <2>1. A[{}] = C[{}]
    BY <1>6, <1>8
  <2>2. ASSUME NEW s \in SUBSET S, s # {}
        PROVE  \E x \in s : A[s \ {x}] = C[s \ {x}] => A[s] = C[s]
    <3>1. C[s] = MatchDay(C[s \ {Max(s)}], Max(s))
      BY <1>8, <2>2
    <3> QED
      BY <1>3, <1>5, <2>2, <3>1
  <2> HIDE DEF Eq, step, last
  <2> QED
    BY <1>1, <2>1, <2>2, LoopUnique
<1>10. HmrcMatches = C[S]
  BY DEF HmrcMatches, Loop, MapThenFoldSet, S, DaysOfSales
<1> HIDE DEF C, Eq
<1> QED
  BY <1>5, <1>6, <1>9, <1>10 DEF ReportedBy, S

\* The report starts with what the rows bought.
LEMMA FreshIs == Ready => Fresh \in ReportState /\ Reported(Fresh, {})
<1> SUFFICES ASSUME Ready PROVE Fresh \in ReportState /\ Reported(Fresh, {})
  OBVIOUS
<1>1. bought \in [LotIds -> Nat] /\ Table
  BY DEF Ready
<1>2. \A i \in Index : disposals[i].qty \in Nat
  BY ReadySales
<1>3. /\ Fresh.left = bought /\ Fresh.pooled = {} /\ Fresh.qty = 0 /\ Fresh.cost = 0
      /\ Fresh.shares = [i \in Index |-> 0] /\ Fresh.basis = [i \in Index |-> 0]
      /\ Fresh \in ReportState
  BY <1>1, <1>2 DEF Fresh, ReportState, Index
<1>4. Total(Fresh) = Costs(LotIds, bought)
  <2> DEFINE f == [i \in Index |-> 0]
  <2>1. \A i \in Index : f[i] = 0
    OBVIOUS
  <2> HIDE DEF f
  <2>2. SumFunctionOnSet(f, Index) = 0
    BY <2>1, ReadySales, SumOfZeros
  <2>3. Costs(LotIds, bought) \in Nat
    <3>1. LotIds \in SUBSET LotIds
      OBVIOUS
    <3> QED
      BY <1>1, <3>1, CostsIsSum
  <2>4. LotIds \ {} = LotIds
    OBVIOUS
  <2>5. Total(Fresh) = 0 + 0 + Costs(LotIds, bought)
    BY <1>3, <2>2, <2>4 DEF Total, f
  <2> QED
    BY <2>3, <2>5
<1>5. ASSUME Enough, NEW d \in Nat
      PROVE  Complete(Fresh, {}, d)
  <2>1. \A e \in Nat : Stock(Fresh, e) = Shares(LotsBy(e), bought)
    <3> SUFFICES ASSUME NEW e \in Nat PROVE Stock(Fresh, e) = Shares(LotsBy(e), bought)
      OBVIOUS
    <3> DEFINE S == LotsBy(e)
               n == Shares(S, bought)
    <3>1. S \in SUBSET LotIds /\ S \ {} = S
      BY DEF LotsBy
    <3> HIDE DEF S
    <3>2. n \in Nat
      BY <1>1, <3>1, SharesPart
    <3>3. Stock(Fresh, e) = 0 + n
      BY <1>3, <3>1 DEF Stock, S
    <3> HIDE DEF n
    <3>4. Stock(Fresh, e) = n
      BY <3>2, <3>3
    <3> QED
      BY <3>4 DEF n, S
  <2>2. \A i \in Index : Fresh.shares[i] = 0
    BY <1>3
  <2>3. \A e \in Nat : Wanted({}, e) <= Stock(Fresh, e)
    BY <1>5, <2>1 DEF Enough
  <2>4. \A e \in Nat : LotsBy(e) = LotIds => Stock(Fresh, e) = Shares(LotIds, bought)
    BY <2>1
  <2> QED
    BY <2>2, <2>3, <2>4 DEF Complete
<1>6. Done({}) = {}
  BY DEF Done
<1>7. \A d \in Nat : Progress(Fresh, {}, d)
  BY <1>3, <1>4, <1>5 DEF Progress
<1>8. \A d \in Nat : {} \subseteq BoughtBefore(d)
  OBVIOUS
<1> QED
  BY <1>3, <1>6, <1>7, <1>8 DEF Reported

LEMMA ReportDone ==
  Ready => \E d \in Nat : Progress(HmrcMatches, Index, d) /\ \A i \in Index : disposals[i].day < d
<1> SUFFICES ASSUME Ready
             PROVE  \E d \in Nat : /\ Progress(HmrcMatches, Index, d)
                                  /\ \A i \in Index : disposals[i].day < d
  OBVIOUS
<1>1. Ready
  OBVIOUS
<1>2. DaysOfSales \in SUBSET Nat /\ IsFiniteSet(DaysOfSales)
  BY <1>1, SaleDays
<1>3. Fresh \in ReportState /\ Reported(Fresh, {})
  BY FreshIs
<1>4. PICK P \in [SUBSET DaysOfSales -> ReportState] : ReportedBy(P)
  BY <1>1, <1>3, ReportLoop
<1> DEFINE F == {s \in SUBSET DaysOfSales : Reported(P[s], s)}
<1>5. {} \in F
  BY <1>3, <1>4 DEF ReportedBy
<1>6. ASSUME NEW s \in SUBSET DaysOfSales, s # {}, \A x \in s : s \ {x} \in F
      PROVE  s \in F
  <2> DEFINE d == Max(s)
             t == s \ {d}
  <2>1. s \in SUBSET Nat /\ IsFiniteSet(s)
    BY <1>2, FS_Subset
  <2>2. d \in s /\ \A y \in s : y <= d
    BY <1>6, <2>1, MaxIs
  <2>3. P[s] = MatchDay(P[t], d)
    BY <1>4, <1>6 DEF ReportedBy
  <2> HIDE DEF d
  <2>4. Reported(P[t], t) /\ t \in SUBSET DaysOfSales /\ t \cup {d} = s
    BY <1>6, <2>2
  <2>5. d \in Nat /\ \A y \in t : y < d
    BY <2>1, <2>2
  <2> HIDE DEF t
  <2>6. Reported(MatchDay(P[t], d), t \cup {d})
    BY <1>1, <2>4, <2>5, DayStep
  <2> QED
    BY <2>3, <2>4, <2>6
<1>7. F = SUBSET DaysOfSales
  <2> HIDE DEF F
  <2>1. F \in SUBSET SUBSET DaysOfSales
    BY DEF F
  <2>2. IsFiniteSet(DaysOfSales)
    BY <1>2
  <2>3. \A s \in SUBSET DaysOfSales : s # {} /\ (\A x \in s : s \ {x} \in F) => s \in F
    BY <1>6
  <2>4. {} \in F
    BY <1>5
  <2> QED
    BY <2>1, <2>2, <2>3, <2>4, SubsetsAll
<1>8. Reported(HmrcMatches, DaysOfSales)
  <2>1. DaysOfSales \in F
    BY <1>7
  <2> QED
    BY <1>4, <2>1 DEF ReportedBy
<1>9. Done(DaysOfSales) = Index
  BY DEF Done, DaysOfSales, Index
<1>10. \E d \in Nat : \A t \in DaysOfSales : t < d
  <2>1. CASE DaysOfSales = {}
    BY <2>1
  <2>2. CASE DaysOfSales # {}
    <3> DEFINE m == Max(DaysOfSales)
    <3>1. m \in DaysOfSales /\ \A t \in DaysOfSales : t <= m
      BY <1>2, <2>2, MaxIs
    <3> HIDE DEF m
    <3>2. m + 1 \in Nat /\ \A t \in DaysOfSales : t < m + 1
      BY <1>2, <3>1
    <3> QED
      BY <3>2
  <2> QED
    BY <2>1, <2>2
<1>11. \A i \in Index : disposals[i].day \in DaysOfSales
  BY DEF DaysOfSales, Index
<1> QED
  BY <1>8, <1>9, <1>10, <1>11 DEF Reported

-----------------------------------------------------------------------------
(* What the report finds in the ledger *)

SoldOf == [l \in LotIds |-> gone[l].sold]

LEMMA GainsRows ==
  ASSUME GainsInv
  PROVE  /\ Taxable \in SUBSET LotIds
         /\ DOMAIN sales \in SUBSET Nat /\ IsFiniteSet(DOMAIN sales)
         /\ Index \in SUBSET DOMAIN sales
         /\ \A i \in DOMAIN sales : /\ sales[i].day \in Nat /\ sales[i].take \in [LotIds -> Nat]
                                    /\ TaxableQty(i) = Shares(Taxable, sales[i].take)
                                    /\ TaxableQty(i) \in Nat
                                    /\ i \notin Index => TaxableQty(i) = 0
         /\ \A i \in Index : /\ disposals[i].qty = TaxableQty(i)
                             /\ disposals[i].day = sales[i].day
<1>1. Taxable \in SUBSET LotIds
  BY DEF Taxable
<1>2. /\ Len(sales) \in Nat /\ DOMAIN sales = 1 .. Len(sales)
      /\ \A i \in DOMAIN sales : sales[i] \in SaleRow
  BY DEF GainsInv
<1>3. IsFiniteSet(1 .. Len(sales))
  BY <1>2, FS_Interval
<1>4. Index = {i \in DOMAIN sales : TaxableQty(i) > 0}
  BY DEF Index, disposals
<1>5. ASSUME NEW i \in DOMAIN sales
      PROVE  /\ sales[i].day \in Nat /\ sales[i].take \in [LotIds -> Nat]
             /\ TaxableQty(i) = Shares(Taxable, sales[i].take)
             /\ TaxableQty(i) \in Nat
             /\ i \notin Index => TaxableQty(i) = 0
  <2> DEFINE take == sales[i].take
  <2>1. sales[i].day \in Nat /\ take \in [LotIds -> Nat]
    BY <1>2 DEF SaleRow
  <2>2. TaxableQty(i) = Shares(Taxable, take)
    BY DEF TaxableQty
  <2> HIDE DEF take
  <2>3. Shares(Taxable, take) \in Nat
    BY <1>1, <2>1, SharesPart
  <2>4. i \notin Index => ~(TaxableQty(i) > 0)
    BY <1>4
  <2> QED
    BY <2>1, <2>2, <2>3, <2>4 DEF take
<1>6. ASSUME NEW i \in Index
      PROVE  disposals[i].qty = TaxableQty(i) /\ disposals[i].day = sales[i].day
  BY <1>4 DEF disposals
<1>7. DOMAIN sales \in SUBSET Nat
  BY <1>2
<1> QED
  BY <1>1, <1>2, <1>3, <1>4, <1>5, <1>6, <1>7

LEMMA GainsReady == GainsInv => Ready
<1> SUFFICES ASSUME GainsInv PROVE Ready
  OBVIOUS
<1>1. Table
  BY GainsTable
<1>2. Index \in SUBSET Nat /\ IsFiniteSet(Index)
  <2>1. DOMAIN sales \in SUBSET Nat /\ IsFiniteSet(DOMAIN sales) /\ Index \in SUBSET DOMAIN sales
    BY GainsRows
  <2> QED
    BY <2>1, FS_Subset
<1>3. disposals \in [Index -> Sale]
  <2>1. disposals = [i \in Index |-> [qty |-> TaxableQty(i), day |-> sales[i].day]]
    BY DEF Index, disposals
  <2>2. \A i \in Index : TaxableQty(i) \in Nat /\ sales[i].day \in Nat
    BY GainsRows
  <2> QED
    BY <2>1, <2>2 DEF Sale
<1>4. bought \in [LotIds -> Nat]
  BY DEF bought, GainsInv, LedgerInv, TypeOK, Lot
<1> QED
  BY <1>1, <1>2, <1>3, <1>4 DEF Ready

\* What some disposals took of some lots is no more than those lots sold in all.
LEMMA SoldBy ==
  ASSUME GainsInv, NEW A \in SUBSET DOMAIN sales, NEW E \in SUBSET LotIds,
         NEW rows, \A i \in A : rows[i] = Shares(E, sales[i].take)
  PROVE  /\ SumFunctionOnSet(rows, A) <= Shares(E, SoldOf)
         /\ A = DOMAIN sales => SumFunctionOnSet(rows, A) = Shares(E, SoldOf)
<1> DEFINE N == DOMAIN sales
           column  == [l \in LotIds |-> Taken(l)]
           table   == [i \in N |-> sales[i].take]
           columns == [l \in LotIds |-> SumFunctionOnSet(Taken(l), A)]
<1>1. IsFiniteSet(N) /\ IsFiniteSet(A) /\ IsFiniteSet(E)
  <2>1. IsFiniteSet(N)
    BY GainsRows
  <2> QED
    BY <2>1, LotIdsAssumption, FS_Subset
<1>2. \A i \in N, l \in LotIds : table[i][l] \in Nat /\ column[l][i] = table[i][l]
  <2>1. \A i \in N : sales[i].take \in [LotIds -> Nat]
    BY GainsRows
  <2> QED
    BY <2>1 DEF Taken
<1>3. \A i \in A : rows[i] = SumFunctionOnSet(table[i], E)
  BY DEF Shares
<1>4. \A l \in E : columns[l] = SumFunctionOnSet(column[l], A)
  OBVIOUS
<1>5. ASSUME NEW l \in E
      PROVE  /\ columns[l] \in Nat /\ SoldOf[l] \in Nat /\ columns[l] <= SoldOf[l]
             /\ A = N => columns[l] = SoldOf[l]
  <2> DEFINE f == Taken(l)
  <2>1. \A i \in N : f[i] \in Nat
    BY <1>2
  <2>2. SoldOf[l] = SumFunctionOnSet(f, N) /\ columns[l] = SumFunctionOnSet(f, A)
    BY DEF SoldOf, GainsInv, SoldIsWritten
  <2> HIDE DEF f, columns
  <2>3. SumFunctionOnSet(f, N) \in Nat
    BY <1>1, <2>1, SumNat
  <2>4. SumFunctionOnSet(f, A) \in Nat
    <3>1. \A i \in A : f[i] \in Nat
      BY <2>1
    <3> QED
      BY <1>1, <3>1, SumNat
  <2>5. SumFunctionOnSet(f, A) <= SumFunctionOnSet(f, N)
    <3>1. A \in SUBSET N
      OBVIOUS
    <3> HIDE DEF N
    <3> QED
      BY <1>1, <2>1, <3>1, SumOfPart
  <2> QED
    BY <2>2, <2>3, <2>4, <2>5
<1> HIDE DEF N, column, table, columns
<1>6. SumFunctionOnSet(rows, A) = SumFunctionOnSet(columns, E)
  <2>1. \A i \in A, l \in E : table[i][l] \in Int /\ column[l][i] = table[i][l]
    BY <1>2 DEF N
  <2>2. IsFiniteSet(A)
    BY <1>1
  <2>3. IsFiniteSet(E)
    BY <1>1
  <2>4. Tabulated(A, E, table, column, rows, columns)
    BY <1>3, <1>4, <2>1 DEF Tabulated
  <2> QED
    BY <2>2, <2>3, <2>4, SumSwap
<1>7. SumFunctionOnSet(columns, E) <= SumFunctionOnSet(SoldOf, E)
  <2> DEFINE g == SoldOf
  <2>1. \A l \in E : columns[l] \in Nat /\ g[l] \in Nat /\ columns[l] <= g[l]
    BY <1>5
  <2> HIDE DEF g
  <2>2. SumFunctionOnSet(columns, E) <= SumFunctionOnSet(g, E)
    BY <1>1, <2>1, SumMonotone
  <2> QED
    BY <2>2 DEF g
<1>8. A = N => SumFunctionOnSet(columns, E) = SumFunctionOnSet(SoldOf, E)
  <2> SUFFICES ASSUME A = N PROVE SumFunctionOnSet(columns, E) = SumFunctionOnSet(SoldOf, E)
    OBVIOUS
  <2> DEFINE g == SoldOf
  <2>1. \A l \in E : columns[l] = g[l]
    BY <1>5
  <2> HIDE DEF g
  <2>2. SumFunctionOnSet(columns, E) = SumFunctionOnSet(g, E)
    BY <1>1, <2>1, SumEqual
  <2> QED
    BY <2>2 DEF g
<1> QED
  BY <1>6, <1>7, <1>8 DEF Shares, N

\* When no row is dated after a sale that used it, the rows bought by any day cover the
\* disposals up to it: those took their shares from rows of that day or before.
LEMMA GainsEnough == GainsInv /\ SoldAfterBought => Enough
<1> SUFFICES ASSUME GainsInv, SoldAfterBought, NEW e \in Nat
             PROVE  Wanted({}, e) <= Shares(LotsBy(e), bought)
  BY DEF Enough
<1> DEFINE A == {i \in Index : disposals[i].day <= e}
           S == LotsBy(e)
           E == Taxable \cap S
<1>1. Ready /\ bought \in [LotIds -> Nat] /\ \A l \in LotIds : acqOf[l] \in Nat
  BY GainsReady DEF Ready, Table
<1>2. /\ Taxable \in SUBSET LotIds /\ S \in SUBSET LotIds /\ E \in SUBSET LotIds
      /\ E \in SUBSET Taxable /\ E \in SUBSET S
      /\ \A l \in Taxable \ E : ~(acqOf[l] <= e)
  BY DEF LotsBy, Taxable
<1>3. A \in SUBSET DOMAIN sales
  BY GainsRows
<1>4. Wanted({}, e) = SumFunctionOnSet(Qty, A)
  BY DEF Wanted
<1>5. ASSUME NEW i \in A
      PROVE  Qty[i] = Shares(E, sales[i].take)
  <2> DEFINE take == sales[i].take
  <2>1. i \in Index /\ disposals[i].day <= e
    OBVIOUS
  <2>2. /\ take \in [LotIds -> Nat] /\ sales[i].day \in Nat /\ sales[i].day <= e
        /\ Qty[i] = Shares(Taxable, take)
    BY <1>3, <2>1, GainsRows DEF Qty
  <2>3. ASSUME NEW l \in Taxable \ E PROVE take[l] = 0
    <3>1. take[l] \in Nat /\ acqOf[l] \in Nat /\ ~(acqOf[l] <= e)
      BY <1>1, <1>2, <2>2
    <3>2. take[l] > 0 => acqOf[l] <= sales[i].day
      BY <1>2, <1>3 DEF SoldAfterBought, acqOf
    <3> QED
      BY <2>2, <3>1, <3>2
  <2> HIDE DEF take, E
  <2>4. Shares(E, take) = Shares(Taxable, take)
    BY <1>2, <2>2, <2>3, SharesOnly
  <2> QED
    BY <2>2, <2>4 DEF take
<1> HIDE DEF A, E, S
<1>6. SumFunctionOnSet(Qty, A) <= Shares(E, SoldOf)
  <2> DEFINE rows == Qty
  <2>1. \A i \in A : rows[i] = Shares(E, sales[i].take)
    BY <1>5
  <2> HIDE DEF rows
  <2>2. SumFunctionOnSet(rows, A) <= Shares(E, SoldOf)
    BY <1>2, <1>3, <2>1, SoldBy
  <2> QED
    BY <2>2 DEF rows
<1>7. Shares(E, SoldOf) <= Shares(E, bought)
  <2> DEFINE f == SoldOf
             g == bought
  <2>1. ASSUME NEW l \in E PROVE f[l] \in Nat /\ g[l] \in Nat /\ f[l] <= g[l]
    <3>1. l \in LotIds /\ l \in Taxable
      BY <1>2
    <3>2. /\ gone[l] \in Gone /\ lots[l] \in Lot /\ lots[l].rem <= lots[l].qty
          /\ lots[l].qty - lots[l].rem = gone[l].sold + gone[l].moved + gone[l].forfeited
      BY <3>1 DEF GainsInv, LedgerInv, TypeOK, LotAccounting
    <3>3. f[l] = gone[l].sold /\ g[l] = lots[l].qty
      BY <3>1 DEF SoldOf, bought
    <3> QED
      BY <3>2, <3>3 DEF Gone, Lot
  <2>2. IsFiniteSet(E)
    BY <1>2, LotIdsAssumption, FS_Subset
  <2> HIDE DEF f, g
  <2>3. SumFunctionOnSet(f, E) <= SumFunctionOnSet(g, E)
    BY <2>1, <2>2, SumMonotone
  <2> QED
    BY <2>3 DEF Shares, f, g
<1>8. Shares(E, bought) = Shares(S, bought)
  <2> DEFINE g == bought
  <2>1. \A l \in S \ E : g[l] = 0
    BY <1>2 DEF E, bought
  <2>2. g \in [LotIds -> Nat]
    BY <1>1
  <2> HIDE DEF g
  <2>3. Shares(E, g) = Shares(S, g)
    BY <1>2, <2>1, <2>2, SharesOnly
  <2> QED
    BY <2>3 DEF g
<1>9. Wanted({}, e) \in Nat /\ Shares(E, SoldOf) \in Nat /\ Shares(E, bought) \in Nat
  <2>1. SoldOf \in [LotIds -> Nat]
    BY DEF SoldOf, GainsInv, LedgerInv, TypeOK, Gone
  <2>2. Shares(E, SoldOf) \in Nat
    BY <1>2, <2>1, SharesPart
  <2>3. Shares(E, bought) \in Nat
    BY <1>1, <1>2, SharesPart
  <2> QED
    BY <1>1, <2>2, <2>3, WantedNat
<1>10. Wanted({}, e) <= Shares(E, SoldOf)
  BY <1>4, <1>6
<1>11. Wanted({}, e) <= Shares(E, bought)
  BY <1>7, <1>9, <1>10, NatOrder
<1> QED
  BY <1>8, <1>11 DEF S

\* The disposals in all took of the rows what those rows sold.
LEMMA WantedIsSold ==
  ASSUME GainsInv, NEW e \in Nat, \A i \in Index : disposals[i].day <= e
  PROVE  Wanted({}, e) = Shares(Taxable, SoldOf)
<1> DEFINE N == DOMAIN sales
           rows == [i \in N |-> TaxableQty(i)]
           rest == N \ Index
<1>1. /\ N \in SUBSET N /\ IsFiniteSet(N) /\ Index \in SUBSET N /\ Taxable \in SUBSET LotIds
      /\ \A i \in N : rows[i] = Shares(Taxable, sales[i].take) /\ rows[i] \in Nat
      /\ \A i \in rest : rows[i] = 0
      /\ \A i \in Index : Qty[i] = rows[i]
  BY GainsRows DEF Qty
<1>2. IsFiniteSet(Index) /\ IsFiniteSet(rest) /\ Index \cap rest = {} /\ Index \cup rest = N
  BY <1>1, FS_Subset
<1>3. Wanted({}, e) = SumFunctionOnSet(Qty, Index)
  <2>1. {i \in Index \ {} : disposals[i].day <= e} = Index
    OBVIOUS
  <2> QED
    BY <2>1 DEF Wanted
<1> HIDE DEF rows, rest
<1>4. SumFunctionOnSet(rows, N) = Shares(Taxable, SoldOf)
  <2>1. \A i \in N : rows[i] = Shares(Taxable, sales[i].take)
    BY <1>1
  <2> QED
    BY <1>1, <2>1, SoldBy
<1> HIDE DEF N
<1>5. SumFunctionOnSet(rows, N) = SumFunctionOnSet(rows, Index) + SumFunctionOnSet(rows, rest)
  <2> DEFINE I == Index
  <2>1. \A i \in I \cup rest : rows[i] \in Int
    BY <1>1, <1>2
  <2>2. IsFiniteSet(I) /\ IsFiniteSet(rest) /\ I \cap rest = {}
    BY <1>2
  <2>3. I \cup rest = N
    BY <1>2
  <2> HIDE DEF I
  <2>4. SumFunctionOnSet(rows, I \cup rest) = SumFunctionOnSet(rows, I) + SumFunctionOnSet(rows, rest)
    BY <2>1, <2>2, SumOfUnion
  <2> QED
    BY <2>3, <2>4 DEF I
<1>6. SumFunctionOnSet(rows, rest) = 0
  BY <1>1, <1>2, SumOfZeros
<1>7. SumFunctionOnSet(rows, Index) = SumFunctionOnSet(Qty, Index)
  <2> DEFINE I == Index
             f == Qty
  <2>1. \A i \in I : rows[i] = f[i]
    BY <1>1
  <2>2. IsFiniteSet(I)
    BY <1>2
  <2> HIDE DEF I, f
  <2>3. SumFunctionOnSet(rows, I) = SumFunctionOnSet(f, I)
    BY <2>1, <2>2, SumEqual
  <2> QED
    BY <2>3 DEF I, f
<1>8. SumFunctionOnSet(rows, Index) \in Int
  <2>1. \A i \in Index : rows[i] \in Nat
    BY <1>1
  <2> QED
    BY <1>2, <2>1, SumNat
<1>9. SumFunctionOnSet(rows, Index) + 0 = SumFunctionOnSet(rows, Index)
  BY <1>8, PlusNothing
<1> QED
  BY <1>3, <1>4, <1>5, <1>6, <1>7, <1>9

\* A row's whole quantity is what it sold, what it holds and what else left it.
LEMMA BoughtIs ==
  ASSUME GainsInv
  PROVE  LET extra == [l \in LotIds |-> gone[l].moved + gone[l].forfeited]
         IN /\ Shares(Taxable, SoldOf) \in Nat
            /\ Shares(Taxable, remOf) \in Nat
            /\ Shares(Taxable, extra) \in Nat
            /\ Shares(LotIds, bought)
                 = Shares(Taxable, SoldOf) + (Shares(Taxable, remOf) + Shares(Taxable, extra))
<1> DEFINE extra == [l \in LotIds |-> gone[l].moved + gone[l].forfeited]
           f == SoldOf
           h == remOf
           g == bought
           k == [l \in LotIds |-> h[l] + extra[l]]
           T == Taxable
<1>1. T \in SUBSET LotIds /\ IsFiniteSet(T)
  BY LotIdsAssumption, FS_Subset DEF Taxable
<1>2. ASSUME NEW l \in LotIds
      PROVE  /\ f[l] \in Nat /\ h[l] \in Nat /\ extra[l] \in Nat
             /\ l \in T => g[l] = f[l] + k[l]
             /\ l \notin T => g[l] = 0
  <2>1. /\ gone[l] \in Gone /\ lots[l] \in Lot
        /\ lots[l].qty - lots[l].rem = gone[l].sold + gone[l].moved + gone[l].forfeited
    BY DEF GainsInv, LedgerInv, TypeOK, LotAccounting
  <2>2. /\ f[l] = gone[l].sold /\ h[l] = lots[l].rem
        /\ extra[l] = gone[l].moved + gone[l].forfeited
        /\ g[l] = IF l \in T THEN lots[l].qty ELSE 0
        /\ k[l] = h[l] + extra[l]
    BY DEF SoldOf, remOf, bought
  <2> HIDE DEF f, h, extra, g, k, T
  <2> QED
    BY <2>1, <2>2 DEF Gone, Lot
<1>3. g \in [LotIds -> Nat]
  BY GainsReady DEF Ready
<1>4. /\ \A l \in T : f[l] \in Nat
      /\ \A l \in T : h[l] \in Nat
      /\ \A l \in T : extra[l] \in Nat
  BY <1>1, <1>2
<1>5. \A l \in T : h[l] \in Int /\ extra[l] \in Int /\ k[l] = h[l] + extra[l]
  BY <1>1, <1>2
<1>6. \A l \in T : f[l] \in Int /\ k[l] \in Int /\ g[l] = f[l] + k[l]
  BY <1>1, <1>2, <1>5
<1>7. \A l \in LotIds \ T : g[l] = 0
  BY <1>2
<1> HIDE DEF f, h, extra, g, k, T
<1>8. Shares(T, f) \in Nat /\ Shares(T, h) \in Nat /\ Shares(T, extra) \in Nat
  BY <1>1, <1>4, SumNat DEF Shares
<1>9. Shares(T, k) = Shares(T, h) + Shares(T, extra)
  BY <1>1, <1>5, SumPlus DEF Shares
<1>10. Shares(T, g) = Shares(T, f) + Shares(T, k)
  BY <1>1, <1>6, SumPlus DEF Shares
<1>11. Shares(T, g) = Shares(LotIds, g)
  BY <1>1, <1>3, <1>7, SharesPart
<1> QED
  BY <1>8, <1>9, <1>10, <1>11 DEF f, h, extra, g, T

LEMMA LastAcquired ==
  ASSUME Table
  PROVE  \E m \in Nat : \A l \in LotIds : acqOf[l] <= m
<1> DEFINE T == {acqOf[l] : l \in LotIds}
<1>1. IsFiniteSet(T)
  <2> DEFINE f == [l \in LotIds |-> acqOf[l]]
  <2>1. f \in [LotIds -> T] /\ \A t \in T : \E l \in LotIds : f[l] = t
    OBVIOUS
  <2> HIDE DEF f, T
  <2>2. f \in Surjection(LotIds, T)
    BY <2>1 DEF Surjection
  <2>3. IsFiniteSet(LotIds)
    BY LotIdsAssumption
  <2> QED
    BY <2>2, <2>3, FS_Surjection
<1>2. T \in SUBSET Nat
  BY DEF Table
<1>3. \A l \in LotIds : acqOf[l] \in T
  OBVIOUS
<1>4. CASE T = {}
  BY <1>3, <1>4
<1>5. CASE T # {}
  <2> HIDE DEF T
  <2>1. Max(T) \in T /\ \A y \in T : y <= Max(T)
    BY <1>1, <1>2, <1>5, MaxIs
  <2> QED
    BY <1>2, <1>3, <2>1
<1> QED
  BY <1>4, <1>5

-----------------------------------------------------------------------------
(* The theorems on the report *)

\* What the report relieves and what it still holds is what the rows it read cost, to the
\* fraction of a penny it counts in, re-dated rows and rows of moved shares included.
THEOREM CostConserved == ReportSpec => []ReportCostConserved
<1>1. GainsInv => ReportCostConserved
  <2> SUFFICES ASSUME GainsInv PROVE Total(HmrcMatches) = Costs(LotIds, bought)
    BY DEF ReportCostConserved, Total, Index
  <2>1. Ready
    BY GainsReady
  <2>2. PICK d \in Nat : Progress(HmrcMatches, Index, d)
    BY <2>1, ReportDone
  <2> QED
    BY <2>2 DEF Progress
<1> QED
  BY <1>1, GainsAlways, PTL

\* As long as no row is re-dated past one of its sales, the report finds every share of
\* every disposal: what it matches with later purchases leaves the other disposals no less
\* than the ledger gave them, whatever was corrected, moved and forfeited meanwhile.  What
\* it then holds is what the rows hold, and over that exactly the shares that were moved to
\* another row or forfeited, which it reads all the same.
THEOREM NoShareUnmatched == ReportSpec => []EveryShareMatched
<1>1. GainsInv => EveryShareMatched
  <2> DEFINE st == HmrcMatches
             extra == [l \in LotIds |-> gone[l].moved + gone[l].forfeited]
             left == Shares(LotIds \ st.pooled, st.left)
             a == Shares(Taxable, SoldOf)
             b == Shares(Taxable, remOf)
             c == Shares(Taxable, extra)
  <2> SUFFICES ASSUME GainsInv, SoldAfterBought
               PROVE  (\A i \in Index : st.shares[i] = disposals[i].qty) /\ st.qty + left = b + c
    BY DEF EveryShareMatched, Index
  <2>1. Ready /\ Enough /\ Table
    BY GainsReady, GainsEnough DEF Ready
  <2>2. PICK d \in Nat : /\ Progress(HmrcMatches, Index, d)
                         /\ \A i \in Index : disposals[i].day < d
    BY <2>1, ReportDone
  <2>3. PICK m \in Nat : \A l \in LotIds : acqOf[l] <= m
    BY <2>1, LastAcquired
  <2> DEFINE e == d + m
  <2>4. e \in Nat /\ d <= e /\ m <= e
    OBVIOUS
  <2>5. LotsBy(e) = LotIds
    <3>1. \A l \in LotIds : acqOf[l] \in Nat
      BY <2>1 DEF Table
    <3> HIDE DEF e
    <3>2. \A l \in LotIds : acqOf[l] <= e
      BY <2>3, <2>4, <3>1, NatOrder
    <3> QED
      BY <3>2 DEF LotsBy
  <2>6. \A i \in Index : disposals[i].day <= e
    <3>1. \A i \in Index : disposals[i].day \in Nat
      BY <2>1, ReadySales
    <3> HIDE DEF e
    <3> QED
      BY <2>2, <2>4, <3>1
  <2> HIDE DEF e
  <2>7. Complete(st, Index, d) /\ st \in ReportState
    BY <2>1, <2>2 DEF Progress
  <2>8. Stock(st, e) + Wanted({}, e) = Shares(LotIds, bought) + Wanted(Index, e)
    BY <2>4, <2>5, <2>7 DEF Complete
  <2>9. Wanted(Index, e) = 0
    <3>1. {i \in Index \ Index : disposals[i].day <= e} = {}
      OBVIOUS
    <3> QED
      BY <3>1, SumOfNone DEF Wanted
  <2>10. Wanted({}, e) = a
    BY <2>4, <2>6, WantedIsSold
  <2>11. /\ a \in Nat /\ b \in Nat /\ c \in Nat
         /\ Shares(LotIds, bought) = a + (b + c)
    BY BoughtIs
  <2>12. Stock(st, e) = st.qty + left
    BY <2>5 DEF Stock
  <2>13. st.qty \in Nat /\ left \in Nat
    <3> DEFINE E == LotIds \ st.pooled
               have == st.left
    <3>1. E \in SUBSET LotIds /\ have \in [LotIds -> Nat] /\ st.qty \in Nat
      BY <2>7 DEF ReportState
    <3> HIDE DEF E, have
    <3>2. Shares(E, have) \in Nat
      BY <3>1, SharesPart
    <3> QED
      BY <3>1, <3>2 DEF E, have
  <2>14. \A i \in Index : st.shares[i] = disposals[i].qty
    BY <2>7 DEF Complete
  <2> HIDE DEF st, left, a, b, c
  <2>15. (st.qty + left) + a = (a + (b + c)) + 0
    BY <2>8, <2>9, <2>10, <2>11, <2>12
  <2> DEFINE s == st.qty
  <2>16. s \in Nat /\ (s + left) + a = (a + (b + c)) + 0
    BY <2>13, <2>15
  <2> HIDE DEF s
  <2>17. s + left = b + c
    BY <2>11, <2>13, <2>16
  <2> QED
    BY <2>14, <2>17 DEF s
<1> QED
  BY <1>1, GainsAlways, PTL
=============================================================================
