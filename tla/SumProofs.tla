----------------------------- MODULE SumProofs -----------------------------
(***************************************************************************)
(* What the proofs about money and shares rest on: induction over the      *)
(* naturals and over finite sets in a form the provers can use, and how a  *)
(* sum over a set changes with the set and with the function.              *)
(***************************************************************************)
EXTENDS Functions, Integers, FiniteSetTheorems, WellFoundedInduction, TLAPS

-----------------------------------------------------------------------------
(* Induction *)

\* What holds of 0 and passes on to the next number holds of every number.
LEMMA NatsAll ==
  ASSUME NEW T \in SUBSET Nat, 0 \in T, \A n \in T : n + 1 \in T
  PROVE  T = Nat
<1> SUFFICES ASSUME Nat \ T # {} PROVE FALSE
  OBVIOUS
<1> DEFINE R == OpToRel(<, Nat)
<1>1. \E m \in Nat \ T : \A k \in Nat \ T : <<k, m>> \notin R
  <2> HIDE DEF R
  <2>1. IsWellFoundedOn(R, Nat)
    BY NatLessThanWellFounded DEF R
  <2> QED
    BY <2>1, WFMin
<1>2. PICK m \in Nat \ T : \A k \in Nat \ T : ~(k < m)
  <2>1. \A k, m \in Nat : k < m => <<k, m>> \in R
    BY DEF OpToRel
  <2> QED
    BY <1>1, <2>1
<1>3. m # 0 /\ m - 1 \in Nat /\ m - 1 < m
  BY <1>2
<1>4. m - 1 \in T
  BY <1>2, <1>3
<1>5. (m - 1) + 1 \in T
  BY <1>4
<1> QED
  BY <1>2, <1>3, <1>5

\* A set of naturals that is not empty has a least member.
LEMMA LeastNatural ==
  ASSUME NEW T \in SUBSET Nat, T # {}
  PROVE  \E m \in T : \A k \in T : m <= k
<1> SUFFICES ASSUME \A m \in T : \E k \in T : k < m PROVE FALSE
  OBVIOUS
<1> DEFINE U == {n \in Nat : \A k \in T : n < k}
<1>1. 0 \in U
  <2>1. \A k \in T : 0 < k
    <3> SUFFICES ASSUME NEW k \in T PROVE 0 < k
      OBVIOUS
    <3>1. PICK j \in T : j < k
      OBVIOUS
    <3> QED
      BY <3>1
  <2> QED
    BY <2>1
<1>2. \A n \in U : n + 1 \in U
  <2> SUFFICES ASSUME NEW n \in U, NEW k \in T PROVE n + 1 < k
    OBVIOUS
  <2>1. PICK j \in T : j < k
    OBVIOUS
  <2>2. n < j /\ n \in Nat /\ j \in Nat /\ k \in Nat
    OBVIOUS
  <2> QED
    BY <2>1, <2>2
<1>3. U = Nat
  <2> HIDE DEF U
  <2>1. U \in SUBSET Nat
    BY DEF U
  <2> QED
    BY <1>1, <1>2, <2>1, NatsAll
<1>4. PICK t \in T : TRUE
  OBVIOUS
<1>5. t \in Nat /\ t \in U
  BY <1>3, <1>4
<1>6. t < t
  BY <1>5
<1> QED
  BY <1>5, <1>6

\* A bounded set of naturals that is not empty has a greatest member.
LEMMA GreatestNatural ==
  ASSUME NEW n \in Nat, NEW T \in SUBSET (0 .. n), T # {}
  PROVE  \E m \in T : \A k \in T : k <= m
<1> DEFINE U == {b \in Nat : \A k \in T : k <= b}
<1>1. n \in U
  OBVIOUS
<1>2. PICK b \in U : \A c \in U : b <= c
  <2> HIDE DEF U
  <2>1. U \in SUBSET Nat /\ U # {}
    BY <1>1 DEF U
  <2> QED
    BY <2>1, LeastNatural
<1>3. b \in T
  <2> SUFFICES ASSUME b \notin T PROVE FALSE
    OBVIOUS
  <2>1. \A k \in T : k < b
    BY <1>2
  <2>2. b - 1 \in Nat
    <3>1. PICK k \in T : TRUE
      OBVIOUS
    <3>2. k < b /\ k \in Nat /\ b \in Nat
      BY <2>1
    <3> QED
      BY <3>2
  <2>3. b - 1 \in U
    BY <2>1, <2>2
  <2>4. b <= b - 1
    BY <1>2, <2>3
  <2> QED
    BY <2>2, <2>4
<1> QED
  BY <1>2, <1>3

\* What holds of a set whenever it holds of the set without any one of its
\* elements holds of every subset of a finite set.
LEMMA SubsetsAll ==
  ASSUME NEW S, IsFiniteSet(S), NEW F \in SUBSET SUBSET S, {} \in F,
         \A s \in SUBSET S : s # {} /\ (\A x \in s : s \ {x} \in F) => s \in F
  PROVE  F = SUBSET S
<1> DEFINE U == {n \in Nat : \A s \in SUBSET S : Cardinality(s) = n => s \in F}
<1>1. \A s \in SUBSET S : IsFiniteSet(s) /\ Cardinality(s) \in Nat
  BY FS_Subset, FS_CardinalityType
<1>2. 0 \in U
  BY <1>1, FS_EmptySet
<1>3. ASSUME NEW n \in U PROVE n + 1 \in U
  <2> SUFFICES ASSUME NEW s \in SUBSET S, Cardinality(s) = n + 1 PROVE s \in F
    OBVIOUS
  <2>1. s # {}
    <3>1. n + 1 # 0
      OBVIOUS
    <3> QED
      BY <3>1, FS_EmptySet
  <2>2. \A x \in s : s \ {x} \in F
    <3> SUFFICES ASSUME NEW x \in s PROVE s \ {x} \in F
      OBVIOUS
    <3>1. Cardinality(s \ {x}) = n
      BY <1>1, FS_RemoveElement
    <3> QED
      BY <3>1
  <2> QED
    BY <2>1, <2>2
<1>4. U = Nat
  <2> HIDE DEF U
  <2>1. U \in SUBSET Nat
    BY DEF U
  <2> QED
    BY <1>2, <1>3, <2>1, NatsAll
<1> QED
  BY <1>1, <1>4

-----------------------------------------------------------------------------
(* The function a sum is computed by *)

First(s) == CHOOSE x \in s : TRUE

\* Added[s] is the sum over s for the subsets s of S with at most n elements.
AddsUp(f, S, Added, n) ==
  \A s \in SUBSET S : Cardinality(s) <= n =>
    Added[s] = IF s = {} THEN 0 ELSE f[First(s)] + Added[s \ {First(s)}]

LEMMA FirstIsIn ==
  ASSUME NEW s, s # {}
  PROVE  First(s) \in s
BY DEF First

LEMMA SumsExist ==
  ASSUME NEW S, IsFiniteSet(S), NEW f
  PROVE  \E Added : /\ DOMAIN Added = SUBSET S
                    /\ AddsUp(f, S, Added, Cardinality(S))
<1> DEFINE U == {n \in Nat : \E Added : DOMAIN Added = SUBSET S /\ AddsUp(f, S, Added, n)}
<1>1. \A s \in SUBSET S : IsFiniteSet(s) /\ Cardinality(s) \in Nat
  BY FS_Subset, FS_CardinalityType
<1>2. 0 \in U
  <2> DEFINE A == [s \in SUBSET S |-> 0]
  <2>1. \A s \in SUBSET S : Cardinality(s) <= 0 => s = {}
    <3> SUFFICES ASSUME NEW s \in SUBSET S, Cardinality(s) <= 0 PROVE s = {}
      OBVIOUS
    <3>1. Cardinality(s) = 0
      BY <1>1
    <3> QED
      BY <1>1, <3>1, FS_EmptySet
  <2>2. DOMAIN A = SUBSET S /\ AddsUp(f, S, A, 0)
    BY <2>1 DEF AddsUp
  <2> QED
    BY <2>2
<1>3. ASSUME NEW n \in U PROVE n + 1 \in U
  <2>1. PICK A : DOMAIN A = SUBSET S /\ AddsUp(f, S, A, n)
    OBVIOUS
  <2> DEFINE B == [s \in SUBSET S |-> IF s = {} THEN 0 ELSE f[First(s)] + A[s \ {First(s)}]]
  <2>2. \A s \in SUBSET S : Cardinality(s) <= n => B[s] = A[s]
    BY <2>1 DEF AddsUp
  <2>3. ASSUME NEW s \in SUBSET S, Cardinality(s) <= n + 1, s # {}
        PROVE  B[s] = f[First(s)] + B[s \ {First(s)}]
    <3>1. First(s) \in s /\ s \ {First(s)} \in SUBSET S
      BY <2>3, FirstIsIn
    <3>2. Cardinality(s \ {First(s)}) = Cardinality(s) - 1
      BY <1>1, <3>1, FS_RemoveElement
    <3>3. Cardinality(s \ {First(s)}) <= n
      BY <1>1, <2>3, <3>1, <3>2
    <3>4. B[s \ {First(s)}] = A[s \ {First(s)}]
      BY <2>2, <3>1, <3>3
    <3> QED
      BY <2>3, <3>4
  <2>4. DOMAIN B = SUBSET S /\ B[{}] = 0
    OBVIOUS
  <2> HIDE DEF B
  <2>5. AddsUp(f, S, B, n + 1)
    BY <2>3, <2>4 DEF AddsUp
  <2> QED
    BY <2>4, <2>5
<1>4. U = Nat
  <2> HIDE DEF U
  <2>1. U \in SUBSET Nat
    BY DEF U
  <2> QED
    BY <1>2, <1>3, <2>1, NatsAll
<1> QED
  BY <1>1, <1>4

\* The recursive function in SumFunctionOnSet satisfies its equation.
LEMMA SumAddsUp ==
  ASSUME NEW S, IsFiniteSet(S), NEW f
  PROVE  \E Added : /\ \A s \in SUBSET S : Added[s] = IF s = {} THEN 0 ELSE f[First(s)] + Added[s \ {First(s)}]
                    /\ Added[S] = SumFunctionOnSet(f, S)
<1> DEFINE Eq(A) == A = [s \in SUBSET S |-> IF s = {} THEN 0 ELSE f[First(s)] + A[s \ {First(s)}]]
<1>1. PICK A : DOMAIN A = SUBSET S /\ AddsUp(f, S, A, Cardinality(S))
  BY SumsExist
<1> DEFINE B == [s \in SUBSET S |-> A[s]]
<1>2. \A s \in SUBSET S : B[s] = IF s = {} THEN 0 ELSE f[First(s)] + B[s \ {First(s)}]
  <2>1. \A s \in SUBSET S : Cardinality(s) <= Cardinality(S)
    BY FS_Subset
  <2>2. \A s \in SUBSET S : s \ {First(s)} \in SUBSET S
    OBVIOUS
  <2> QED
    BY <1>1, <2>1, <2>2 DEF AddsUp
<1>3. Eq(B)
  BY <1>2
<1> DEFINE C == CHOOSE X : Eq(X)
<1>4. Eq(C)
  <2> HIDE DEF Eq, B
  <2> QED
    BY <1>3
<1>5. SumFunctionOnSet(f, S) = C[S]
  BY DEF SumFunctionOnSet, FoldFunctionOnSet, MapThenFoldSet, First
<1>6. \A s \in SUBSET S : C[s] = IF s = {} THEN 0 ELSE f[First(s)] + C[s \ {First(s)}]
  <2> HIDE DEF C
  <2> QED
    BY <1>4
<1> QED
  BY <1>5, <1>6

-----------------------------------------------------------------------------
(* Sums *)

LEMMA SumOfNone ==
  ASSUME NEW f
  PROVE  SumFunctionOnSet(f, {}) = 0
BY SumAddsUp, FS_EmptySet

\* The sum over a set does not depend on the set it is a subset of.
LEMMA SumFirst ==
  ASSUME NEW S, IsFiniteSet(S), S # {}, NEW f
  PROVE  SumFunctionOnSet(f, S) = f[First(S)] + SumFunctionOnSet(f, S \ {First(S)})
<1> DEFINE T == S \ {First(S)}
<1>1. PICK A : /\ \A s \in SUBSET S : A[s] = IF s = {} THEN 0 ELSE f[First(s)] + A[s \ {First(s)}]
               /\ A[S] = SumFunctionOnSet(f, S)
  BY SumAddsUp
<1>2. IsFiniteSet(T) /\ T \subseteq S
  BY FS_Subset
<1>3. PICK B : /\ \A s \in SUBSET T : B[s] = IF s = {} THEN 0 ELSE f[First(s)] + B[s \ {First(s)}]
               /\ B[T] = SumFunctionOnSet(f, T)
  BY <1>2, SumAddsUp
<1> HIDE DEF T
<1> DEFINE F == {s \in SUBSET T : A[s] = B[s]}
<1>4. {} \in F
  BY <1>1, <1>3
<1>5. ASSUME NEW s \in SUBSET T, s # {}, \A x \in s : s \ {x} \in F
      PROVE  s \in F
  <2>1. First(s) \in s
    BY <1>5, FirstIsIn
  <2>2. A[s \ {First(s)}] = B[s \ {First(s)}]
    BY <1>5, <2>1
  <2>3. s \in SUBSET S
    BY <1>2
  <2> QED
    BY <1>1, <1>3, <1>5, <2>2, <2>3
<1>6. F = SUBSET T
  <2> HIDE DEF F
  <2>1. F \in SUBSET SUBSET T
    BY DEF F
  <2> QED
    BY <1>2, <1>4, <1>5, <2>1, SubsetsAll
<1>7. A[T] = B[T]
  BY <1>6
<1> QED
  BY <1>1, <1>3, <1>7 DEF T

(* Arithmetic over values of which no more is known *)

LEMMA IntPlus ==
  ASSUME NEW a \in Int, NEW b \in Int
  PROVE  a + b \in Int
OBVIOUS

LEMMA NatPlus ==
  ASSUME NEW a \in Nat, NEW b \in Nat
  PROVE  a + b \in Nat
OBVIOUS

LEMMA PlusSwap ==
  ASSUME NEW a \in Int, NEW b \in Int
  PROVE  a + b = b + a
OBVIOUS

LEMMA PlusExchange ==
  ASSUME NEW a \in Int, NEW b \in Int, NEW c \in Int
  PROVE  a + (b + c) = b + (a + c)
OBVIOUS

LEMMA PlusGroups ==
  ASSUME NEW a \in Int, NEW b \in Int, NEW c \in Int
  PROVE  (a + b) + c = a + (b + c)
OBVIOUS

LEMMA PlusInstead ==
  ASSUME NEW a \in Int, NEW b \in Int, NEW c \in Int, NEW u, NEW v, u = c + a, v = b + a
  PROVE  v = u - c + b
OBVIOUS

LEMMA PlusNothing ==
  ASSUME NEW a \in Int
  PROVE  a + 0 = a
OBVIOUS

LEMMA NatGrows ==
  ASSUME NEW a \in Nat, NEW b \in Nat
  PROVE  a <= a + b
OBVIOUS

LEMMA NatOrder ==
  ASSUME NEW a \in Nat, NEW b \in Nat, NEW c \in Nat, a <= b, b <= c
  PROVE  a <= c
OBVIOUS

LEMMA SumType ==
  ASSUME NEW S, IsFiniteSet(S), NEW f, \A x \in S : f[x] \in Int
  PROVE  SumFunctionOnSet(f, S) \in Int
<1> DEFINE F == {s \in SUBSET S : SumFunctionOnSet(f, s) \in Int}
<1>1. {} \in F
  BY SumOfNone
<1>2. ASSUME NEW s \in SUBSET S, s # {}, \A x \in s : s \ {x} \in F
      PROVE  s \in F
  <2>1. First(s) \in s /\ IsFiniteSet(s)
    BY <1>2, FirstIsIn, FS_Subset
  <2>2. f[First(s)] \in Int /\ SumFunctionOnSet(f, s \ {First(s)}) \in Int
    BY <1>2, <2>1
  <2>3. SumFunctionOnSet(f, s) = f[First(s)] + SumFunctionOnSet(f, s \ {First(s)})
    BY <1>2, <2>1, SumFirst
  <2>4. f[First(s)] + SumFunctionOnSet(f, s \ {First(s)}) \in Int
    BY <2>2, IntPlus
  <2> QED
    BY <2>3, <2>4
<1>3. F = SUBSET S
  <2> HIDE DEF F
  <2>1. F \in SUBSET SUBSET S
    BY DEF F
  <2> QED
    BY <1>1, <1>2, <2>1, SubsetsAll
<1> QED
  BY <1>3

\* Any element may be taken out first.
LEMMA SumRemove ==
  ASSUME NEW S, IsFiniteSet(S), NEW f, \A x \in S : f[x] \in Int, NEW x \in S
  PROVE  SumFunctionOnSet(f, S) = f[x] + SumFunctionOnSet(f, S \ {x})
<1> DEFINE F == {s \in SUBSET S : \A y \in s : SumFunctionOnSet(f, s) = f[y] + SumFunctionOnSet(f, s \ {y})}
<1>1. {} \in F
  OBVIOUS
<1>2. ASSUME NEW s \in SUBSET S, s # {}, \A y \in s : s \ {y} \in F
      PROVE  s \in F
  <2> SUFFICES ASSUME NEW y \in s PROVE SumFunctionOnSet(f, s) = f[y] + SumFunctionOnSet(f, s \ {y})
    OBVIOUS
  <2> DEFINE c == First(s)
  <2>1. c \in s /\ IsFiniteSet(s) /\ SumFunctionOnSet(f, s) = f[c] + SumFunctionOnSet(f, s \ {c})
    BY <1>2, FirstIsIn, FS_Subset, SumFirst
  <2> HIDE DEF c
  <2>2. CASE y = c
    BY <2>1, <2>2
  <2>3. CASE y # c
    <3>1. SumFunctionOnSet(f, s \ {c}) = f[y] + SumFunctionOnSet(f, (s \ {c}) \ {y})
      BY <1>2, <2>1, <2>3
    <3>2. SumFunctionOnSet(f, s \ {y}) = f[c] + SumFunctionOnSet(f, (s \ {y}) \ {c})
      BY <1>2, <2>1, <2>3
    <3>3. (s \ {c}) \ {y} = (s \ {y}) \ {c}
      OBVIOUS
    <3>4. IsFiniteSet((s \ {y}) \ {c}) /\ (s \ {y}) \ {c} \subseteq S
      BY <2>1, FS_Subset
    <3>5. f[y] \in Int /\ f[c] \in Int /\ SumFunctionOnSet(f, (s \ {y}) \ {c}) \in Int
      BY <2>1, <3>4, SumType
    <3>6. f[c] + (f[y] + SumFunctionOnSet(f, (s \ {y}) \ {c})) = f[y] + (f[c] + SumFunctionOnSet(f, (s \ {y}) \ {c}))
      BY <3>5, PlusExchange
    <3> QED
      BY <2>1, <3>1, <3>2, <3>3, <3>6
  <2> QED
    BY <2>2, <2>3
<1>3. F = SUBSET S
  <2> HIDE DEF F
  <2>1. F \in SUBSET SUBSET S
    BY DEF F
  <2> QED
    BY <1>1, <1>2, <2>1, SubsetsAll
<1> QED
  BY <1>3

LEMMA SumAdd ==
  ASSUME NEW S, IsFiniteSet(S), NEW x, x \notin S, NEW f, \A y \in S \cup {x} : f[y] \in Int
  PROVE  SumFunctionOnSet(f, S \cup {x}) = SumFunctionOnSet(f, S) + f[x]
<1>1. IsFiniteSet(S \cup {x}) /\ (S \cup {x}) \ {x} = S
  BY FS_AddElement
<1>2. SumFunctionOnSet(f, S \cup {x}) = f[x] + SumFunctionOnSet(f, (S \cup {x}) \ {x})
  BY <1>1, SumRemove
<1>3. SumFunctionOnSet(f, S) \in Int /\ f[x] \in Int
  BY SumType
<1>4. f[x] + SumFunctionOnSet(f, S) = SumFunctionOnSet(f, S) + f[x]
  BY <1>3, PlusSwap
<1> QED
  BY <1>1, <1>2, <1>4

LEMMA SumEqual ==
  ASSUME NEW S, IsFiniteSet(S), NEW f, NEW g, \A x \in S : f[x] = g[x]
  PROVE  SumFunctionOnSet(f, S) = SumFunctionOnSet(g, S)
<1> DEFINE F == {s \in SUBSET S : SumFunctionOnSet(f, s) = SumFunctionOnSet(g, s)}
<1>1. {} \in F
  BY SumOfNone
<1>2. ASSUME NEW s \in SUBSET S, s # {}, \A x \in s : s \ {x} \in F
      PROVE  s \in F
  <2>1. First(s) \in s /\ IsFiniteSet(s)
    BY <1>2, FirstIsIn, FS_Subset
  <2>2. f[First(s)] = g[First(s)] /\ SumFunctionOnSet(f, s \ {First(s)}) = SumFunctionOnSet(g, s \ {First(s)})
    BY <1>2, <2>1
  <2> QED
    BY <1>2, <2>1, <2>2, SumFirst
<1>3. F = SUBSET S
  <2> HIDE DEF F
  <2>1. F \in SUBSET SUBSET S
    BY DEF F
  <2> QED
    BY <1>1, <1>2, <2>1, SubsetsAll
<1> QED
  BY <1>3

LEMMA SumPlus ==
  ASSUME NEW S, IsFiniteSet(S), NEW f, NEW g, NEW h,
         \A x \in S : f[x] \in Int /\ g[x] \in Int /\ h[x] = f[x] + g[x]
  PROVE  SumFunctionOnSet(h, S) = SumFunctionOnSet(f, S) + SumFunctionOnSet(g, S)
<1> DEFINE F == {s \in SUBSET S : SumFunctionOnSet(h, s) = SumFunctionOnSet(f, s) + SumFunctionOnSet(g, s)}
<1>1. {} \in F
  BY SumOfNone
<1>2. ASSUME NEW s \in SUBSET S, s # {}, \A x \in s : s \ {x} \in F
      PROVE  s \in F
  <2> DEFINE c == First(s)
  <2>1. c \in s /\ IsFiniteSet(s) /\ IsFiniteSet(s \ {c})
    BY <1>2, FirstIsIn, FS_Subset
  <2>2. /\ SumFunctionOnSet(f, s) = f[c] + SumFunctionOnSet(f, s \ {c})
        /\ SumFunctionOnSet(g, s) = g[c] + SumFunctionOnSet(g, s \ {c})
        /\ SumFunctionOnSet(h, s) = h[c] + SumFunctionOnSet(h, s \ {c})
    BY <1>2, <2>1, SumFirst
  <2> HIDE DEF c
  <2>3. SumFunctionOnSet(h, s \ {c}) = SumFunctionOnSet(f, s \ {c}) + SumFunctionOnSet(g, s \ {c})
    BY <1>2, <2>1
  <2>4. SumFunctionOnSet(f, s \ {c}) \in Int /\ SumFunctionOnSet(g, s \ {c}) \in Int
    <3>1. \A x \in s \ {c} : f[x] \in Int /\ g[x] \in Int
      OBVIOUS
    <3> QED
      BY <2>1, <3>1, SumType
  <2>5. f[c] \in Int /\ g[c] \in Int /\ h[c] = f[c] + g[c]
    BY <2>1
  <2> QED
    BY <2>2, <2>3, <2>4, <2>5
<1>3. F = SUBSET S
  <2> HIDE DEF F
  <2>1. F \in SUBSET SUBSET S
    BY DEF F
  <2> QED
    BY <1>1, <1>2, <2>1, SubsetsAll
<1> QED
  BY <1>3

LEMMA SumNat ==
  ASSUME NEW S, IsFiniteSet(S), NEW f, \A x \in S : f[x] \in Nat
  PROVE  SumFunctionOnSet(f, S) \in Nat
<1> DEFINE F == {s \in SUBSET S : SumFunctionOnSet(f, s) \in Nat}
<1>1. {} \in F
  BY SumOfNone
<1>2. ASSUME NEW s \in SUBSET S, s # {}, \A x \in s : s \ {x} \in F
      PROVE  s \in F
  <2>1. First(s) \in s /\ IsFiniteSet(s)
    BY <1>2, FirstIsIn, FS_Subset
  <2>2. f[First(s)] \in Nat /\ SumFunctionOnSet(f, s \ {First(s)}) \in Nat
    BY <1>2, <2>1
  <2>3. SumFunctionOnSet(f, s) = f[First(s)] + SumFunctionOnSet(f, s \ {First(s)})
    BY <1>2, <2>1, SumFirst
  <2>4. f[First(s)] + SumFunctionOnSet(f, s \ {First(s)}) \in Nat
    BY <2>2, NatPlus
  <2> QED
    BY <2>3, <2>4
<1>3. F = SUBSET S
  <2> HIDE DEF F
  <2>1. F \in SUBSET SUBSET S
    BY DEF F
  <2> QED
    BY <1>1, <1>2, <2>1, SubsetsAll
<1> QED
  BY <1>3

\* Numbers that are not negative: a part adds up to no more than the whole.
LEMMA SumOfPart ==
  ASSUME NEW S, IsFiniteSet(S), NEW T \in SUBSET S, NEW f, \A x \in S : f[x] \in Nat
  PROVE  SumFunctionOnSet(f, T) <= SumFunctionOnSet(f, S)
<1> DEFINE Rest == S \ T
           F == {s \in SUBSET Rest : SumFunctionOnSet(f, T) <= SumFunctionOnSet(f, T \cup s)}
<1>1. IsFiniteSet(Rest) /\ IsFiniteSet(T) /\ T \cup Rest = S
  BY FS_Subset
<1>2. SumFunctionOnSet(f, T) \in Nat
  BY <1>1, SumNat
<1>3. {} \in F
  <2>1. T \cup {} = T /\ SumFunctionOnSet(f, T) <= SumFunctionOnSet(f, T)
    BY <1>2
  <2> QED
    BY <2>1
<1>4. ASSUME NEW s \in SUBSET Rest, s # {}, \A x \in s : s \ {x} \in F
      PROVE  s \in F
  <2>1. PICK x \in s : TRUE
    BY <1>4
  <2> DEFINE U == T \cup (s \ {x})
  <2>2. IsFiniteSet(U) /\ x \notin U /\ T \cup s = U \cup {x} /\ U \cup {x} \subseteq S
    BY FS_Subset
  <2>3. SumFunctionOnSet(f, T) <= SumFunctionOnSet(f, U)
    BY <1>4
  <2> HIDE DEF U
  <2>4. SumFunctionOnSet(f, U \cup {x}) = SumFunctionOnSet(f, U) + f[x]
    BY <2>2, SumAdd
  <2>5. SumFunctionOnSet(f, U) \in Nat /\ f[x] \in Nat
    BY <2>2, SumNat
  <2>6. SumFunctionOnSet(f, U) <= SumFunctionOnSet(f, U) + f[x]
    BY <2>5, NatGrows
  <2>7. SumFunctionOnSet(f, T) <= SumFunctionOnSet(f, U \cup {x})
    BY <1>2, <2>3, <2>4, <2>5, <2>6, NatPlus, NatOrder
  <2> QED
    BY <2>2, <2>7
<1>5. F = SUBSET Rest
  <2> HIDE DEF F, Rest
  <2>1. F \in SUBSET SUBSET Rest
    BY DEF F
  <2> QED
    BY <1>1, <1>3, <1>4, <2>1, SubsetsAll
<1>6. Rest \in F
  BY <1>5
<1> QED
  BY <1>1, <1>6

\* A sum over what a one-to-one function gives.
LEMMA SumOfImage ==
  ASSUME NEW S, IsFiniteSet(S), NEW g, \A x, y \in S : g[x] = g[y] => x = y,
         NEW f, NEW h, \A x \in S : f[g[x]] \in Int /\ h[x] = f[g[x]]
  PROVE  SumFunctionOnSet(f, {g[x] : x \in S}) = SumFunctionOnSet(h, S)
<1> DEFINE Img(s) == {g[x] : x \in s}
           F == {s \in SUBSET S : /\ IsFiniteSet(Img(s))
                                  /\ SumFunctionOnSet(f, Img(s)) = SumFunctionOnSet(h, s)}
<1>1. {} \in F
  <2>1. Img({}) = {}
    OBVIOUS
  <2> QED
    BY <2>1, SumOfNone, FS_EmptySet
<1>2. ASSUME NEW s \in SUBSET S, s # {}, \A x \in s : s \ {x} \in F
      PROVE  s \in F
  <2>1. PICK x \in s : TRUE
    BY <1>2
  <2> DEFINE T == s \ {x}
  <2>2. IsFiniteSet(T) /\ x \notin T /\ s = T \cup {x}
    BY FS_Subset
  <2>3. IsFiniteSet(Img(T))
    BY <1>2
  <2>4. g[x] \notin Img(T) /\ Img(s) = Img(T) \cup {g[x]}
    OBVIOUS
  <2>5. \A y \in Img(T) \cup {g[x]} : f[y] \in Int
    OBVIOUS
  <2>6. SumFunctionOnSet(f, Img(T)) = SumFunctionOnSet(h, T)
    BY <1>2
  <2>7. \A y \in T \cup {x} : h[y] \in Int
    OBVIOUS
  <2>8. h[x] = f[g[x]]
    OBVIOUS
  <2> HIDE DEF T
  <2>9. SumFunctionOnSet(f, Img(T) \cup {g[x]}) = SumFunctionOnSet(f, Img(T)) + f[g[x]]
    <3> DEFINE I == Img(T)
               e == g[x]
    <3>1. IsFiniteSet(I) /\ e \notin I /\ \A y \in I \cup {e} : f[y] \in Int
      BY <2>3, <2>4, <2>5
    <3> HIDE DEF I, e
    <3>2. SumFunctionOnSet(f, I \cup {e}) = SumFunctionOnSet(f, I) + f[e]
      BY <3>1, SumAdd
    <3> QED
      BY <3>2 DEF I, e
  <2>10. SumFunctionOnSet(h, T \cup {x}) = SumFunctionOnSet(h, T) + h[x]
    BY <2>2, <2>7, SumAdd
  <2> HIDE DEF Img
  <2>11. IsFiniteSet(Img(s))
    BY <2>3, <2>4, FS_AddElement
  <2>12. SumFunctionOnSet(f, Img(s)) = SumFunctionOnSet(h, s)
    BY <2>2, <2>4, <2>6, <2>8, <2>9, <2>10
  <2> QED
    BY <2>11, <2>12
<1> HIDE DEF Img
<1>3. F = SUBSET S
  <2> HIDE DEF F
  <2>1. F \in SUBSET SUBSET S
    BY DEF F
  <2> QED
    <3>1. {} \in F
      BY <1>1
    <3>2. \A s \in SUBSET S : s # {} /\ (\A x \in s : s \ {x} \in F) => s \in F
      BY <1>2
    <3> QED
      BY <2>1, <3>1, <3>2, SubsetsAll
<1>4. S \in F
  BY <1>3
<1> QED
  BY <1>4 DEF Img

\* Two functions that differ in one place only.
LEMMA SumOfChange ==
  ASSUME NEW S, IsFiniteSet(S), NEW x \in S, NEW f, NEW g,
         \A y \in S : f[y] \in Int /\ g[y] \in Int /\ (y # x => g[y] = f[y])
  PROVE  SumFunctionOnSet(g, S) = SumFunctionOnSet(f, S) - f[x] + g[x]
<1> DEFINE T == S \ {x}
<1>1. IsFiniteSet(T) /\ T \subseteq S /\ x \notin T
  BY FS_Subset
<1>2. SumFunctionOnSet(f, S) = f[x] + SumFunctionOnSet(f, T)
  BY SumRemove
<1>3. SumFunctionOnSet(g, S) = g[x] + SumFunctionOnSet(g, T)
  BY SumRemove
<1>4. SumFunctionOnSet(f, T) = SumFunctionOnSet(g, T)
  BY <1>1, SumEqual
<1>5. SumFunctionOnSet(f, T) \in Int /\ f[x] \in Int /\ g[x] \in Int
  BY <1>1, SumType
<1> HIDE DEF T
<1>6. SumFunctionOnSet(g, S) = g[x] + SumFunctionOnSet(f, T)
  BY <1>3, <1>4, Zenon
<1> QED
  BY <1>2, <1>5, <1>6, PlusInstead

LEMMA SumOfZeros ==
  ASSUME NEW S, IsFiniteSet(S), NEW f, \A x \in S : f[x] = 0
  PROVE  SumFunctionOnSet(f, S) = 0
<1> DEFINE F == {s \in SUBSET S : SumFunctionOnSet(f, s) = 0}
<1>1. {} \in F
  BY SumOfNone
<1>2. ASSUME NEW s \in SUBSET S, s # {}, \A x \in s : s \ {x} \in F
      PROVE  s \in F
  <2>1. First(s) \in s /\ IsFiniteSet(s)
    BY <1>2, FirstIsIn, FS_Subset
  <2>2. f[First(s)] = 0 /\ SumFunctionOnSet(f, s \ {First(s)}) = 0
    BY <1>2, <2>1
  <2>3. SumFunctionOnSet(f, s) = f[First(s)] + SumFunctionOnSet(f, s \ {First(s)})
    BY <1>2, <2>1, SumFirst
  <2>4. SumFunctionOnSet(f, s) = 0 + 0
    BY <2>2, <2>3
  <2> QED
    BY <2>4
<1>3. F = SUBSET S
  <2> HIDE DEF F
  <2>1. F \in SUBSET SUBSET S
    BY DEF F
  <2> QED
    BY <1>1, <1>2, <2>1, SubsetsAll
<1> QED
  BY <1>3

\* Two sets without a common element.
LEMMA SumOfUnion ==
  ASSUME NEW S, IsFiniteSet(S), NEW T, IsFiniteSet(T), S \cap T = {},
         NEW f, \A x \in S \cup T : f[x] \in Int
  PROVE  SumFunctionOnSet(f, S \cup T) = SumFunctionOnSet(f, S) + SumFunctionOnSet(f, T)
<1> DEFINE F == {s \in SUBSET T :
                  SumFunctionOnSet(f, S \cup s) = SumFunctionOnSet(f, S) + SumFunctionOnSet(f, s)}
<1>1. {} \in F
  <2>1. S \cup {} = S /\ SumFunctionOnSet(f, {}) = 0 /\ SumFunctionOnSet(f, S) \in Int
    BY SumOfNone, SumType
  <2>2. SumFunctionOnSet(f, S) + 0 = SumFunctionOnSet(f, S)
    BY <2>1, PlusNothing
  <2> QED
    BY <2>1, <2>2
<1>2. ASSUME NEW s \in SUBSET T, s # {}, \A x \in s : s \ {x} \in F
      PROVE  s \in F
  <2>1. PICK x \in s : TRUE
    BY <1>2
  <2> DEFINE U == s \ {x}
  <2>2. /\ IsFiniteSet(U) /\ x \notin U /\ s = U \cup {x}
        /\ IsFiniteSet(S \cup U) /\ x \notin S \cup U /\ S \cup s = (S \cup U) \cup {x}
    BY FS_Subset, FS_Union
  <2>3. SumFunctionOnSet(f, S \cup U) = SumFunctionOnSet(f, S) + SumFunctionOnSet(f, U)
    BY <1>2
  <2>4. /\ \A y \in U \cup {x} : f[y] \in Int
        /\ \A y \in (S \cup U) \cup {x} : f[y] \in Int
        /\ f[x] \in Int /\ \A y \in S : f[y] \in Int /\ \A z \in U : f[z] \in Int
    OBVIOUS
  <2> HIDE DEF U
  <2>5. SumFunctionOnSet(f, s) = SumFunctionOnSet(f, U) + f[x]
    BY <2>2, <2>4, SumAdd
  <2>6. SumFunctionOnSet(f, S \cup s) = SumFunctionOnSet(f, S \cup U) + f[x]
    BY <2>2, <2>4, SumAdd
  <2>7. SumFunctionOnSet(f, S) \in Int /\ SumFunctionOnSet(f, U) \in Int
    BY <2>2, <2>4, SumType
  <2>8. (SumFunctionOnSet(f, S) + SumFunctionOnSet(f, U)) + f[x]
          = SumFunctionOnSet(f, S) + (SumFunctionOnSet(f, U) + f[x])
    BY <2>4, <2>7, PlusGroups
  <2> QED
    BY <2>3, <2>5, <2>6, <2>8
<1>3. F = SUBSET T
  <2> HIDE DEF F
  <2>1. F \in SUBSET SUBSET T
    BY DEF F
  <2> QED
    BY <1>1, <1>2, <2>1, SubsetsAll
<1>4. T \in F
  BY <1>3
<1> QED
  BY <1>4

LEMMA SumOfOne ==
  ASSUME NEW f, NEW x, f[x] \in Int
  PROVE  SumFunctionOnSet(f, {x}) = f[x]
<1>1. IsFiniteSet({x}) /\ {x} \ {x} = {}
  BY FS_Singleton
<1>2. \A y \in {x} : f[y] \in Int
  OBVIOUS
<1>3. SumFunctionOnSet(f, {x}) = f[x] + SumFunctionOnSet(f, {x} \ {x})
  BY <1>1, <1>2, SumRemove
<1>4. f[x] + SumFunctionOnSet(f, {x} \ {x}) = f[x] + 0
  BY <1>1, SumOfNone
<1> QED
  BY <1>3, <1>4, PlusNothing

LEMMA SumTimes ==
  ASSUME NEW S, IsFiniteSet(S), NEW f, NEW h, NEW c \in Int,
         \A x \in S : f[x] \in Int /\ h[x] = f[x] * c
  PROVE  SumFunctionOnSet(h, S) = SumFunctionOnSet(f, S) * c
<1> DEFINE F == {s \in SUBSET S : SumFunctionOnSet(h, s) = SumFunctionOnSet(f, s) * c}
<1>1. {} \in F
  <2>1. 0 * c = 0
    OBVIOUS
  <2> QED
    BY <2>1, SumOfNone
<1>2. ASSUME NEW s \in SUBSET S, s # {}, \A x \in s : s \ {x} \in F
      PROVE  s \in F
  <2> DEFINE x == First(s)
             t == s \ {x}
  <2>1. x \in s /\ IsFiniteSet(s) /\ IsFiniteSet(t)
    BY <1>2, FirstIsIn, FS_Subset
  <2>2. /\ SumFunctionOnSet(f, s) = f[x] + SumFunctionOnSet(f, t)
        /\ SumFunctionOnSet(h, s) = h[x] + SumFunctionOnSet(h, t)
    BY <1>2, <2>1, SumFirst
  <2>3. SumFunctionOnSet(h, t) = SumFunctionOnSet(f, t) * c
    BY <1>2, <2>1
  <2>4. SumFunctionOnSet(f, t) \in Int /\ f[x] \in Int /\ h[x] = f[x] * c
    <3>1. \A y \in t : f[y] \in Int
      OBVIOUS
    <3> HIDE DEF t
    <3> QED
      BY <2>1, <3>1, SumType
  <2> HIDE DEF x, t
  <2>5. \A a, b \in Int : a * c + b * c = (a + b) * c
    OBVIOUS
  <2> QED
    BY <2>2, <2>3, <2>4, <2>5
<1>3. F = SUBSET S
  <2> HIDE DEF F
  <2>1. F \in SUBSET SUBSET S
    BY DEF F
  <2> QED
    BY <1>1, <1>2, <2>1, SubsetsAll
<1> QED
  BY <1>3

\* What is no less anywhere adds up to no less.
LEMMA SumMonotone ==
  ASSUME NEW S, IsFiniteSet(S), NEW f, NEW g,
         \A x \in S : f[x] \in Nat /\ g[x] \in Nat /\ f[x] <= g[x]
  PROVE  SumFunctionOnSet(f, S) <= SumFunctionOnSet(g, S)
<1> DEFINE h == [x \in S |-> g[x] - f[x]]
<1>1. \A x \in S : f[x] \in Int /\ h[x] \in Int /\ g[x] = f[x] + h[x]
  OBVIOUS
<1>2. \A x \in S : f[x] \in Nat /\ h[x] \in Nat
  OBVIOUS
<1> HIDE DEF h
<1>3. SumFunctionOnSet(g, S) = SumFunctionOnSet(f, S) + SumFunctionOnSet(h, S)
  BY <1>1, SumPlus
<1>4. SumFunctionOnSet(f, S) \in Nat /\ SumFunctionOnSet(h, S) \in Nat
  BY <1>2, SumNat
<1> QED
  BY <1>3, <1>4, NatGrows

\* A table of numbers with the sums of its rows and of its columns.
Tabulated(A, S, table, column, rows, columns) ==
  /\ \A i \in A, l \in S : table[i][l] \in Int /\ column[l][i] = table[i][l]
  /\ \A i \in A : rows[i] = SumFunctionOnSet(table[i], S)
  /\ \A l \in S : columns[l] = SumFunctionOnSet(column[l], A)

\* The sums of the rows add up to the same as those of the columns.
LEMMA SumSwap ==
  ASSUME NEW A, IsFiniteSet(A), NEW S, IsFiniteSet(S),
         NEW table, NEW column, NEW rows, NEW columns,
         Tabulated(A, S, table, column, rows, columns)
  PROVE  SumFunctionOnSet(rows, A) = SumFunctionOnSet(columns, S)
<1> DEFINE Upto(s) == [l \in S |-> SumFunctionOnSet(column[l], s)]
           F == {s \in SUBSET A : SumFunctionOnSet(rows, s) = SumFunctionOnSet(Upto(s), S)}
<1>1. /\ \A i \in A, l \in S : table[i][l] \in Int /\ column[l][i] = table[i][l]
      /\ \A i \in A : rows[i] = SumFunctionOnSet(table[i], S)
      /\ \A l \in S : columns[l] = SumFunctionOnSet(column[l], A)
  BY DEF Tabulated
<1>2. {} \in F
  <2>1. \A l \in S : Upto({})[l] = 0
    BY SumOfNone
  <2> HIDE DEF Upto
  <2>2. SumFunctionOnSet(Upto({}), S) = 0
    BY <2>1, SumOfZeros
  <2> QED
    BY <2>2, SumOfNone
<1>3. ASSUME NEW s \in SUBSET A, s # {}, \A x \in s : s \ {x} \in F
      PROVE  s \in F
  <2> DEFINE x == First(s)
             t == s \ {x}
  <2>1. x \in s /\ IsFiniteSet(s) /\ IsFiniteSet(t)
    BY <1>3, FirstIsIn, FS_Subset
  <2>2. SumFunctionOnSet(rows, t) = SumFunctionOnSet(Upto(t), S)
    BY <1>3, <2>1
  <2>3. t \subseteq A /\ x \in A
    BY <2>1
  <2> HIDE DEF x, t
  <2>4. SumFunctionOnSet(rows, s) = rows[x] + SumFunctionOnSet(rows, t)
    BY <1>3, <2>1, SumFirst DEF x, t
  <2> DEFINE row == table[x]
             old == Upto(t)
             new == Upto(s)
  <2>5. ASSUME NEW l \in S
        PROVE  row[l] \in Int /\ old[l] \in Int /\ new[l] = row[l] + old[l]
    <3> DEFINE c == column[l]
    <3>1. \A i \in t \cup {x} : c[i] \in Int
      BY <1>1, <2>3
    <3>2. c[x] = row[l] /\ row[l] \in Int
      BY <1>1, <2>3
    <3>3. old[l] = SumFunctionOnSet(c, t) /\ new[l] = SumFunctionOnSet(c, s)
      OBVIOUS
    <3> HIDE DEF c, old, new, row
    <3>4. SumFunctionOnSet(c, s) = c[x] + SumFunctionOnSet(c, t)
      BY <1>3, <2>1, SumFirst DEF x, t
    <3>5. SumFunctionOnSet(c, t) \in Int
      <4>1. \A i \in t : c[i] \in Int
        BY <3>1
      <4> QED
        BY <2>1, <4>1, SumType
    <3> QED
      BY <3>2, <3>3, <3>4, <3>5
  <2>6. rows[x] = SumFunctionOnSet(row, S)
    BY <1>1, <2>3
  <2> HIDE DEF row, old, new
  <2>7. SumFunctionOnSet(new, S) = SumFunctionOnSet(row, S) + SumFunctionOnSet(old, S)
    BY <2>5, SumPlus
  <2>8. SumFunctionOnSet(rows, s) = SumFunctionOnSet(new, S)
    BY <2>2, <2>4, <2>6, <2>7 DEF old
  <2> QED
    BY <2>8 DEF new
<1>4. F = SUBSET A
  <2> HIDE DEF F
  <2>1. F \in SUBSET SUBSET A
    BY DEF F
  <2>2. \A s \in SUBSET A : s # {} /\ (\A x \in s : s \ {x} \in F) => s \in F
    BY <1>3
  <2> QED
    BY <1>2, <2>1, <2>2, SubsetsAll
<1>5. SumFunctionOnSet(rows, A) = SumFunctionOnSet(Upto(A), S)
  BY <1>4
<1>6. SumFunctionOnSet(Upto(A), S) = SumFunctionOnSet(columns, S)
  <2> DEFINE f == Upto(A)
  <2>1. \A l \in S : f[l] = columns[l]
    BY <1>1
  <2> HIDE DEF f
  <2>2. SumFunctionOnSet(f, S) = SumFunctionOnSet(columns, S)
    BY <2>1, SumEqual
  <2> QED
    BY <2>2 DEF f
<1> QED
  BY <1>5, <1>6
=============================================================================
