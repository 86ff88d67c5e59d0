---------------------------- MODULE DataTheorems -----------------------------
(***************************************************************************)
(* Induction over data, and functions defined by recursion.  The library's *)
(* theorems about both take an operator, which has to be instantiated;     *)
(* here the property is a set of numbers and the body of the recursion a   *)
(* function, so that the facts are first-order.                            *)
(***************************************************************************)
EXTENDS Integers, FiniteSetsExt, FiniteSetTheorems, WellFoundedInduction, TLAPS

Less == {pair \in Nat \X Nat : pair[1] < pair[2]}

LEMMA LessIsWellFounded == IsWellFoundedOn(Less, Nat)
  BY NatLessThanWellFounded DEF OpToRel, Less

\* Every set of naturals that is not empty has a least element.
LEMMA LeastNatural ==
    ASSUME NEW S \in SUBSET Nat, S # {}
    PROVE  \E n \in S : \A m \in S : n <= m
  <1>1. PICK n \in S : \A m \in S : <<m, n>> \notin Less
    BY LessIsWellFounded, WFMin
  <1>2. ASSUME NEW m \in S PROVE n <= m
    <2>1. m \in Nat /\ n \in Nat /\ <<m, n>> \notin Less
      BY <1>1
    <2> QED
      BY <2>1 DEF Less
  <1> QED
    BY <1>2

\* And a greatest, if it is bounded.
LEMMA GreatestBelow ==
    ASSUME NEW n \in Nat, NEW S \in SUBSET (0..n), S # {}
    PROVE  Max(S) \in S /\ \A y \in S : Max(S) >= y
  <1> DEFINE T == {n - x : x \in S}
  <1>1. PICK m \in T : \A k \in T : m <= k
    <2>1. \A x \in S : n - x \in Nat
      OBVIOUS
    <2>2. T \in SUBSET Nat /\ T # {}
      BY <2>1
    <2> HIDE DEF T
    <2> QED
      BY <2>2, LeastNatural
  <1>2. PICK x \in S : m = n - x
    BY <1>1
  <1>3. ASSUME NEW y \in S PROVE x >= y
    <2>1. m <= n - y /\ x \in 0..n /\ y \in 0..n
      BY <1>1
    <2> QED
      BY <1>2, <2>1
  <1> QED
    BY <1>3 DEF Max

\* Induction up to n: a set that has 0 and, with a number below n, the next.
LEMMA InductionUpTo ==
    ASSUME NEW n \in Nat, NEW S, 0 \in S,
           \A k \in 0..n : k \in S /\ k < n => k + 1 \in S
    PROVE  0..n \subseteq S
  <1> SUFFICES ASSUME ~(0..n \subseteq S)
               PROVE  FALSE
    OBVIOUS
  <1> DEFINE T == (0..n) \ S
  <1>1. PICK k \in T : \A m \in T : k <= m
    <2>1. T \in SUBSET Nat /\ T # {}
      OBVIOUS
    <2> HIDE DEF T
    <2> QED
      BY <2>1, LeastNatural
  <1>2. k - 1 \in 0..n /\ k - 1 \notin T
    BY <1>1
  <1> QED
    BY <1>1, <1>2

\* The body of a recursion that looks only at values of a lower rank.
Descends(D, V, n, rank, body) ==
    /\ V # {} /\ n \in Nat /\ rank \in [D -> 0..n]
    /\ body \in [[D -> V] \X D -> V]
    /\ \A f, g \in [D -> V], d \in D :
           (\A e \in D : rank[e] < rank[d] => f[e] = g[e]) => body[<<f, d>>] = body[<<g, d>>]

\* Such a body has a function that it defines.  The k-th approximation is right
\* below rank k.
LEMMA RecursiveFunction ==
    ASSUME NEW D, NEW V, NEW n, NEW rank, NEW body, Descends(D, V, n, rank, body)
    PROVE  \E f \in [D -> V] : f = [d \in D |-> body[<<f, d>>]]
  <1> USE DEF Descends
  <1> DEFINE Right(f, k) == f \in [D -> V] /\ \A d \in D : rank[d] < k => f[d] = body[<<f, d>>]
             S == {k \in 0..n + 1 : \E f : Right(f, k)}
  <1>1. 0 \in S
    <2>1. PICK v \in V : TRUE
      OBVIOUS
    <2>2. Right([d \in D |-> v], 0)
      OBVIOUS
    <2> HIDE DEF Right
    <2> QED
      BY <2>2
  <1>2. ASSUME NEW k \in 0..n + 1, k \in S, k < n + 1
        PROVE  k + 1 \in S
    <2>1. PICK f : Right(f, k)
      BY <1>2
    <2> DEFINE g == [d \in D |-> body[<<f, d>>]]
    <2>2. g \in [D -> V] /\ f \in [D -> V]
      BY <2>1
    <2>3. \A d \in D : rank[d] < k => g[d] = f[d]
      BY <2>1
    <2>4. ASSUME NEW d \in D, rank[d] < k + 1
          PROVE  g[d] = body[<<g, d>>]
      <3>1. \A e \in D : rank[e] < rank[d] => f[e] = g[e]
        BY <2>3, <2>4
      <3>2. body[<<f, d>>] = body[<<g, d>>]
        BY <2>2, <3>1
      <3> QED
        BY <3>2
    <2>5. Right(g, k + 1)
      BY <2>2, <2>4
    <2> HIDE DEF Right
    <2> QED
      BY <1>2, <2>5
  <1>3. n + 1 \in S
    <2> HIDE DEF S
    <2>1. 0..n + 1 \subseteq S
      BY <1>1, <1>2, InductionUpTo
    <2> QED
      BY <2>1
  <1>4. PICK f : Right(f, n + 1)
    BY <1>3
  <1> QED
    BY <1>4

Foldable(n, V, base, next) == n \in Nat /\ base \in V /\ next \in [V \X (1..n) -> V]

IsFold(f, n, V, base, next) ==
    /\ f \in [SUBSET (1..n) -> V]
    /\ \A s \in SUBSET (1..n) :
           f[s] = IF s = {} THEN base ELSE next[<<f[s \ {Max(s)}], Max(s)>>]

\* A fold over the first n naturals, as the folds of the community modules are
\* defined: it takes the last element and folds what is left.
LEMMA FoldExists ==
    ASSUME NEW n, NEW V, NEW base, NEW next, Foldable(n, V, base, next)
    PROVE  \E f : IsFold(f, n, V, base, next)
  <1> USE DEF Foldable, IsFold
  <1> DEFINE D == SUBSET (1..n)
             value(f, s) == IF s = {} THEN base ELSE next[<<f[s \ {Max(s)}], Max(s)>>]
             body == [p \in [D -> V] \X D |-> value(p[1], p[2])]
             rank == [s \in D |-> Cardinality(s)]
  <1>1. ASSUME NEW s \in D
        PROVE  IsFiniteSet(s) /\ Cardinality(s) \in 0..n
    <2>1. IsFiniteSet(1..n) /\ Cardinality(1..n) = n
      BY FS_Interval
    <2>2. s \in SUBSET (1..n)
      OBVIOUS
    <2> HIDE DEF D
    <2>3. IsFiniteSet(s) /\ Cardinality(s) <= Cardinality(1..n)
      BY <2>1, <2>2, FS_Subset
    <2>4. Cardinality(s) \in Nat
      BY <2>3, FS_CardinalityType
    <2> QED
      BY <2>1, <2>3, <2>4
  <1>2. ASSUME NEW s \in D, s # {}
        PROVE  /\ Max(s) \in 1..n /\ s \ {Max(s)} \in D
               /\ Cardinality(s \ {Max(s)}) < Cardinality(s)
    <2>1. Max(s) \in s
      <3>1. s \in SUBSET (0..n)
        OBVIOUS
      <3> QED
        BY <3>1, <1>2, GreatestBelow
    <2>2. Cardinality(s \ {Max(s)}) = Cardinality(s) - 1
      BY <1>1, <2>1, FS_RemoveElement
    <2>3. Cardinality(s \ {Max(s)}) < Cardinality(s)
      BY <1>1, <2>2
    <2> QED
      BY <2>1, <2>3
  <1>3. ASSUME NEW f \in [D -> V], NEW s \in D
        PROVE  value(f, s) \in V
    BY <1>2
  <1>4. rank \in [D -> 0..n]
    BY <1>1
  <1>5. ASSUME NEW f \in [D -> V], NEW g \in [D -> V], NEW s \in D,
               \A e \in D : rank[e] < rank[s] => f[e] = g[e]
        PROVE  value(f, s) = value(g, s)
    <2>1. CASE s = {}
      BY <2>1
    <2>2. CASE s # {}
      <3>1. s \ {Max(s)} \in D /\ rank[s \ {Max(s)}] < rank[s]
        BY <1>2, <2>2
      <3>2. f[s \ {Max(s)}] = g[s \ {Max(s)}]
        BY <1>5, <3>1
      <3> QED
        BY <2>2, <3>2
    <2> QED
      BY <2>1, <2>2
  <1>6. PICK f \in [D -> V] : f = [s \in D |-> body[<<f, s>>]]
    <2> HIDE DEF value, D, rank
    <2>1. body \in [[D -> V] \X D -> V]
      BY <1>3
    <2>2. \A f \in [D -> V], s \in D : body[<<f, s>>] = value(f, s)
      OBVIOUS
    <2> HIDE DEF body
    <2>3. \A f, g \in [D -> V], s \in D :
              (\A e \in D : rank[e] < rank[s] => f[e] = g[e]) => body[<<f, s>>] = body[<<g, s>>]
      BY <1>5, <2>2
    <2>4. V # {} /\ n \in Nat
      OBVIOUS
    <2>5. Descends(D, V, n, rank, body)
      BY <1>4, <2>1, <2>3, <2>4 DEF Descends
    <2> QED
      BY <2>5, RecursiveFunction
  <1>7. f = [s \in D |-> value(f, s)]
    <2> HIDE DEF value
    <2> QED
      BY <1>6
  <1> QED
    BY <1>7

\* For the first k the last is k.
LEMMA LastOfFirst ==
    ASSUME NEW k \in Nat \ {0}
    PROVE  Max(1..k) = k /\ (1..k) \ {k} = 1..k - 1
  <1>1. k \in 1..k /\ \A y \in 1..k : k >= y
    OBVIOUS
  <1>2. ASSUME NEW x \in 1..k, \A y \in 1..k : x >= y
        PROVE  x = k
    <2>1. x >= k
      BY <1>2
    <2> QED
      BY <2>1
  <1>3. Max(1..k) = k
    BY <1>1, <1>2 DEF Max
  <1> QED
    BY <1>3

-----------------------------------------------------------------------------
(* Ranks *)

Ordered(n, order) ==
    /\ n \in Nat /\ order \subseteq (1..n) \X (1..n)
    /\ \A i, j \in 1..n : <<i, j>> \in order \/ <<j, i>> \in order
    /\ \A i, j \in 1..n : <<i, j>> \in order /\ <<j, i>> \in order => i = j
    /\ \A i, j, k \in 1..n : <<i, j>> \in order /\ <<j, k>> \in order => <<i, k>> \in order

Below(n, order, j) == {i \in 1..n : <<i, j>> \in order}

\* Each place is the rank of one element.
LEMMA RanksAreAllPlaces ==
    ASSUME NEW n, NEW order, Ordered(n, order)
    PROVE  /\ \A j \in 1..n : Cardinality(Below(n, order, j)) \in 1..n
           /\ \A i, j \in 1..n :
                  Cardinality(Below(n, order, i)) = Cardinality(Below(n, order, j)) => i = j
           /\ \A k \in 1..n : \E j \in 1..n : Cardinality(Below(n, order, j)) = k
  <1> DEFINE rank == [j \in 1..n |-> Cardinality(Below(n, order, j))]
  <1>1. n \in Nat /\ IsFiniteSet(1..n) /\ Cardinality(1..n) = n
    <2>1. n \in Nat
      BY DEF Ordered
    <2>2. IsFiniteSet(1..n) /\ Cardinality(1..n) = IF 1 > n THEN 0 ELSE n - 1 + 1
      BY <2>1, FS_Interval
    <2> QED
      BY <2>1, <2>2
  <1>2. ASSUME NEW j \in 1..n
        PROVE  IsFiniteSet(Below(n, order, j)) /\ rank[j] \in 1..n
    <2>1. j \in Below(n, order, j) /\ Below(n, order, j) \in SUBSET (1..n)
      BY DEF Ordered, Below
    <2>2. IsFiniteSet(Below(n, order, j)) /\ Cardinality(Below(n, order, j)) <= n
      BY <1>1, <2>1, FS_Subset
    <2>3. /\ Cardinality(Below(n, order, j)) \in Nat
          /\ Cardinality(Below(n, order, j)) # 0
      BY <2>1, <2>2, FS_CardinalityType, FS_EmptySet
    <2> QED
      BY <1>1, <2>2, <2>3
  <1>3. ASSUME NEW i \in 1..n, NEW j \in 1..n, i # j, <<i, j>> \in order
        PROVE  rank[i] # rank[j]
    <2>1. Below(n, order, i) \subseteq Below(n, order, j)
      BY <1>3 DEF Ordered, Below
    <2>2. j \in Below(n, order, j) /\ j \notin Below(n, order, i)
      BY <1>3 DEF Ordered, Below
    <2>3. Below(n, order, i) # Below(n, order, j)
      BY <2>2
    <2> QED
      BY <1>2, <2>1, <2>3, FS_Subset
  <1>4. rank \in Injection(1..n, 1..n)
    <2>1. rank \in [1..n -> 1..n]
      BY <1>2
    <2>2. \A i, j \in 1..n : rank[i] = rank[j] => i = j
      BY <1>3 DEF Ordered
    <2> HIDE DEF rank
    <2> QED
      BY <2>1, <2>2 DEF Injection, IsInjective
  <1>5. rank \in Surjection(1..n, 1..n)
    <2> HIDE DEF rank
    <2> QED
      BY <1>1, <1>4, FS_Injection
  <1> QED
    BY <1>2, <1>4, <1>5 DEF Injection, IsInjective, Surjection

-----------------------------------------------------------------------------
(* Sums over finite sets of naturals, as MapThenSumSet adds them up *)

Pick(s) == CHOOSE x \in s : TRUE

AddsUp(sum, S, weight) ==
    \A s \in SUBSET S :
        sum[s] = IF s = {} THEN 0 ELSE weight[Pick(s)] + sum[s \ {Pick(s)}]

AddsUpAnyhow(sum, S, weight) ==
    /\ sum[{}] = 0
    /\ \A s \in SUBSET S :
           sum[s] \in Nat /\ \A x \in s : sum[s] = weight[x] + sum[s \ {x}]

\* Taking an element out of a finite set.
LEMMA SmallerSet ==
    ASSUME NEW S, IsFiniteSet(S), NEW s \in SUBSET S
    PROVE  /\ Cardinality(s) \in 0..Cardinality(S) /\ Cardinality(S) \in Nat
           /\ Cardinality(s) = 0 <=> s = {}
           /\ \A x \in s : s \ {x} \in SUBSET S /\ Cardinality(s \ {x}) = Cardinality(s) - 1
  <1>1. IsFiniteSet(s) /\ Cardinality(s) <= Cardinality(S)
    BY FS_Subset
  <1>2. Cardinality(s) \in Nat /\ Cardinality(S) \in Nat
    BY <1>1, FS_CardinalityType
  <1>3. Cardinality(s) = 0 <=> s = {}
    BY <1>1, FS_EmptySet
  <1>4. \A x \in s : Cardinality(s \ {x}) = Cardinality(s) - 1
    BY <1>1, FS_RemoveElement
  <1> QED
    BY <1>1, <1>2, <1>3, <1>4

\* A property of all subsets of a finite set: that of the empty one, and of one
\* with k + 1 elements if it is of all with k.
LEMMA InductionOnSubsets ==
    ASSUME NEW S, IsFiniteSet(S), NEW Good, {} \in Good,
           \A s \in SUBSET S :
               s # {} /\ (\A x \in s : s \ {x} \in Good) => s \in Good
    PROVE  SUBSET S \subseteq Good
  <1> DEFINE n == Cardinality(S)
             K == {k \in 0..n : \A s \in SUBSET S : Cardinality(s) = k => s \in Good}
  <1>1. n \in Nat
    BY FS_CardinalityType
  <1>2. 0 \in K
    <2>1. \A s \in SUBSET S : Cardinality(s) = 0 => s = {}
      BY SmallerSet
    <2> QED
      BY <1>1, <2>1
  <1>3. ASSUME NEW k \in 0..n, k \in K, k < n
        PROVE  k + 1 \in K
    <2>1. ASSUME NEW s \in SUBSET S, Cardinality(s) = k + 1
          PROVE  s \in Good
      <3>1. s # {}
        BY <1>1, <2>1, SmallerSet
      <3>2. ASSUME NEW x \in s
            PROVE  s \ {x} \in Good
        <4>1. s \ {x} \in SUBSET S /\ Cardinality(s \ {x}) = k
          BY <1>1, <2>1, SmallerSet
        <4> QED
          BY <1>3, <4>1
      <3> QED
        BY <3>1, <3>2
    <2> QED
      BY <1>1, <1>3, <2>1
  <1> HIDE DEF K
  <1>4. 0..n \subseteq K
    BY <1>1, <1>2, <1>3, InductionUpTo
  <1> QED
    BY <1>4, SmallerSet DEF K

LEMMA SumExists ==
    ASSUME NEW S, IsFiniteSet(S), NEW weight \in [S -> Nat]
    PROVE  \E sum : AddsUp(sum, S, weight)
  <1> DEFINE D == SUBSET S
             n == Cardinality(S)
             value(f, s) == IF s = {} THEN 0 ELSE weight[Pick(s)] + f[s \ {Pick(s)}]
             body == [p \in [D -> Nat] \X D |-> value(p[1], p[2])]
             rank == [s \in D |-> Cardinality(s)]
  <1>1. n \in Nat /\ rank \in [D -> 0..n]
    BY SmallerSet
  <1>2. ASSUME NEW s \in D, s # {}
        PROVE  Pick(s) \in s /\ s \ {Pick(s)} \in D /\ rank[s \ {Pick(s)}] < rank[s]
    <2>1. Pick(s) \in s
      BY <1>2 DEF Pick
    <2>2. s \ {Pick(s)} \in D /\ Cardinality(s \ {Pick(s)}) = Cardinality(s) - 1
      BY <2>1, SmallerSet
    <2>3. Cardinality(s) \in Nat
      BY <1>1, SmallerSet
    <2> QED
      BY <2>1, <2>2, <2>3
  <1>3. ASSUME NEW f \in [D -> Nat], NEW s \in D
        PROVE  value(f, s) \in Nat
    <2>1. CASE s = {}
      BY <2>1
    <2>2. CASE s # {}
      <3>1. weight[Pick(s)] \in Nat /\ f[s \ {Pick(s)}] \in Nat
        BY <1>2, <2>2
      <3> QED
        BY <2>2, <3>1
    <2> QED
      BY <2>1, <2>2
  <1>4. body \in [[D -> Nat] \X D -> Nat]
    BY <1>3
  <1>5. \A f \in [D -> Nat], s \in D : body[<<f, s>>] = value(f, s)
    OBVIOUS
  <1>6. ASSUME NEW f \in [D -> Nat], NEW g \in [D -> Nat], NEW s \in D,
               \A e \in D : rank[e] < rank[s] => f[e] = g[e]
        PROVE  value(f, s) = value(g, s)
    BY <1>2, <1>6
  <1>7. Descends(D, Nat, n, rank, body)
    <2> HIDE DEF body, value, rank, D
    <2>1. \A f, g \in [D -> Nat], s \in D :
              (\A e \in D : rank[e] < rank[s] => f[e] = g[e]) => body[<<f, s>>] = body[<<g, s>>]
      BY <1>5, <1>6
    <2> QED
      BY <1>1, <1>4, <2>1 DEF Descends
  <1>8. PICK f \in [D -> Nat] : f = [s \in D |-> body[<<f, s>>]]
    <2> HIDE DEF body, rank, D
    <2> QED
      BY <1>7, RecursiveFunction
  <1>9. \A s \in D : f[s] = value(f, s)
    BY <1>5, <1>8
  <1> QED
    BY <1>9 DEF AddsUp

\* The sum is a natural, and the order in which it is added up does not matter.
LEMMA SumInAnyOrder ==
    ASSUME NEW S, IsFiniteSet(S), NEW weight \in [S -> Nat], NEW sum, AddsUp(sum, S, weight)
    PROVE  AddsUpAnyhow(sum, S, weight)
  <1> USE DEF AddsUpAnyhow
  <1> DEFINE Natural == {s \in SUBSET S : sum[s] \in Nat}
             Good == {s \in SUBSET S : \A x \in s : sum[s] = weight[x] + sum[s \ {x}]}
  <1>1. sum[{}] = 0 /\ {} \in Natural /\ {} \in Good
    BY DEF AddsUp
  <1>2. ASSUME NEW s \in SUBSET S, s # {}, \A x \in s : s \ {x} \in Natural
        PROVE  s \in Natural
    <2>1. Pick(s) \in s /\ sum[s] = weight[Pick(s)] + sum[s \ {Pick(s)}]
      BY <1>2 DEF AddsUp, Pick
    <2>2. weight[Pick(s)] \in Nat /\ sum[s \ {Pick(s)}] \in Nat
      BY <1>2, <2>1
    <2> QED
      BY <2>1, <2>2
  <1>3. \A s \in SUBSET S : sum[s] \in Nat
    <2> HIDE DEF Natural
    <2>1. SUBSET S \subseteq Natural
      BY <1>1, <1>2, InductionOnSubsets
    <2> QED
      BY <2>1 DEF Natural
  <1>4. ASSUME NEW s \in SUBSET S, s # {}, \A x \in s : s \ {x} \in Good
        PROVE  s \in Good
    <2> DEFINE p == Pick(s)
    <2>1. p \in s /\ sum[s] = weight[p] + sum[s \ {p}]
      BY <1>4 DEF AddsUp, Pick
    <2> HIDE DEF p
    <2>2. ASSUME NEW x \in s, x # p
          PROVE  sum[s] = weight[x] + sum[s \ {x}]
      <3> DEFINE rest == (s \ {p}) \ {x}
      <3>1. x \in s \ {p} /\ p \in s \ {x} /\ (s \ {x}) \ {p} = rest
        BY <2>1, <2>2
      <3>2. sum[s \ {p}] = weight[x] + sum[rest]
        BY <1>4, <2>1, <3>1
      <3>3. sum[s \ {x}] = weight[p] + sum[rest]
        BY <1>4, <3>1
      <3>4. weight[x] \in Nat /\ weight[p] \in Nat /\ sum[rest] \in Nat
        BY <1>3, <2>1
      <3> HIDE DEF rest
      <3> QED
        BY <2>1, <3>2, <3>3, <3>4
    <2> QED
      BY <2>1, <2>2
  <1>5. SUBSET S \subseteq Good
    <2> HIDE DEF Good
    <2> QED
      BY <1>1, <1>4, InductionOnSubsets
  <1> QED
    BY <1>1, <1>3, <1>5

\* Slices of something that is offset[n] long, and some of them: the slice with
\* index k is what lies between offset[k - 1] and offset[k].
Slices(n, S, index, weight, offset) ==
    /\ n \in Nat
    /\ index \in [S -> 1..n]
    /\ \A x, y \in S : index[x] = index[y] => x = y
    /\ weight \in [S -> Nat]
    /\ offset \in [0..n -> Nat] /\ offset[0] = 0
    /\ \A k \in 0..n - 1 : offset[k] < offset[k + 1]
    /\ \A x \in S : weight[x] = offset[index[x]] - offset[index[x] - 1]

\* There are n of them if and only if they add up to the whole.
LEMMA WholeOrLess ==
    ASSUME NEW n, NEW S, NEW index, NEW weight, NEW offset,
           Slices(n, S, index, weight, offset)
    PROVE  /\ IsFiniteSet(S)
           /\ \A sum : AddsUp(sum, S, weight) => (Cardinality(S) = n <=> sum[S] = offset[n])
  <1> DEFINE below == [k \in 0..n |-> {x \in S : index[x] <= k}]
             full == {k \in 0..n : \A i \in 1..k : \E x \in S : index[x] = i}
  <1>1. /\ n \in Nat
        /\ weight \in [S -> Nat]
        /\ \A x \in S : index[x] \in 1..n
        /\ offset \in [0..n -> Nat] /\ offset[0] = 0
        /\ \A k \in 0..n - 1 : offset[k] < offset[k + 1]
        /\ \A x \in S : weight[x] = offset[index[x]] - offset[index[x] - 1]
    BY DEF Slices
  <1>2. below[0] = {} /\ below[n] = S /\ 0 \in full
    BY <1>1
  <1>3. \A k \in 0..n : below[k] \in SUBSET S
    OBVIOUS
  <1>4. ASSUME NEW k \in 0..n, k < n
        PROVE  \/ \E x \in S : /\ index[x] = k + 1
                               /\ x \notin below[k]
                               /\ below[k + 1] = below[k] \union {x}
                               /\ below[k + 1] \ {x} = below[k]
                               /\ k + 1 \in full <=> k \in full
               \/ below[k + 1] = below[k] /\ k + 1 \notin full
    <2>1. k \in Nat /\ k + 1 \in 0..n
      BY <1>1, <1>4
    <2>2. \A x \in S : index[x] \in Nat /\ (index[x] <= k + 1 <=> index[x] <= k \/ index[x] = k + 1)
      BY <1>1, <2>1
    <2>3. /\ below[k] = {x \in S : index[x] <= k}
          /\ below[k + 1] = {x \in S : index[x] <= k + 1}
          /\ k \in full <=> \A i \in 1..k : \E x \in S : index[x] = i
          /\ k + 1 \in full <=> \A i \in 1..k + 1 : \E x \in S : index[x] = i
      BY <2>1
    <2> HIDE DEF below, full
    <2>4. CASE \E x \in S : index[x] = k + 1
      <3>1. PICK x \in S : index[x] = k + 1
        BY <2>4
      <3>2. x \notin below[k]
        BY <2>1, <2>3, <3>1
      <3>3. \A y \in S : index[y] = k + 1 => y = x
        BY <3>1 DEF Slices
      <3>4. below[k + 1] = below[k] \union {x}
        BY <2>2, <2>3, <3>1, <3>3
      <3>5. \A i : i \in 1..k + 1 <=> i \in 1..k \/ i = k + 1
        BY <2>1
      <3>6. k + 1 \in full <=> k \in full
        BY <2>3, <3>1, <3>5
      <3> QED
        BY <3>1, <3>2, <3>4, <3>6
    <2>5. CASE ~\E x \in S : index[x] = k + 1
      <3>1. k + 1 \in 1..k + 1
        BY <2>1
      <3>2. below[k + 1] = below[k]
        BY <2>2, <2>3, <2>5
      <3> QED
        BY <2>3, <2>5, <3>1, <3>2
    <2> QED
      BY <2>4, <2>5
  <1> HIDE DEF below, full
  <1> DEFINE K == {k \in 0..n : /\ IsFiniteSet(below[k]) /\ Cardinality(below[k]) \in 0..k
                                /\ Cardinality(below[k]) = k <=> k \in full}
  <1>5. 0..n \subseteq K
    <2>1. 0 \in K
      <3>1. IsFiniteSet(below[0]) /\ Cardinality(below[0]) = 0
        BY <1>2, FS_EmptySet
      <3>2. 0 \in 0..n /\ Cardinality(below[0]) \in 0..0
        BY <1>1, <3>1
      <3> QED
        BY <1>2, <3>1, <3>2
    <2>2. ASSUME NEW k \in 0..n, k \in K, k < n
          PROVE  k + 1 \in K
      <3>1. /\ k \in Nat /\ k + 1 \in 0..n /\ IsFiniteSet(below[k])
            /\ Cardinality(below[k]) \in 0..k
            /\ Cardinality(below[k]) = k <=> k \in full
        BY <1>1, <2>2
      <3>2. CASE \E x \in S : /\ x \notin below[k] /\ below[k + 1] = below[k] \union {x}
                              /\ k + 1 \in full <=> k \in full
        <4>1. PICK x \in S : /\ x \notin below[k] /\ below[k + 1] = below[k] \union {x}
                             /\ k + 1 \in full <=> k \in full
          BY <3>2
        <4> DEFINE low == below[k]
                   high == below[k + 1]
        <4>2. IsFiniteSet(high) /\ Cardinality(high) = Cardinality(low) + 1
          <5>1. IsFiniteSet(low) /\ x \notin low /\ high = low \union {x}
            BY <3>1, <4>1
          <5> HIDE DEF low, high
          <5> QED
            BY <5>1, FS_AddElement
        <4> QED
          BY <3>1, <4>1, <4>2
      <3>3. CASE below[k + 1] = below[k] /\ k + 1 \notin full
        BY <3>1, <3>3
      <3> QED
        BY <1>4, <2>2, <3>2, <3>3
    <2> HIDE DEF K
    <2> QED
      BY <1>1, <2>1, <2>2, InductionUpTo
  <1>6. IsFiniteSet(S) /\ (Cardinality(S) = n <=> n \in full)
    <2>1. n \in K
      BY <1>1, <1>5
    <2> QED
      BY <1>2, <2>1
  <1>7. ASSUME NEW sum, AddsUp(sum, S, weight)
        PROVE  sum[S] = offset[n] <=> n \in full
    <2> DEFINE M == {k \in 0..n : /\ sum[below[k]] \in 0..offset[k]
                                  /\ sum[below[k]] = offset[k] <=> k \in full}
    <2>1. /\ sum[{}] = 0
          /\ \A s \in SUBSET S :
                 sum[s] \in Nat /\ \A x \in s : sum[s] = weight[x] + sum[s \ {x}]
      <3>1. AddsUpAnyhow(sum, S, weight)
        BY <1>1, <1>6, <1>7, SumInAnyOrder
      <3> QED
        BY <3>1 DEF AddsUpAnyhow
    <2>2. 0 \in M
      <3>1. 0 \in 0..n /\ sum[below[0]] = 0 /\ sum[below[0]] \in 0..offset[0]
        BY <1>1, <1>2, <2>1
      <3> QED
        BY <1>1, <1>2, <3>1
    <2>3. ASSUME NEW k \in 0..n, k \in M, k < n
          PROVE  k + 1 \in M
      <3>1. /\ sum[below[k]] \in 0..offset[k]
            /\ sum[below[k]] = offset[k] <=> k \in full
            /\ k + 1 \in 0..n /\ offset[k] \in Nat /\ offset[k + 1] \in Nat
            /\ offset[k] < offset[k + 1]
        BY <1>1, <2>3
      <3>2. CASE \E x \in S : /\ index[x] = k + 1 /\ x \notin below[k]
                              /\ below[k + 1] = below[k] \union {x}
                              /\ below[k + 1] \ {x} = below[k]
                              /\ k + 1 \in full <=> k \in full
        <4>1. PICK x \in S : /\ index[x] = k + 1 /\ x \notin below[k]
                             /\ below[k + 1] = below[k] \union {x}
                             /\ below[k + 1] \ {x} = below[k]
                             /\ k + 1 \in full <=> k \in full
          BY <3>2
        <4>2. sum[below[k + 1]] = weight[x] + sum[below[k]]
          <5>1. below[k + 1] \in SUBSET S /\ x \in below[k + 1]
            BY <1>3, <3>1, <4>1
          <5>2. sum[below[k + 1]] = weight[x] + sum[below[k + 1] \ {x}]
            BY <2>1, <5>1
          <5> QED
            BY <4>1, <5>2
        <4>3. weight[x] = offset[k + 1] - offset[k]
          <5>1. index[x] - 1 = k
            BY <2>3, <4>1
          <5> QED
            BY <1>1, <4>1, <5>1
        <4>4. sum[below[k]] \in Nat
          BY <3>1
        <4>5. /\ sum[below[k + 1]] \in 0..offset[k + 1]
              /\ sum[below[k + 1]] = offset[k + 1] <=> sum[below[k]] = offset[k]
          BY <3>1, <4>2, <4>3, <4>4
        <4> QED
          BY <3>1, <4>1, <4>5
      <3>3. CASE below[k + 1] = below[k] /\ k + 1 \notin full
        <4>1. /\ sum[below[k + 1]] \in 0..offset[k + 1]
              /\ sum[below[k + 1]] # offset[k + 1]
          BY <3>1, <3>3
        <4> QED
          BY <3>1, <3>3, <4>1
      <3> QED
        BY <1>4, <2>3, <3>2, <3>3
    <2>4. n \in M
      <3> HIDE DEF M
      <3>1. 0..n \subseteq M
        BY <1>1, <2>2, <2>3, InductionUpTo
      <3> QED
        BY <1>1, <3>1
    <2> QED
      BY <1>2, <2>4
  <1> QED
    BY <1>6, <1>7

=============================================================================
