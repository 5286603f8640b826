---------------------------- MODULE NumberLemmas ----------------------------
(***************************************************************************)
(* Facts about numbers, finite sets and sums that the proofs of several     *)
(* modules use.  What would be an induction over data is shown by a least   *)
(* counterexample.                                                          *)
(***************************************************************************)
EXTENDS Integers, Functions, TLAPS, WellFoundedInduction, FiniteSetTheorems

\* A nonempty set of natural numbers has a least element.
LEMMA LeastNumber ==
  ASSUME NEW S \in SUBSET Nat, S # {}
  PROVE  \E x \in S : \A y \in S : x <= y
<1>1. IsWellFoundedOn(OpToRel(<, Nat), Nat)
  BY NatLessThanWellFounded
<1>2. PICK x \in S : \A y \in S : ~(<<y, x>> \in OpToRel(<, Nat))
  BY <1>1, WFMin
<1>3. \A y \in S : ~(y < x)
  BY <1>2 DEF OpToRel
<1> QED
  BY <1>3

\* A nonempty set of natural numbers with an upper bound has a greatest element.
LEMMA GreatestNumber ==
  ASSUME NEW N \in Nat, NEW S \in SUBSET (0..N), S # {}
  PROVE  \E x \in S : \A y \in S : y <= x
<1> DEFINE below == {N - y : y \in S}
<1>1. below \in SUBSET Nat /\ below # {}
  <2>1. \A y \in S : y \in Nat /\ y <= N
    OBVIOUS
  <2>2. \A y \in S : N - y \in Nat
    BY <2>1
  <2>3. below \subseteq Nat
    BY <2>2
  <2>4. PICK y \in S : TRUE
    OBVIOUS
  <2>5. N - y \in below
    OBVIOUS
  <2> QED
    BY <2>3, <2>5
<1>2. PICK z \in below : \A w \in below : z <= w
  <2> HIDE DEF below
  <2> QED
    BY <1>1, LeastNumber
<1>3. PICK x \in S : z = N - x
  BY <1>2
<1>4. ASSUME NEW y \in S PROVE y <= x
  <2>1. N - y \in below
    OBVIOUS
  <2>2. N - x <= N - y
    BY <1>2, <1>3, <2>1
  <2> QED
    BY <2>2
<1> QED
  BY <1>4

\* Integer division: quotient and remainder.
LEMMA Quotient ==
  ASSUME NEW a \in Nat, NEW e \in Nat \ {0}
  PROVE  /\ a \div e \in Nat
         /\ (a \div e) * e <= a
         /\ a < (a \div e) * e + e
OBVIOUS

LEMMA QuotientMonotone ==
  ASSUME NEW a \in Nat, NEW b \in Nat, a <= b, NEW e \in Nat \ {0}
  PROVE  a \div e <= b \div e
OBVIOUS

\* Induction up to a bound, for the numbers of a set.
LEMMA CountingUp ==
  ASSUME NEW N \in Nat, NEW S \in SUBSET (0..N), 0 \in S,
         \A n \in 1..N : n - 1 \in S => n \in S
  PROVE  S = 0..N
<1> DEFINE bad == (0..N) \ S
<1> SUFFICES ASSUME bad # {} PROVE FALSE
  OBVIOUS
<1>1. bad \in SUBSET Nat
  OBVIOUS
<1>2. PICK n \in bad : \A m \in bad : n <= m
  <2> HIDE DEF bad
  <2> QED
    BY <1>1, LeastNumber
<1>3. n \in 1..N /\ n - 1 \in 0..N
  BY <1>2
<1>4. n - 1 \notin bad
  <2> HIDE DEF bad
  <2> QED
    BY <1>2, <1>3
<1> QED
  BY <1>2, <1>3, <1>4

\* A recursion over the numbers up to N that stays in a set V has a solution.
IsStep(step, N, V) == step \in [1..N -> [V -> V]]

IsRecursion(f, N, V, v, step) ==
  /\ f \in [0..N -> V]
  /\ f[0] = v
  /\ \A n \in 1..N : f[n] = step[n][f[n - 1]]

LEMMA RecursionUpTo ==
  ASSUME NEW N \in Nat, NEW V, NEW v \in V, NEW step, IsStep(step, N, V)
  PROVE  \E f : IsRecursion(f, N, V, v, step)
<1> USE DEF IsStep
<1> SUFFICES \E f \in [0..N -> V] : f[0] = v /\ \A n \in 1..N : f[n] = step[n][f[n - 1]]
  BY DEF IsRecursion
<1> DEFINE S == {m \in 0..N : \E f \in [0..m -> V] :
                                f[0] = v /\ \A n \in 1..m : f[n] = step[n][f[n - 1]]}
<1>1. 0 \in S
  <2>1. [n \in 0..0 |-> v] \in [0..0 -> V]
    OBVIOUS
  <2>2. [n \in 0..0 |-> v][0] = v
    OBVIOUS
  <2>3. 1..0 = {}
    OBVIOUS
  <2>4. \E f \in [0..0 -> V] : f[0] = v /\ \A n \in 1..0 : f[n] = step[n][f[n - 1]]
    BY <2>1, <2>2, <2>3
  <2> QED
    BY <2>4
<1>2. ASSUME NEW m \in 1..N, m - 1 \in S PROVE m \in S
  <2>1. PICK f \in [0..(m - 1) -> V] : f[0] = v /\ \A n \in 1..(m - 1) : f[n] = step[n][f[n - 1]]
    BY <1>2
  <2> DEFINE g == [n \in 0..m |-> IF n = m THEN step[m][f[m - 1]] ELSE f[n]]
  <2>2. f[m - 1] \in V
    OBVIOUS
  <2>3. step[m][f[m - 1]] \in V
    BY <2>2
  <2>4. \A n \in 0..m : n # m => n \in 0..(m - 1)
    OBVIOUS
  <2>5. g \in [0..m -> V]
    BY <2>3, <2>4
  <2>6. g[0] = v
    BY <2>1
  <2>7. ASSUME NEW n \in 1..m PROVE g[n] = step[n][g[n - 1]]
    <3>1. g[n - 1] = f[n - 1]
      OBVIOUS
    <3>2. CASE n = m
      BY <3>1, <3>2
    <3>3. CASE n # m
      <4>1. n \in 1..(m - 1)
        BY <3>3
      <4> QED
        BY <2>1, <3>1, <3>3, <4>1
    <3> QED
      BY <3>2, <3>3
  <2> HIDE DEF g
  <2> QED
    BY <2>5, <2>6, <2>7
<1>3. S = 0..N
  <2>1. S \in SUBSET (0..N)
    OBVIOUS
  <2> HIDE DEF S
  <2> QED
    BY <1>1, <1>2, <2>1, CountingUp
<1>4. N \in S
  BY <1>3
<1> QED
  BY <1>4

-----------------------------------------------------------------------------
(* Finite sets.                                                            *)

\* A nonempty set of subsets of a finite set has a smallest member.
LEMMA SmallestSubset ==
  ASSUME NEW S, IsFiniteSet(S), NEW B \in SUBSET SUBSET S, B # {}
  PROVE  \E s \in B : \A t \in B : Cardinality(s) <= Cardinality(t)
<1> DEFINE sizes == {Cardinality(s) : s \in B}
<1>1. \A s \in B : Cardinality(s) \in Nat
  BY FS_Subset, FS_CardinalityType
<1>2. sizes \in SUBSET Nat /\ sizes # {}
  BY <1>1
<1>3. PICK n \in sizes : \A m \in sizes : n <= m
  <2> HIDE DEF sizes
  <2> QED
    BY <1>2, LeastNumber
<1> QED
  BY <1>3

LEMMA Smaller ==
  ASSUME NEW S, IsFiniteSet(S), NEW s \in SUBSET S, NEW x \in s
  PROVE  /\ Cardinality(s) \in Nat /\ Cardinality(s \ {x}) \in Nat
         /\ Cardinality(s \ {x}) = Cardinality(s) - 1
<1>1. IsFiniteSet(s)
  BY FS_Subset
<1>2. Cardinality(s) \in Nat
  BY <1>1, FS_CardinalityType
<1>3. IsFiniteSet(s \ {x}) /\ Cardinality(s \ {x}) = Cardinality(s) - 1
  BY <1>1, FS_RemoveElement
<1> QED
  BY <1>2, <1>3, FS_CardinalityType

\* A finite set on which R is total and transitive has a member that is before all others.
LEMMA FirstOf ==
  ASSUME NEW S, IsFiniteSet(S), S # {}, NEW R \in SUBSET (S \X S),
         \A x, y \in S : x # y => <<x, y>> \in R \/ <<y, x>> \in R,
         \A x, y, z \in S : <<x, y>> \in R /\ <<y, z>> \in R /\ x # z => <<x, z>> \in R
  PROVE  \E x \in S : \A y \in S \ {x} : <<x, y>> \in R
<1> DEFINE Has(s) == \E x \in s : \A y \in s \ {x} : <<x, y>> \in R
           bad    == {s \in SUBSET S : s # {} /\ ~Has(s)}
<1> SUFFICES ASSUME bad # {} PROVE FALSE
  <2>1. bad = {} => Has(S)
    <3> SUFFICES ASSUME bad = {} PROVE Has(S)
      OBVIOUS
    <3>1. S \in SUBSET S /\ S \notin bad
      OBVIOUS
    <3> QED
      BY <3>1
  <2> QED
    BY <2>1
<1>1. PICK s \in bad : \A t \in bad : Cardinality(s) <= Cardinality(t)
  <2>1. bad \in SUBSET SUBSET S
    OBVIOUS
  <2> HIDE DEF bad
  <2> QED
    BY <2>1, SmallestSubset
<1>2. s \in SUBSET S /\ s # {} /\ ~Has(s)
  BY <1>1
<1>3. PICK x \in s : TRUE
  BY <1>2
<1> DEFINE t == s \ {x}
<1>4. t \in SUBSET S /\ t \notin bad
  <2>1. Cardinality(s) \in Nat /\ Cardinality(t) = Cardinality(s) - 1
    BY <1>2, <1>3, Smaller
  <2> HIDE DEF bad, t
  <2>2. t \notin bad
    BY <1>1, <2>1
  <2> QED
    BY <1>2, <2>2 DEF t
<1>5. t # {}
  <2> SUFFICES ASSUME t = {} PROVE Has(s)
    BY <1>2
  <2>1. s \ {x} = {}
    OBVIOUS
  <2> QED
    BY <1>3, <2>1
<1>6. Has(t)
  BY <1>4, <1>5
<1>7. PICK z \in t : \A y \in t \ {z} : <<z, y>> \in R
  BY <1>6
<1>8. x \in S /\ z \in S /\ x # z /\ z \in s
  BY <1>2, <1>3, <1>7
<1>9. CASE <<z, x>> \in R
  BY <1>2, <1>7, <1>8, <1>9
<1>10. CASE <<x, z>> \in R
  <2>1. \A y \in s \ {x} : <<x, y>> \in R
    <3> SUFFICES ASSUME NEW y \in s \ {x}, y # z PROVE <<x, y>> \in R
      BY <1>10
    <3>1. <<z, y>> \in R /\ y \in S /\ x # y
      BY <1>2, <1>7
    <3> QED
      BY <1>8, <1>10, <3>1
  <2> QED
    BY <1>2, <2>1
<1> QED
  BY <1>8, <1>9, <1>10

\* In a finite set with a strict total order R, every place is taken by one member.
LEMMA Ranks ==
  ASSUME NEW S, IsFiniteSet(S), NEW R,
         \A x \in S : <<x, x>> \notin R,
         \A x, y \in S : x # y => <<x, y>> \in R \/ <<y, x>> \in R,
         \A x, y, z \in S : <<x, y>> \in R /\ <<y, z>> \in R => <<x, z>> \in R
  PROVE  \A i \in 1..Cardinality(S) : \E x \in S : Cardinality({y \in S : <<y, x>> \in R}) = i - 1
<1> DEFINE below(x) == {y \in S : <<y, x>> \in R}
           n == Cardinality(S)
           rank == [x \in S |-> Cardinality(below(x))]
<1>1. n \in Nat
  BY FS_CardinalityType
<1>2. ASSUME NEW x \in S
      PROVE  IsFiniteSet(below(x)) /\ Cardinality(below(x)) \in 0..(n - 1)
  <2>1. below(x) \in SUBSET S /\ below(x) # S
    OBVIOUS
  <2> HIDE DEF below
  <2>2. IsFiniteSet(below(x)) /\ Cardinality(below(x)) \in Nat
    BY <2>1, FS_Subset, FS_CardinalityType
  <2>3. Cardinality(below(x)) <= n /\ Cardinality(below(x)) # n
    BY <2>1, FS_Subset
  <2> QED
    BY <1>1, <2>2, <2>3
<1>3. ASSUME NEW x \in S, NEW y \in S, <<x, y>> \in R
      PROVE  Cardinality(below(x)) < Cardinality(below(y))
  <2>1. below(x) \in SUBSET below(y) /\ below(x) # below(y)
    BY <1>3
  <2>2. /\ IsFiniteSet(below(y)) /\ Cardinality(below(y)) \in 0..(n - 1)
        /\ Cardinality(below(x)) \in 0..(n - 1)
    BY <1>2
  <2> HIDE DEF below
  <2>3. Cardinality(below(x)) <= Cardinality(below(y)) /\ Cardinality(below(x)) # Cardinality(below(y))
    BY <2>1, <2>2, FS_Subset
  <2> QED
    BY <1>1, <2>2, <2>3
<1>4. rank \in Injection(S, 0..(n - 1))
  <2> HIDE DEF below
  <2>1. rank \in [S -> 0..(n - 1)]
    BY <1>2
  <2>2. ASSUME NEW x \in S, NEW y \in S, x # y PROVE rank[x] # rank[y]
    <3>1. Cardinality(below(x)) \in 0..(n - 1) /\ Cardinality(below(y)) \in 0..(n - 1)
      BY <1>2
    <3>2. Cardinality(below(x)) < Cardinality(below(y)) \/ Cardinality(below(y)) < Cardinality(below(x))
      BY <1>3, <2>2
    <3> QED
      BY <1>1, <3>1, <3>2
  <2> HIDE DEF rank
  <2>3. IsInjective(rank)
    BY <2>1, <2>2 DEF IsInjective
  <2> QED
    BY <2>1, <2>3 DEF Injection
<1> HIDE DEF rank
<1>5. IsFiniteSet(0..(n - 1)) /\ Cardinality(0..(n - 1)) = n
  <2> HIDE DEF n
  <2>1. n - 1 \in Int /\ 0 \in Int
    BY <1>1
  <2>2. /\ IsFiniteSet(0..(n - 1))
        /\ Cardinality(0..(n - 1)) = IF 0 > n - 1 THEN 0 ELSE (n - 1) - 0 + 1
    BY <2>1, FS_Interval
  <2> QED
    BY <1>1, <2>2
<1>6. rank \in Surjection(S, 0..(n - 1))
  <2> HIDE DEF n
  <2>1. \A f \in Injection(S, 0..(n - 1)) :
          Cardinality(S) = Cardinality(0..(n - 1)) => f \in Surjection(S, 0..(n - 1))
    BY <1>5, FS_Injection
  <2> QED
    BY <1>4, <1>5, <2>1 DEF n
<1> SUFFICES ASSUME NEW i \in 1..n PROVE \E x \in S : Cardinality(below(x)) = i - 1
  OBVIOUS
<1>7. i - 1 \in 0..(n - 1)
  BY <1>1
<1>8. \E x \in S : rank[x] = i - 1
  BY <1>6, <1>7 DEF Surjection
<1> QED
  BY <1>8 DEF rank

\* A function from a nonempty finite set to numbers has a greatest value.
LEMMA GreatestValue ==
  ASSUME NEW S, IsFiniteSet(S), S # {}, NEW f \in [S -> Nat]
  PROVE  \E x \in S : \A y \in S : f[y] <= f[x]
<1> DEFINE R == {p \in S \X S : f[p[2]] <= f[p[1]]}
<1>1. \A x, y \in S : <<x, y>> \in R <=> f[y] <= f[x]
  OBVIOUS
<1>2. R \in SUBSET (S \X S)
  OBVIOUS
<1> HIDE DEF R
<1>3. PICK x \in S : \A y \in S \ {x} : <<x, y>> \in R
  <2>1. \A x, y \in S : x # y => <<x, y>> \in R \/ <<y, x>> \in R
    BY <1>1
  <2>2. \A x, y, z \in S : <<x, y>> \in R /\ <<y, z>> \in R /\ x # z => <<x, z>> \in R
    BY <1>1
  <2> QED
    BY <1>2, <2>1, <2>2, FirstOf
<1>4. f[x] \in Nat
  OBVIOUS
<1>5. \A y \in S : y # x => f[y] <= f[x]
  BY <1>1, <1>3
<1> QED
  BY <1>4, <1>5

-----------------------------------------------------------------------------
(* SumFunctionOnSet (module Functions) for finite sets.  It is a fold in an *)
(* unspecified order over a recursive function on the subsets: that such a  *)
(* function exists, that the order does not matter and how the sum grows    *)
(* with the set.                                                            *)

\* The element a fold takes first.
Pick(s) == CHOOSE x \in s : TRUE

\* The recursive function behind the fold, on the subsets of S.
Total(f, S) ==
  CHOOSE g : g = [s \in SUBSET S |-> IF s = {} THEN 0 ELSE f[Pick(s)] + g[s \ {Pick(s)}]]

LEMMA SumIsTotal ==
  ASSUME NEW f, NEW S
  PROVE  SumFunctionOnSet(f, S) = Total(f, S)[S]
BY DEF SumFunctionOnSet, FoldFunctionOnSet, MapThenFoldSet, Total, Pick

LEMMA PickIn == ASSUME NEW s, s # {} PROVE Pick(s) \in s
BY DEF Pick

\* g is a recursive sum of f on the subsets of S.
Sums(g, f, S) ==
  \A s \in SUBSET S : g[s] = IF s = {} THEN 0 ELSE f[Pick(s)] + g[s \ {Pick(s)}]

\* The recursive function exists.
LEMMA TotalSums ==
  ASSUME NEW f, NEW S, IsFiniteSet(S)
  PROVE  Sums(Total(f, S), f, S)
<1> DEFINE D(n) == {s \in SUBSET S : Cardinality(s) <= n}
           E(n) == \E g : g = [s \in D(n) |-> IF s = {} THEN 0 ELSE f[Pick(s)] + g[s \ {Pick(s)}]]
           bad  == {n \in Nat : ~E(n)}
<1>1. bad = {}
  <2> SUFFICES ASSUME bad # {} PROVE FALSE
    OBVIOUS
  <2>1. PICK n \in bad : \A m \in bad : n <= m
    <3>1. bad \in SUBSET Nat
      OBVIOUS
    <3> HIDE DEF bad
    <3> QED
      BY <3>1, LeastNumber
  <2>2. n \in Nat /\ ~E(n)
    OBVIOUS
  <2>3. CASE n = 0
    <3> DEFINE g == [s \in D(0) |-> 0]
    <3>1. \A s \in D(0) : s = {}
      <4> SUFFICES ASSUME NEW s \in D(0) PROVE s = {}
        OBVIOUS
      <4>1. IsFiniteSet(s) /\ Cardinality(s) <= 0
        BY FS_Subset
      <4>2. Cardinality(s) \in Nat
        BY <4>1, FS_CardinalityType
      <4>3. Cardinality(s) = 0
        BY <4>1, <4>2
      <4> QED
        BY <4>1, <4>3, FS_EmptySet
    <3>2. g = [s \in D(0) |-> IF s = {} THEN 0 ELSE f[Pick(s)] + g[s \ {Pick(s)}]]
      <4> HIDE DEF D
      <4> QED
        BY <3>1
    <3>3. E(0)
      BY <3>2
    <3> HIDE DEF E
    <3> QED
      BY <2>2, <2>3, <3>3
  <2>4. CASE n # 0
    <3>1. n - 1 \in Nat /\ n - 1 \notin bad
      <4> HIDE DEF bad
      <4> QED
        BY <2>1, <2>2, <2>4
    <3>2. E(n - 1)
      <4> HIDE DEF E
      <4> QED
        BY <3>1
    <3>3. PICK h : h = [s \in D(n - 1) |-> IF s = {} THEN 0 ELSE f[Pick(s)] + h[s \ {Pick(s)}]]
      BY <3>2
    <3> DEFINE g == [s \in D(n) |-> IF s = {} THEN 0 ELSE f[Pick(s)] + h[s \ {Pick(s)}]]
    <3>4. ASSUME NEW s \in D(n), s # {}
          PROVE  s \ {Pick(s)} \in D(n - 1) /\ s \ {Pick(s)} \in D(n)
      <4>1. Pick(s) \in s
        BY <3>4, PickIn
      <4>2. Cardinality(s) \in Nat /\ Cardinality(s \ {Pick(s)}) = Cardinality(s) - 1
        BY <4>1, Smaller
      <4> QED
        BY <2>2, <4>2
    <3>5. \A t \in D(n - 1) : t \in D(n) /\ g[t] = h[t]
      <4>1. ASSUME NEW t \in D(n - 1) PROVE t \in D(n)
        <5>1. IsFiniteSet(t)
          BY FS_Subset
        <5>2. Cardinality(t) \in Nat
          BY <5>1, FS_CardinalityType
        <5> QED
          BY <2>2, <5>2
      <4> HIDE DEF D
      <4>2. ASSUME NEW t \in D(n - 1)
            PROVE  h[t] = IF t = {} THEN 0 ELSE f[Pick(t)] + h[t \ {Pick(t)}]
        BY <3>3
      <4> QED
        BY <4>1, <4>2
    <3>6. g = [s \in D(n) |-> IF s = {} THEN 0 ELSE f[Pick(s)] + g[s \ {Pick(s)}]]
      <4> HIDE DEF D
      <4>1. \A s \in D(n) : s # {} => g[s \ {Pick(s)}] = h[s \ {Pick(s)}]
        BY <3>4, <3>5
      <4> QED
        BY <4>1
    <3>7. E(n)
      BY <3>6
    <3> HIDE DEF E
    <3> QED
      BY <2>2, <3>7
  <2> QED
    BY <2>3, <2>4
<1>2. Cardinality(S) \in Nat
  BY FS_CardinalityType
<1>3. E(Cardinality(S))
  <2> HIDE DEF E
  <2> QED
    BY <1>1, <1>2
<1>4. D(Cardinality(S)) = SUBSET S
  BY FS_Subset
<1>5. \E g : g = [s \in SUBSET S |-> IF s = {} THEN 0 ELSE f[Pick(s)] + g[s \ {Pick(s)}]]
  <2> HIDE DEF D
  <2> QED
    BY <1>3, <1>4
<1> DEFINE G == Total(f, S)
<1>6. G = [s \in SUBSET S |-> IF s = {} THEN 0 ELSE f[Pick(s)] + G[s \ {Pick(s)}]]
  BY <1>5 DEF Total
<1> HIDE DEF G
<1>7. Sums(G, f, S)
  BY <1>6 DEF Sums
<1> QED
  BY <1>7 DEF G

\* Two functions that agree on S have the same sums there.
LEMMA SumsAgree ==
  ASSUME NEW S, IsFiniteSet(S), NEW f1, NEW f2, \A x \in S : f1[x] = f2[x],
         NEW g1, NEW g2, Sums(g1, f1, S), Sums(g2, f2, S)
  PROVE  \A s \in SUBSET S : g1[s] = g2[s]
<1> DEFINE bad == {s \in SUBSET S : g1[s] # g2[s]}
<1> SUFFICES ASSUME bad # {} PROVE FALSE
  OBVIOUS
<1>1. PICK s \in bad : \A t \in bad : Cardinality(s) <= Cardinality(t)
  <2>1. bad \in SUBSET SUBSET S
    OBVIOUS
  <2> HIDE DEF bad
  <2> QED
    BY <2>1, SmallestSubset
<1>2. s \in SUBSET S /\ g1[s] # g2[s]
  OBVIOUS
<1>3. s # {}
  BY <1>2 DEF Sums
<1>4. Pick(s) \in s
  BY <1>3, PickIn
<1>5. /\ g1[s] = f1[Pick(s)] + g1[s \ {Pick(s)}]
      /\ g2[s] = f2[Pick(s)] + g2[s \ {Pick(s)}]
  BY <1>2, <1>3 DEF Sums
<1>6. s \ {Pick(s)} \in SUBSET S /\ s \ {Pick(s)} \notin bad
  BY <1>1, <1>2, <1>4, Smaller
<1>7. g1[s \ {Pick(s)}] = g2[s \ {Pick(s)}] /\ f1[Pick(s)] = f2[Pick(s)]
  BY <1>2, <1>4, <1>6
<1> QED
  BY <1>2, <1>5, <1>7

\* Any element may be taken first.
LEMMA SumsAnyFirst ==
  ASSUME NEW S, IsFiniteSet(S), NEW f, \A x \in S : f[x] \in Int, NEW g, Sums(g, f, S)
  PROVE  \A s \in SUBSET S : g[s] \in Int /\ \A x \in s : g[s] = f[x] + g[s \ {x}]
<1> DEFINE good(s) == g[s] \in Int /\ \A x \in s : g[s] = f[x] + g[s \ {x}]
           bad == {s \in SUBSET S : ~good(s)}
<1> SUFFICES ASSUME bad # {} PROVE FALSE
  OBVIOUS
<1>1. PICK s \in bad : \A t \in bad : Cardinality(s) <= Cardinality(t)
  <2>1. bad \in SUBSET SUBSET S
    OBVIOUS
  <2> HIDE DEF bad
  <2> QED
    BY <2>1, SmallestSubset
<1>2. s \in SUBSET S /\ ~good(s)
  OBVIOUS
<1>3. ASSUME NEW x \in s
      PROVE  s \ {x} \in SUBSET S /\ good(s \ {x})
  <2>1. s \ {x} \in SUBSET S
    BY <1>2
  <2>2. s \ {x} \notin bad
    <3> HIDE DEF bad
    <3> QED
      BY <1>1, <1>2, Smaller
  <2> HIDE DEF good
  <2> QED
    BY <2>1, <2>2
<1>4. CASE s = {}
  <2>1. g[s] = 0
    BY <1>2, <1>4 DEF Sums
  <2> QED
    BY <1>2, <1>4, <2>1
<1>5. CASE s # {}
  <2> DEFINE c == Pick(s)
  <2>1. c \in s /\ g[s] = f[c] + g[s \ {c}]
    BY <1>2, <1>5, PickIn DEF Sums
  <2> HIDE DEF c
  <2>2. f[c] \in Int /\ g[s \ {c}] \in Int
    BY <1>2, <1>3, <2>1
  <2>3. ASSUME NEW x \in s PROVE g[s] = f[x] + g[s \ {x}]
    <3>1. CASE x = c
      BY <2>1, <3>1
    <3>2. CASE x # c
      <4>1. g[s \ {c}] = f[x] + g[(s \ {c}) \ {x}]
        BY <1>3, <2>1, <3>2
      <4>2. g[s \ {x}] = f[c] + g[(s \ {x}) \ {c}]
        BY <1>3, <2>1, <3>2
      <4>3. (s \ {c}) \ {x} = (s \ {x}) \ {c}
        OBVIOUS
      <4>4. (s \ {c}) \ {x} \in SUBSET S /\ g[(s \ {c}) \ {x}] \in Int
        <5>1. s \ {c} \in SUBSET S /\ x \in s \ {c}
          BY <1>2, <3>2
        <5>2. (s \ {c}) \ {x} \in SUBSET S
          BY <1>2
        <5>3. (s \ {c}) \ {x} \notin bad
          <6>1. /\ Cardinality(s) \in Nat /\ Cardinality(s \ {c}) = Cardinality(s) - 1
            BY <1>2, <2>1, Smaller
          <6>2. Cardinality((s \ {c}) \ {x}) = Cardinality(s \ {c}) - 1
            BY <5>1, Smaller
          <6> HIDE DEF bad
          <6> QED
            BY <1>1, <6>1, <6>2
        <5> QED
          BY <5>2, <5>3
      <4> DEFINE z == g[(s \ {c}) \ {x}]
      <4>5. z \in Int /\ g[s \ {c}] = f[x] + z /\ g[s \ {x}] = f[c] + z
        BY <4>1, <4>2, <4>3, <4>4
      <4>6. f[x] \in Int
        BY <1>2
      <4> HIDE DEF z
      <4> QED
        BY <2>1, <2>2, <4>5, <4>6
    <3> QED
      BY <3>1, <3>2
  <2>4. g[s] \in Int
    BY <2>1, <2>2
  <2> QED
    BY <1>2, <2>3, <2>4
<1> QED
  BY <1>4, <1>5

-----------------------------------------------------------------------------
(* The sum of a function on a finite set.                                  *)

LEMMA SumEmpty ==
  ASSUME NEW f
  PROVE  SumFunctionOnSet(f, {}) = 0
<1>1. Sums(Total(f, {}), f, {})
  BY TotalSums, FS_EmptySet
<1> QED
  BY <1>1, SumIsTotal DEF Sums

LEMMA SumSame ==
  ASSUME NEW S, IsFiniteSet(S), NEW f1, NEW f2, \A x \in S : f1[x] = f2[x]
  PROVE  SumFunctionOnSet(f1, S) = SumFunctionOnSet(f2, S)
<1>1. Sums(Total(f1, S), f1, S) /\ Sums(Total(f2, S), f2, S)
  BY TotalSums
<1>2. Total(f1, S)[S] = Total(f2, S)[S]
  BY <1>1, SumsAgree
<1> QED
  BY <1>2, SumIsTotal

\* A sum of zeros.
LEMMA SumZero ==
  ASSUME NEW S, IsFiniteSet(S), NEW f, \A x \in S : f[x] = 0
  PROVE  SumFunctionOnSet(f, S) = 0
<1> DEFINE g == Total(f, S)
           bad == {s \in SUBSET S : g[s] # 0}
<1>1. Sums(g, f, S)
  BY TotalSums
<1> HIDE DEF g
<1>2. bad = {}
  <2> SUFFICES ASSUME bad # {} PROVE FALSE
    OBVIOUS
  <2>1. PICK s \in bad : \A t \in bad : Cardinality(s) <= Cardinality(t)
    <3>1. bad \in SUBSET SUBSET S
      OBVIOUS
    <3> HIDE DEF bad
    <3> QED
      BY <3>1, SmallestSubset
  <2>2. s \in SUBSET S /\ g[s] # 0
    OBVIOUS
  <2>3. s # {} /\ Pick(s) \in s
    BY <1>1, <2>2, PickIn DEF Sums
  <2>4. g[s] = f[Pick(s)] + g[s \ {Pick(s)}]
    BY <1>1, <2>2, <2>3 DEF Sums
  <2>5. s \ {Pick(s)} \in SUBSET S /\ s \ {Pick(s)} \notin bad
    BY <2>1, <2>2, <2>3, Smaller
  <2> QED
    BY <2>2, <2>3, <2>4, <2>5
<1>3. g[S] = 0
  BY <1>2
<1> QED
  BY <1>3, SumIsTotal DEF g

LEMMA SumInt ==
  ASSUME NEW S, IsFiniteSet(S), NEW f, \A x \in S : f[x] \in Int
  PROVE  SumFunctionOnSet(f, S) \in Int
<1>1. Sums(Total(f, S), f, S)
  BY TotalSums
<1>2. Total(f, S)[S] \in Int
  BY <1>1, SumsAnyFirst
<1> QED
  BY <1>2, SumIsTotal

LEMMA SumAdd ==
  ASSUME NEW S, IsFiniteSet(S), NEW z, z \notin S, NEW f, \A x \in S \cup {z} : f[x] \in Int
  PROVE  SumFunctionOnSet(f, S \cup {z}) = f[z] + SumFunctionOnSet(f, S)
<1> DEFINE U == S \cup {z}
           g == Total(f, U)
<1>1. IsFiniteSet(U)
  BY FS_AddElement
<1>2. Sums(g, f, U) /\ Sums(Total(f, S), f, S)
  BY <1>1, TotalSums
<1>3. Sums(g, f, S)
  BY <1>2 DEF Sums
<1>4. g[S] = Total(f, S)[S]
  BY <1>2, <1>3, SumsAgree
<1>5. U \ {z} = S /\ z \in U /\ U \in SUBSET U
  OBVIOUS
<1>6. g[U] = f[z] + g[U \ {z}]
  <2> HIDE DEF U, g
  <2>1. \A x \in U : f[x] \in Int
    BY DEF U
  <2> QED
    BY <1>1, <1>2, <1>5, <2>1, SumsAnyFirst
<1> QED
  BY <1>4, <1>5, <1>6, SumIsTotal

\* A change of one value changes the sum by as much.
LEMMA SumChange ==
  ASSUME NEW S, IsFiniteSet(S), NEW f, \A x \in S : f[x] \in Int, NEW k \in S, NEW d \in Int,
         NEW h, \A x \in S : h[x] = IF x = k THEN f[x] + d ELSE f[x]
  PROVE  SumFunctionOnSet(h, S) = SumFunctionOnSet(f, S) + d
<1> DEFINE T == S \ {k}
<1>1. IsFiniteSet(T) /\ k \notin T /\ S = T \cup {k}
  BY FS_RemoveElement
<1>2. \A x \in S : h[x] \in Int
  OBVIOUS
<1>3. \A x \in T : h[x] = f[x]
  OBVIOUS
<1> HIDE DEF T
<1>4. SumFunctionOnSet(h, T) = SumFunctionOnSet(f, T)
  BY <1>1, <1>3, SumSame
<1>5. SumFunctionOnSet(h, S) = h[k] + SumFunctionOnSet(h, T)
  BY <1>1, <1>2, SumAdd
<1>6. SumFunctionOnSet(f, S) = f[k] + SumFunctionOnSet(f, T)
  BY <1>1, SumAdd
<1>7. SumFunctionOnSet(f, T) \in Int
  BY <1>1, SumInt
<1> QED
  BY <1>4, <1>5, <1>6, <1>7
=============================================================================
