--------------------------- MODULE BlockTreeProofs ---------------------------
(***************************************************************************)
(* Proofs about BlockTree: the branches of a set of linked blocks, and the  *)
(* fork choice, for every block tree.                                       *)
(***************************************************************************)
EXTENDS BlockTree, NumberLemmas

\* Every block but genesis is linked to a parent in the set: what AddBlock keeps true of
\* the blocks it stores.
Linked(S) ==
  \A h \in S : h = Genesis \/ (Parent[h] \in S /\ ChildConnectsToParent(h, Parent[h]))

\* Facts about one block.
LEMMA BlockFacts ==
  ASSUME NEW h \in Hash
  PROVE  /\ Number[h] \in Slot /\ Number[h] \in Nat /\ Number[h] # None
         /\ h \in Branch[h] /\ Branch[h] \subseteq Hash
         /\ h \in Nat /\ h # None
         /\ IsFiniteSet(Branch[h]) /\ ChainLength(h) \in Nat
<1>1. Branch[h] \subseteq Hash /\ h \in Branch[h]
  BY BranchAssumption
<1>2. IsFiniteSet(Branch[h])
  BY <1>1, HashAssumption, FS_Subset
<1>3. ChainLength(h) \in Nat
  BY <1>2, FS_CardinalityType DEF ChainLength
<1> QED
  BY <1>1, <1>2, <1>3, HashAssumption, HeaderAssumption DEF Slot

\* A block's branch is the block and the branch of its parent, which has a lower number.
LEMMA BranchStep ==
  ASSUME NEW S \in SUBSET Hash, Linked(S), NEW h \in S, h # Genesis
  PROVE  /\ Parent[h] \in S /\ Parent[h] \in Hash
         /\ Number[Parent[h]] < Number[h]
         /\ Branch[h] = {h} \cup Branch[Parent[h]]
<1>1. Parent[h] \in S /\ PrevId[h] = Number[Parent[h]] /\ PrevId[h] < Number[h]
  BY DEF Linked, ChildConnectsToParent
<1>2. Parent[h] # None
  BY <1>1, HashAssumption
<1> QED
  BY <1>1, <1>2, BranchAssumption

LEMMA GenesisBranch == Branch[Genesis] = {Genesis}
BY HashAssumption, HeaderAssumption, BranchAssumption

\* Induction from genesis up.
LEMMA UpTheTree ==
  ASSUME NEW S \in SUBSET Hash, Linked(S), NEW T \in SUBSET S,
         Genesis \in S => Genesis \in T,
         \A h \in S \ {Genesis} : Parent[h] \in T => h \in T
  PROVE  T = S
<1> DEFINE bad == {Number[h] : h \in S \ T}
<1> SUFFICES ASSUME S \ T # {} PROVE FALSE
  OBVIOUS
<1>1. bad \in SUBSET Nat /\ bad # {}
  <2>1. \A h \in S \ T : Number[h] \in Nat
    BY BlockFacts
  <2> QED
    BY <2>1
<1>2. PICK x \in bad : \A y \in bad : x <= y
  <2> HIDE DEF bad
  <2> QED
    BY <1>1, LeastNumber
<1>3. PICK h \in S \ T : x = Number[h]
  BY <1>2
<1>4. h # Genesis
  BY <1>3
<1>5. Parent[h] \in S /\ Number[Parent[h]] < Number[h] /\ Parent[h] \in Hash
  BY <1>4, BranchStep
<1>6. Parent[h] \notin T
  BY <1>3, <1>4
<1>7. Number[h] <= Number[Parent[h]]
  BY <1>2, <1>3, <1>5, <1>6
<1>8. Number[h] \in Nat /\ Number[Parent[h]] \in Nat
  BY <1>5, BlockFacts
<1> QED
  BY <1>5, <1>7, <1>8

\* The branch of a linked block stays in the set, begins at genesis, and its other blocks
\* have lower numbers and their own branches in it.
LEMMA BranchFacts ==
  ASSUME NEW S \in SUBSET Hash, Linked(S), NEW h \in S
  PROVE  /\ Branch[h] \subseteq S
         /\ Genesis \in Branch[h]
         /\ \A g \in Branch[h] : Branch[g] \subseteq Branch[h]
         /\ \A g \in Branch[h] : g # h => Number[g] < Number[h] /\ g \in Branch[Parent[h]] /\ h # Genesis
<1> DEFINE Good(k) == /\ Branch[k] \subseteq S
                      /\ Genesis \in Branch[k]
                      /\ \A g \in Branch[k] : Branch[g] \subseteq Branch[k]
                      /\ \A g \in Branch[k] : g # k => Number[g] < Number[k]
           T == {k \in S : Good(k)}
<1>1. Genesis \in S => Genesis \in T
  BY GenesisBranch
<1>2. ASSUME NEW k \in S \ {Genesis}, Parent[k] \in T PROVE k \in T
  <2> DEFINE p == Parent[k]
  <2>1. p \in Hash /\ Number[p] < Number[k] /\ Branch[k] = {k} \cup Branch[p]
    BY <1>2, BranchStep
  <2>2. Number[p] \in Nat /\ Number[k] \in Nat
    BY <2>1, BlockFacts
  <2>3. Good(p)
    BY <1>2
  <2>4. Branch[k] \subseteq S /\ Genesis \in Branch[k]
    BY <2>1, <2>3
  <2>5. \A g \in Branch[k] : Branch[g] \subseteq Branch[k]
    BY <2>1, <2>3
  <2>6. ASSUME NEW g \in Branch[k], g # k PROVE Number[g] < Number[k]
    <3>1. g \in Branch[p] /\ g \in Hash
      BY <2>1, <2>4, <2>6
    <3>2. Number[g] \in Nat /\ (g = p \/ Number[g] < Number[p])
      BY <2>3, <3>1, BlockFacts
    <3> QED
      BY <2>1, <2>2, <3>2
  <2> QED
    BY <2>4, <2>5, <2>6
<1>3. T = S
  <2>1. T \in SUBSET S
    OBVIOUS
  <2> HIDE DEF T
  <2> QED
    BY <1>1, <1>2, <2>1, UpTheTree
<1>4. Good(h)
  BY <1>3
<1>5. ASSUME NEW g \in Branch[h], g # h PROVE h # Genesis /\ g \in Branch[Parent[h]]
  <2>1. h # Genesis
    BY <1>5, GenesisBranch
  <2> QED
    BY <1>5, <2>1, BranchStep
<1> QED
  BY <1>4, <1>5

\* A branch is a chain: of two of its blocks the lower one is on the other's branch.
LEMMA BranchIsChain ==
  ASSUME NEW S \in SUBSET Hash, Linked(S), NEW h \in S,
         NEW f \in Branch[h], NEW g \in Branch[h], Number[f] <= Number[g]
  PROVE  f \in Branch[g]
<1> DEFINE Good(k) == \A x, y \in Branch[k] : Number[x] <= Number[y] => x \in Branch[y]
           T == {k \in S : Good(k)}
<1>1. Genesis \in S => Genesis \in T
  BY GenesisBranch
<1>2. ASSUME NEW k \in S \ {Genesis}, Parent[k] \in T PROVE k \in T
  <2> SUFFICES ASSUME NEW x \in Branch[k], NEW y \in Branch[k], Number[x] <= Number[y]
               PROVE  x \in Branch[y]
    OBVIOUS
  <2>1. Branch[k] = {k} \cup Branch[Parent[k]]
    BY BranchStep
  <2>2. \A z \in Branch[k] : z # k => Number[z] < Number[k]
    BY BranchFacts
  <2>3. x \in Hash /\ y \in Hash
    BY BlockFacts
  <2>4. Number[x] \in Nat /\ Number[y] \in Nat
    BY <2>3, BlockFacts
  <2>5. CASE y = k
    BY <2>5
  <2>6. CASE y # k
    <3>1. Number[y] < Number[k]
      BY <2>2, <2>6
    <3>2. x # k
      BY <2>4, <3>1
    <3> QED
      BY <1>2, <2>1, <2>6, <3>2
  <2> QED
    BY <2>5, <2>6
<1>3. T = S
  <2>1. T \in SUBSET S
    OBVIOUS
  <2> HIDE DEF T
  <2> QED
    BY <1>1, <1>2, <2>1, UpTheTree
<1> QED
  BY <1>3

\* The blocks of a branch have different numbers.
LEMMA BranchNumbers ==
  ASSUME NEW S \in SUBSET Hash, Linked(S), NEW h \in S,
         NEW f \in Branch[h], NEW g \in Branch[h], Number[f] = Number[g]
  PROVE  f = g
<1>1. f \in S /\ g \in S /\ Number[f] \in Nat /\ Number[g] \in Nat
  BY BranchFacts, BlockFacts
<1>2. f \in Branch[g]
  BY <1>1, BranchIsChain
<1> QED
  BY <1>1, <1>2, BranchFacts

\* Below its end, every block of a branch has a child on it.
LEMMA ChildOnBranch ==
  ASSUME NEW S \in SUBSET Hash, Linked(S), NEW h \in S, NEW a \in Branch[h], a # h
  PROVE  \E c \in Branch[h] : c # Genesis /\ Parent[c] = a
<1> DEFINE Good(k) == \A x \in Branch[k] : x # k => \E c \in Branch[k] : c # Genesis /\ Parent[c] = x
           T == {k \in S : Good(k)}
<1>1. Genesis \in S => Genesis \in T
  BY GenesisBranch
<1>2. ASSUME NEW k \in S \ {Genesis}, Parent[k] \in T PROVE k \in T
  BY <1>2, BranchStep
<1>3. T = S
  <2>1. T \in SUBSET S
    OBVIOUS
  <2> HIDE DEF T
  <2> QED
    BY <1>1, <1>2, <2>1, UpTheTree
<1> QED
  BY <1>3

\* Of two children of one block, neither is on the other's branch.
LEMMA OneChild ==
  ASSUME NEW S \in SUBSET Hash, Linked(S), NEW c \in S \ {Genesis}, NEW d \in S \ {Genesis},
         Parent[c] = Parent[d], c \in Branch[d] \/ d \in Branch[c]
  PROVE  c = d
<1>1. ASSUME NEW u \in S \ {Genesis}, NEW v \in S \ {Genesis}, Parent[u] = Parent[v],
             u \in Branch[v], u # v
      PROVE  FALSE
  <2>1. u \in Branch[Parent[v]] /\ Parent[v] \in S
    BY <1>1, BranchFacts, BranchStep
  <2>2. Number[Parent[u]] < Number[u] /\ Number[Parent[u]] \in Nat /\ Number[u] \in Nat
    BY BranchStep, BlockFacts
  <2>3. u = Parent[v] \/ Number[u] < Number[Parent[v]]
    BY <2>1, BranchFacts
  <2> QED
    BY <1>1, <2>2, <2>3
<1> QED
  BY <1>1

-----------------------------------------------------------------------------
(* Walks along a next index.                                               *)

\* A walk along next is defined for every block, even if it came round again.
LEMMA WalkDefined ==
  ASSUME NEW next \in [Hash -> Hash \cup {None}]
  PROVE  \E f : f = [g \in Hash |-> UNION {{k} \cup f[k] : k \in {next[g]} \ {None}}]
<1> DEFINE N(g) == {next[g]} \ {None}
           Closed(C) == \A y \in C : N(y) \subseteq C
           f == [g \in Hash |-> {x \in Hash : \A C \in SUBSET Hash : Closed(C) /\ N(g) \subseteq C => x \in C}]
<1>1. ASSUME NEW g \in Hash PROVE f[g] \in SUBSET Hash /\ Closed(f[g]) /\ N(g) \subseteq f[g]
  <2>1. f[g] = {x \in Hash : \A C \in SUBSET Hash : Closed(C) /\ N(g) \subseteq C => x \in C}
    OBVIOUS
  <2>2. \A y \in Hash : N(y) \subseteq Hash
    OBVIOUS
  <2> HIDE DEF f, N
  <2> QED
    BY <2>1, <2>2
<1>2. ASSUME NEW g \in Hash, NEW C \in SUBSET Hash, Closed(C), N(g) \subseteq C PROVE f[g] \subseteq C
  BY <1>2
<1>3. ASSUME NEW g \in Hash PROVE f[g] = UNION {{k} \cup f[k] : k \in N(g)}
  <2> DEFINE U == UNION {{k} \cup f[k] : k \in N(g)}
  <2>1. \A k \in N(g) : k \in Hash
    OBVIOUS
  <2>2. \A k \in N(g), l \in N(g) : k = l
    OBVIOUS
  <2> HIDE DEF f, N
  <2>3. U \subseteq f[g]
    <3> SUFFICES ASSUME NEW k \in N(g) PROVE k \in f[g] /\ f[k] \subseteq f[g]
      OBVIOUS
    <3>1. k \in f[g] /\ N(k) \subseteq f[g]
      BY <1>1
    <3> QED
      BY <1>1, <1>2, <2>1, <3>1
  <2>4. f[g] \subseteq U
    <3>1. U \in SUBSET Hash
      BY <1>1, <2>1
    <3>2. N(g) \subseteq U
      OBVIOUS
    <3>3. Closed(U)
      <4> SUFFICES ASSUME NEW y \in U PROVE N(y) \subseteq U
        OBVIOUS
      <4>1. PICK k \in N(g) : y \in {k} \cup f[k]
        OBVIOUS
      <4>2. N(y) \subseteq f[k]
        BY <1>1, <2>1, <4>1
      <4> QED
        BY <4>2
    <3> HIDE DEF U
    <3> QED
      BY <1>2, <3>1, <3>2, <3>3
  <2> QED
    BY <2>3, <2>4
<1>4. f = [g \in Hash |-> UNION {{k} \cup f[k] : k \in {next[g]} \ {None}}]
  <2> HIDE DEF f
  <2>1. f = [g \in Hash |-> f[g]]
    BY DEF f
  <2> QED
    BY <1>3, <2>1
<1> QED
  BY <1>4

\* f is the walk along next that stops at block number stop, from every block.
IsWalk(f, next, stop) ==
  f = [g \in Hash |-> IF Number[g] > stop THEN {}
                      ELSE IF Number[g] = stop \/ next[g] = None THEN {g}
                      ELSE {g} \cup f[next[g]]]

LEMMA WalkExists ==
  ASSUME NEW next \in [Hash -> Hash \cup {None}], NEW stop \in Nat
  PROVE  \E f : IsWalk(f, next, stop)
<1> DEFINE cut == [g \in Hash |->
             IF Number[g] < stop /\ next[g] # None /\ Number[next[g]] <= stop THEN next[g] ELSE None]
<1>1. cut \in [Hash -> Hash \cup {None}]
  OBVIOUS
<1>2. PICK w : w = [g \in Hash |-> UNION {{k} \cup w[k] : k \in {cut[g]} \ {None}}]
  <2> HIDE DEF cut
  <2> QED
    BY <1>1, WalkDefined
<1>3. \A g \in Hash : w[g] = IF cut[g] = None THEN {} ELSE {cut[g]} \cup w[cut[g]]
  <2> HIDE DEF cut
  <2>1. \A g \in Hash : w[g] = UNION {{k} \cup w[k] : k \in {cut[g]} \ {None}}
    BY <1>2
  <2> QED
    BY <2>1
<1> DEFINE f == [g \in Hash |-> IF Number[g] > stop THEN {} ELSE {g} \cup w[g]]
<1>4. ASSUME NEW g \in Hash
      PROVE  f[g] = IF Number[g] > stop THEN {}
                    ELSE IF Number[g] = stop \/ next[g] = None THEN {g}
                    ELSE {g} \cup f[next[g]]
  <2>1. Number[g] \in Nat
    BY BlockFacts
  <2>2. CASE Number[g] > stop
    BY <2>2
  <2>3. CASE Number[g] = stop \/ (Number[g] < stop /\ next[g] = None)
    <3>1. cut[g] = None
      BY <2>1, <2>3
    <3>2. w[g] = {}
      BY <1>3, <3>1
    <3> QED
      BY <2>1, <2>3, <3>2
  <2>4. CASE Number[g] < stop /\ next[g] # None
    <3> DEFINE k == next[g]
    <3>1. k \in Hash /\ Number[k] \in Nat
      BY <2>4, BlockFacts
    <3>2. CASE Number[k] <= stop
      <4>1. cut[g] = k /\ k # None
        BY <2>4, <3>2
      <4>2. w[g] = {k} \cup w[k]
        <5> HIDE DEF cut, k
        <5> QED
          BY <1>3, <4>1
      <4>3. f[k] = {k} \cup w[k]
        BY <3>1, <3>2
      <4> QED
        BY <2>1, <2>4, <4>2, <4>3
    <3>3. CASE Number[k] > stop
      <4>1. cut[g] = None
        BY <3>1, <3>3
      <4>2. w[g] = {}
        BY <1>3, <4>1
      <4>3. f[k] = {}
        BY <3>1, <3>3
      <4> QED
        BY <2>1, <2>4, <4>2, <4>3
    <3> QED
      BY <3>1, <3>2, <3>3
  <2> QED
    BY <2>1, <2>2, <2>3, <2>4
<1>5. f = [g \in Hash |-> f[g]]
  OBVIOUS
<1> HIDE DEF f
<1>6. IsWalk(f, next, stop)
  BY <1>4, <1>5 DEF IsWalk
<1> QED
  BY <1>6

\* When next names, for every block below h on h's branch, a child on that branch, the walk
\* from genesis to h's number visits h's branch and nothing else.
LEMMA WalkAlong ==
  ASSUME NEW S \in SUBSET Hash, Linked(S), NEW h \in S, NEW next, NEW f,
         IsWalk(f, next, Number[h]),
         \A g \in Branch[h] \ {h} : next[g] \in Branch[h] \ {Genesis} /\ Parent[next[g]] = g
  PROVE  f[Genesis] = Branch[h]
<1> DEFINE above(g) == {x \in Branch[h] : Number[g] <= Number[x]}
           bad == {g \in Branch[h] : f[g] # above(g)}
           num == [g \in bad |-> Number[g]]
<1>1. /\ Branch[h] \subseteq S /\ Genesis \in Branch[h] /\ h \in Branch[h]
      /\ \A x \in Branch[h] : x \in Hash /\ Number[x] \in Nat /\ Number[x] <= Number[h]
  <2>1. Branch[h] \subseteq S /\ Genesis \in Branch[h] /\ h \in Branch[h]
    BY BranchFacts, BlockFacts
  <2>2. \A x \in Branch[h] : x \in Hash /\ Number[x] \in Nat
    BY <2>1, BlockFacts
  <2>3. \A x \in Branch[h] : x # h => Number[x] < Number[h]
    BY BranchFacts
  <2> QED
    BY <2>1, <2>2, <2>3
<1>2. bad = {}
  <2> SUFFICES ASSUME bad # {} PROVE FALSE
    OBVIOUS
  <2>1. IsFiniteSet(bad) /\ num \in [bad -> Nat]
    <3>1. bad \subseteq Hash
      BY <1>1
    <3>2. \A g \in bad : Number[g] \in Nat
      BY <1>1
    <3> QED
      BY <3>1, <3>2, HashAssumption, FS_Subset
  <2>2. PICK g \in bad : \A k \in bad : num[k] <= num[g]
    <3> HIDE DEF bad, num
    <3> QED
      BY <2>1, GreatestValue
  <2>3. g \in Branch[h] /\ g \in Hash /\ f[g] # above(g)
    BY <1>1
  <2>4. g # h
    <3> SUFFICES ASSUME g = h PROVE FALSE
      OBVIOUS
    <3>1. f[h] = {h}
      BY <1>1 DEF IsWalk
    <3>2. above(h) = {h}
      BY <1>1, BranchNumbers
    <3> QED
      BY <2>3, <3>1, <3>2
  <2> DEFINE k == next[g]
  <2>5. k \in Branch[h] /\ k # Genesis /\ Parent[k] = g /\ k # None
    BY <1>1, <2>3, <2>4, BlockFacts
  <2>6. Number[g] < Number[k] /\ Branch[k] = {k} \cup Branch[g]
    BY <1>1, <2>5, BranchStep
  <2>7. Number[g] < Number[h]
    BY <2>3, <2>4, BranchFacts
  <2>8. f[g] = {g} \cup f[k]
    BY <1>1, <2>3, <2>5, <2>7 DEF IsWalk
  <2>9. f[k] = above(k)
    <3> SUFFICES ASSUME k \in bad PROVE FALSE
      BY <2>5
    <3>1. Number[k] <= Number[g]
      BY <2>2
    <3> QED
      BY <1>1, <2>3, <2>5, <2>6, <3>1
  <2>10. above(g) = {g} \cup above(k)
    <3>1. ASSUME NEW x \in above(g), x # g PROVE Number[k] <= Number[x]
      \* Otherwise x is on k's branch, hence on g's, although its number is higher.
      <4> SUFFICES ASSUME Number[x] <= Number[k], x # k PROVE FALSE
        BY <1>1, <2>5
      <4>1. x \in Branch[k]
        BY <1>1, <2>5, BranchIsChain
      <4>2. x \in Branch[g]
        BY <2>6, <4>1
      <4>3. Number[x] < Number[g]
        BY <1>1, <2>3, <3>1, <4>2, BranchFacts
      <4> QED
        BY <1>1, <2>3, <4>3
    <3>2. \A x \in above(k) : x \in above(g)
      BY <1>1, <2>3, <2>5, <2>6
    <3> QED
      BY <1>1, <2>3, <3>1, <3>2
  <2> QED
    BY <2>3, <2>8, <2>9, <2>10
<1>3. f[Genesis] = above(Genesis)
  BY <1>1, <1>2
<1>4. above(Genesis) = Branch[h]
  <2>1. \A x \in Branch[h] : Genesis \in Branch[x]
    BY <1>1, BranchFacts
  <2>2. \A x \in Branch[h] : x # Genesis => Number[Genesis] < Number[x]
    BY <1>1, <2>1, BranchFacts
  <2> QED
    BY <1>1, <2>2
<1> QED
  BY <1>3, <1>4

-----------------------------------------------------------------------------
(* Preference.                                                             *)

LEMMA RecordCount ==
  ASSUME NEW h \in Hash
  PROVE  Cardinality(Records[h]) \in Nat
BY RecordsAssumption, FS_CardinalityType

\* preferBlockVariant is a strict total order on blocks.
LEMMA VariantOrder ==
  /\ \A c, d \in Hash : c # d => PreferBlockVariant(c, d) \/ PreferBlockVariant(d, c)
  /\ \A c, d \in Hash : ~(PreferBlockVariant(c, d) /\ PreferBlockVariant(d, c))
  /\ \A c, d, e \in Hash :
       PreferBlockVariant(c, d) /\ PreferBlockVariant(d, e) => PreferBlockVariant(c, e)
<1>1. \A c \in Hash : c \in Nat /\ Cardinality(Records[c]) \in Nat
  BY RecordCount, BlockFacts
<1> QED
  BY <1>1 DEF PreferBlockVariant

\* So a nonempty set of blocks has a most preferred one.
LEMMA PreferredOf ==
  ASSUME NEW C \in SUBSET Hash, C # {}
  PROVE  /\ MostPreferred(C) \in C
         /\ \A d \in C \ {MostPreferred(C)} : PreferBlockVariant(MostPreferred(C), d)
<1> DEFINE R == {p \in C \X C : PreferBlockVariant(p[1], p[2])}
<1>1. R \in SUBSET (C \X C)
  OBVIOUS
<1>2. \A x, y \in C : <<x, y>> \in R <=> PreferBlockVariant(x, y)
  OBVIOUS
<1>3. IsFiniteSet(C)
  BY HashAssumption, FS_Subset
<1> HIDE DEF R
<1>4. \A x, y \in C : x # y => <<x, y>> \in R \/ <<y, x>> \in R
  BY <1>2, VariantOrder
<1>5. \A x, y, z \in C : <<x, y>> \in R /\ <<y, z>> \in R /\ x # z => <<x, z>> \in R
  BY <1>2, VariantOrder
<1>6. \E x \in C : \A y \in C \ {x} : <<x, y>> \in R
  BY <1>1, <1>3, <1>4, <1>5, FirstOf
<1>7. \E x \in C : \A y \in C \ {x} : PreferBlockVariant(x, y)
  BY <1>2, <1>6
<1> QED
  BY <1>7 DEF MostPreferred

\* Where two branches part: the child of the last common block.
LEMMA DivergingIs ==
  ASSUME NEW S \in SUBSET Hash, Linked(S), NEW h \in S, NEW k \in S,
         NEW c \in Branch[h], c # Genesis, c \notin Branch[k], Parent[c] \in Branch[k]
  PROVE  Diverging(h, k) = c
<1> DEFINE D == Branch[h] \ Branch[k]
<1>1. c \in D
  OBVIOUS
<1>2. c \in S /\ Branch[c] = {c} \cup Branch[Parent[c]]
  BY BranchFacts, BranchStep
<1>3. Branch[Parent[c]] \subseteq Branch[k]
  BY BranchFacts
<1>4. ASSUME NEW y \in D PROVE Number[c] <= Number[y] /\ (Number[y] <= Number[c] => y = c)
  <2>1. y \in S /\ y \in Branch[h] /\ Number[y] \in Nat /\ Number[c] \in Nat
    BY <1>2, BranchFacts, BlockFacts
  <2>2. Number[y] <= Number[c] => y = c
    <3> SUFFICES ASSUME Number[y] <= Number[c] PROVE y = c
      OBVIOUS
    <3>1. y \in Branch[c]
      BY <2>1, BranchIsChain
    <3> QED
      BY <1>2, <1>3, <1>4, <3>1
  <2> QED
    BY <2>1, <2>2
<1>5. \A x \in D : (\A y \in D : Number[x] <= Number[y]) => x = c
  BY <1>1, <1>4
<1>6. \A y \in D : Number[c] <= Number[y]
  BY <1>4
<1> HIDE DEF D
<1>7. (CHOOSE x \in D : \A y \in D : Number[x] <= Number[y]) = c
  BY <1>1, <1>5, <1>6
<1> QED
  BY <1>7 DEF Diverging, D

\* Two blocks off each other's branch part at a block of each branch.
LEMMA DivergingOnBranch ==
  ASSUME NEW S \in SUBSET Hash, Linked(S), NEW h \in S, NEW k \in S, h \notin Branch[k]
  PROVE  Diverging(h, k) \in Branch[h]
<1> DEFINE D == Branch[h] \ Branch[k]
           numbers == {Number[x] : x \in D}
<1>1. D \subseteq Hash /\ h \in D
  BY BlockFacts
<1>2. numbers \in SUBSET Nat /\ numbers # {}
  <2>1. \A x \in D : Number[x] \in Nat
    BY <1>1, BlockFacts
  <2>2. Number[h] \in numbers
    BY <1>1
  <2> QED
    BY <2>1, <2>2
<1>3. PICK z \in numbers : \A y \in numbers : z <= y
  <2> HIDE DEF numbers
  <2> QED
    BY <1>2, LeastNumber
<1>4. \E x \in D : \A y \in D : Number[x] <= Number[y]
  BY <1>3
<1> QED
  BY <1>4 DEF Diverging

\* preferChainChild never prefers each of two tips to the other.
LEMMA ChainOrder ==
  ASSUME NEW S \in SUBSET Hash, Linked(S), NEW h \in S, NEW k \in S, h # k, PreferChain(h, k)
  PROVE  ~PreferChain(k, h)
<1>1. /\ ChainLength(h) \in Nat /\ ChainLength(k) \in Nat
      /\ Number[h] \in Nat /\ Number[k] \in Nat
  BY BlockFacts
<1>2. ASSUME Number[h] = Number[k]
      PROVE  ~(PreferBlockVariant(Diverging(h, k), Diverging(k, h))
               /\ PreferBlockVariant(Diverging(k, h), Diverging(h, k)))
  <2>1. h \notin Branch[k] /\ k \notin Branch[h]
    BY <1>1, <1>2, BranchFacts
  <2>2. Diverging(h, k) \in Hash /\ Diverging(k, h) \in Hash
    BY <2>1, DivergingOnBranch, BlockFacts
  <2> QED
    BY <2>2, VariantOrder
<1> QED
  BY <1>1, <1>2 DEF PreferChain

-----------------------------------------------------------------------------
(* The fork choice.                                                        *)

\* The tips of M that a block leads to.
Above(M, a) == {h \in M : a \in Branch[h]}

\* Every tip above a is preferred to every other tip of M.
Wins(M, a) ==
  /\ Above(M, a) # {}
  /\ \A h \in Above(M, a), k \in M \ Above(M, a) :
       PreferBlockVariant(Diverging(h, k), Diverging(k, h))

\* From a winning block with several tips above it, its most preferred child that leads to
\* one wins too: what preferChainChild decides at one fork.
LEMMA WinningChild ==
  ASSUME NEW S \in SUBSET Hash, Linked(S), NEW M \in SUBSET S,
         \A h, k \in M : Number[h] = Number[k],
         NEW a \in S, Wins(M, a),
         NEW f \in Above(M, a), NEW g \in Above(M, a), f # g
  PROVE  \E c \in S : Number[a] < Number[c] /\ Wins(M, c)
<1> DEFINE C == {c \in S \ {Genesis} : Parent[c] = a /\ Above(M, c) # {}}
<1>1. \A h \in Above(M, a) : h \in M /\ h \in S /\ a \in Branch[h] /\ Number[h] \in Nat
  BY BlockFacts DEF Above
<1>2. ASSUME NEW h \in Above(M, a) PROVE \E c \in C : c \in Branch[h]
  <2>1. h # a
    <3> SUFFICES ASSUME h = a PROVE FALSE
      OBVIOUS
    <3>1. \A x \in Above(M, a) : x = a
      <4> SUFFICES ASSUME NEW x \in Above(M, a), x # a PROVE FALSE
        OBVIOUS
      <4>1. Number[a] < Number[x]
        BY <1>1, BranchFacts
      <4>2. Number[x] = Number[h] /\ Number[x] \in Nat
        BY <1>1
      <4> QED
        BY <4>1, <4>2
    <3> QED
      BY <3>1
  <2>2. PICK c \in Branch[h] : c # Genesis /\ Parent[c] = a
    BY <1>1, <2>1, ChildOnBranch
  <2>3. c \in S
    BY <1>1, BranchFacts
  <2>4. Above(M, c) # {}
    BY <1>1 DEF Above
  <2> QED
    BY <2>2, <2>3, <2>4
<1>3. C \in SUBSET Hash /\ C # {}
  BY <1>2
<1> DEFINE c == MostPreferred(C)
<1>4. c \in C /\ \A d \in C \ {c} : PreferBlockVariant(c, d)
  <2> HIDE DEF C
  <2> QED
    BY <1>3, PreferredOf
<1> HIDE DEF c
<1>5. c \in S /\ c # Genesis /\ Parent[c] = a /\ Above(M, c) # {}
  BY <1>4
<1>6. Number[a] < Number[c]
  BY <1>5, BranchStep
<1>7. ASSUME NEW x \in C, NEW h \in S, x \in Branch[h] PROVE a \in Branch[h]
  <2>1. a \in Branch[x]
    BY <1>7, BranchStep, BlockFacts
  <2> QED
    BY <1>7, <2>1, BranchFacts
<1>8. ASSUME NEW x \in C, NEW y \in C, NEW h \in S, x \in Branch[h], y \in Branch[h]
      PROVE  x = y
  <2>1. x \in S \ {Genesis} /\ y \in S \ {Genesis} /\ Parent[x] = Parent[y]
    OBVIOUS
  <2>2. Number[x] \in Nat /\ Number[y] \in Nat
    BY <2>1, BlockFacts
  <2>3. x \in Branch[y] \/ y \in Branch[x]
    BY <1>8, <2>2, BranchIsChain
  <2> QED
    BY <2>1, <2>3, OneChild
<1>9. ASSUME NEW h \in Above(M, c), NEW k \in M \ Above(M, c)
      PROVE  PreferBlockVariant(Diverging(h, k), Diverging(k, h))
  <2>1. h \in M /\ h \in S /\ c \in Branch[h] /\ k \in S /\ c \notin Branch[k]
    BY DEF Above
  <2>2. a \in Branch[h]
    BY <1>4, <1>7, <2>1
  <2>3. CASE k \notin Above(M, a)
    BY <2>1, <2>2, <2>3 DEF Wins, Above
  <2>4. CASE k \in Above(M, a)
    <3>1. PICK d \in C : d \in Branch[k]
      BY <1>2, <2>4
    <3>2. d # c
      BY <2>1, <3>1
    <3>3. d \notin Branch[h]
      BY <1>4, <1>8, <2>1, <3>2
    <3>4. a \in Branch[k] /\ d \in S /\ d # Genesis /\ Parent[d] = a
      BY <1>1, <2>4
    <3>5. Diverging(h, k) = c
      BY <1>5, <2>1, <3>4, DivergingIs
    <3>6. Diverging(k, h) = d
      BY <2>1, <2>2, <3>1, <3>3, <3>4, DivergingIs
    <3> QED
      BY <1>4, <3>2, <3>5, <3>6
  <2> QED
    BY <2>3, <2>4
<1> QED
  BY <1>5, <1>6, <1>9 DEF Wins

\* The blocks of the longest chains with the highest tip, among the blocks S.
Finalists(S) ==
  {h \in S : \A k \in S :
     \/ ChainLength(h) > ChainLength(k)
     \/ ChainLength(h) = ChainLength(k) /\ Number[h] >= Number[k]}

LEMMA FinalistExists ==
  ASSUME NEW S \in SUBSET Hash, S # {}
  PROVE  Finalists(S) # {}
<1> DEFINE len == [h \in S |-> ChainLength(h)]
<1>1. IsFiniteSet(S) /\ len \in [S -> Nat]
  BY HashAssumption, FS_Subset, BlockFacts
<1>2. PICK h \in S : \A k \in S : len[k] <= len[h]
  <2> HIDE DEF len
  <2> QED
    BY <1>1, GreatestValue
<1> DEFINE L == {k \in S : ChainLength(k) = ChainLength(h)}
           high == [k \in L |-> Number[k]]
<1>3. IsFiniteSet(L) /\ L # {} /\ high \in [L -> Nat]
  <2>1. L \subseteq S /\ h \in L
    OBVIOUS
  <2>2. \A k \in L : Number[k] \in Nat
    BY BlockFacts
  <2> QED
    BY <1>1, <2>1, <2>2, FS_Subset
<1>4. PICK t \in L : \A k \in L : high[k] <= high[t]
  <2> HIDE DEF L, high
  <2> QED
    BY <1>3, GreatestValue
<1>5. ASSUME NEW k \in S
      PROVE  \/ ChainLength(t) > ChainLength(k)
             \/ ChainLength(t) = ChainLength(k) /\ Number[t] >= Number[k]
  <2>1. ChainLength(k) \in Nat /\ ChainLength(h) \in Nat /\ ChainLength(t) = ChainLength(h)
    BY BlockFacts
  <2>2. ChainLength(k) <= ChainLength(h)
    BY <1>2
  <2>3. CASE ChainLength(k) = ChainLength(h)
    <3>1. k \in L
      BY <2>3
    <3>2. high[k] <= high[t]
      BY <1>4, <3>1
    <3>3. Number[k] <= Number[t] /\ Number[k] \in Nat /\ Number[t] \in Nat
      BY <3>1, <3>2, BlockFacts
    <3> QED
      BY <2>1, <2>3, <3>3
  <2> QED
    BY <2>1, <2>2, <2>3
<1> QED
  BY <1>5 DEF Finalists

\* The winner among the finalists, found by going up from genesis.
LEMMA FinalistWins ==
  ASSUME NEW S \in SUBSET Hash, Linked(S), S # {}
  PROVE  \E h \in Finalists(S) : \A k \in Finalists(S) \ {h} :
           PreferBlockVariant(Diverging(h, k), Diverging(k, h))
<1> DEFINE M == Finalists(S)
           A == {a \in S : Wins(M, a)}
           num == [a \in A |-> Number[a]]
<1>1. M \in SUBSET S /\ M # {}
  BY FinalistExists DEF Finalists
<1>2. \A h, k \in M : Number[h] = Number[k]
  <2> SUFFICES ASSUME NEW h \in M, NEW k \in M PROVE Number[h] = Number[k]
    OBVIOUS
  <2>1. h \in S /\ k \in S
    BY <1>1
  <2>2. /\ ChainLength(h) \in Nat /\ ChainLength(k) \in Nat
        /\ Number[h] \in Nat /\ Number[k] \in Nat
    BY <2>1, BlockFacts
  <2> QED
    BY <2>1, <2>2 DEF Finalists
<1> HIDE DEF M
<1>3. Genesis \in S /\ Wins(M, Genesis)
  <2>1. \A h \in M : Genesis \in Branch[h] /\ Genesis \in S
    BY <1>1, BranchFacts
  <2>2. Above(M, Genesis) = M
    BY <2>1 DEF Above
  <2> QED
    BY <1>1, <2>1, <2>2 DEF Wins
<1>4. IsFiniteSet(A) /\ A # {} /\ num \in [A -> Nat]
  <2>1. A \subseteq Hash /\ Genesis \in A
    BY <1>3
  <2>2. \A a \in A : Number[a] \in Nat
    BY <2>1, BlockFacts
  <2> QED
    BY <2>1, <2>2, HashAssumption, FS_Subset
<1>5. PICK a \in A : \A c \in A : num[c] <= num[a]
  <2> HIDE DEF A, num
  <2> QED
    BY <1>4, GreatestValue
<1>6. a \in S /\ Wins(M, a)
  OBVIOUS
<1>7. PICK h \in Above(M, a) : TRUE
  BY <1>6 DEF Wins
<1>8. Above(M, a) = {h}
  <2> SUFFICES ASSUME NEW g \in Above(M, a), g # h PROVE FALSE
    OBVIOUS
  <2>1. PICK c \in S : Number[a] < Number[c] /\ Wins(M, c)
    BY <1>1, <1>2, <1>6, WinningChild
  <2>2. c \in A
    BY <2>1
  <2>3. Number[c] <= Number[a] /\ Number[c] \in Nat /\ Number[a] \in Nat
    BY <1>5, <2>2, BlockFacts
  <2> QED
    BY <2>1, <2>3
<1>9. h \in M
  BY <1>7 DEF Above
<1>10. \A k \in M \ {h} : PreferBlockVariant(Diverging(h, k), Diverging(k, h))
  BY <1>6, <1>8 DEF Wins
<1> QED
  BY <1>9, <1>10 DEF M

\* The fork choice of rebuildBestChainIndex decides: among any blocks that AddBlock can have
\* stored, one tip is preferred to every other and none is preferred to it, so nodes with
\* the same blocks choose the same chain in whatever order they compare the forks.
THEOREM ForkChoiceDecides ==
  ASSUME NEW S \in SUBSET Hash, Linked(S), S # {}
  PROVE  \E h \in S : \A k \in S \ {h} : PreferChain(h, k) /\ ~PreferChain(k, h)
<1>1. PICK h \in Finalists(S) : \A k \in Finalists(S) \ {h} :
        PreferBlockVariant(Diverging(h, k), Diverging(k, h))
  BY FinalistWins
<1>2. h \in S
  BY DEF Finalists
<1>3. ASSUME NEW k \in S \ {h} PROVE PreferChain(h, k)
  <2>1. /\ ChainLength(h) \in Nat /\ ChainLength(k) \in Nat
        /\ Number[h] \in Nat /\ Number[k] \in Nat
    BY <1>2, BlockFacts
  <2>2. \/ ChainLength(h) > ChainLength(k)
        \/ ChainLength(h) = ChainLength(k) /\ Number[h] >= Number[k]
    BY DEF Finalists
  <2>3. CASE ChainLength(h) = ChainLength(k) /\ Number[h] = Number[k]
    <3>1. k \in Finalists(S)
      BY <1>2, <2>3 DEF Finalists
    <3> QED
      BY <1>1, <2>3, <3>1 DEF PreferChain
  <2> QED
    BY <2>1, <2>2, <2>3 DEF PreferChain
<1> QED
  BY <1>2, <1>3, ChainOrder
=============================================================================
