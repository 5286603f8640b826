--------------------------- MODULE PeerSyncProofs ---------------------------
(***************************************************************************)
(* Proofs about PeerSync for every set of nodes and peer lists, every block *)
(* tree and every bound.                                                    *)
(***************************************************************************)
EXTENDS PeerSync, BlockTreeProofs

-----------------------------------------------------------------------------
(* What every operation keeps true of a node's store.                      *)

StoreType ==
  [stored : SUBSET Hash, canonical : [Slot -> Hash \cup {None}],
   nextHash : [Hash -> Hash \cup {None}], nextId : [Slot -> Slot \cup {None}],
   first : Slot \cup {None}, latest : Slot \cup {None}, latestHash : Hash \cup {None},
   checkpoint : Hash \cup {None}, forkLatest : Slot \cup {None}]

\* Stored blocks are linked, the canonical index holds stored blocks, the indexes of the
\* next blocks point upward, and a chain that has a first block has genesis.
Sound(s) ==
  /\ s \in StoreType
  /\ Linked(s.stored)
  /\ \A n \in Slot : s.canonical[n] # None => s.canonical[n] \in s.stored /\ Number[s.canonical[n]] = n
  /\ \A h \in Hash : s.nextHash[h] # None => s.nextHash[h] \in s.stored
  /\ \A n \in Slot : s.nextId[n] # None => n < s.nextId[n]
  /\ s.first # None => Genesis \in s.stored /\ s.canonical[s.first] # None
  /\ s.latest # None => s.canonical[s.latest] # None

-----------------------------------------------------------------------------
(* The operators of the block store, as BlockDB defines them.              *)

LEMMA BlockAtIs ==
  ASSUME NEW s, NEW n
  PROVE  BlockAt(s, n) = IF n \in Slot THEN s.canonical[n] ELSE None
BY DEF BlockAt, DB!GetBlock, DB!Slot, DB!None, Slot, None

LEMMA AddBlockIs == ASSUME NEW s, NEW b PROVE AddBlock(s, b) = Added(s, b)
BY DEF AddBlock, Once

LEMMA RebuildIs == ASSUME NEW s PROVE Rebuild(s) = Rebuilt(s)
BY DEF Rebuild, Once

LEMMA SetTipIs ==
  ASSUME NEW s, NEW h
  PROVE  SetTip(s, h) = [s EXCEPT !.latest = Number[h], !.latestHash = h,
                           !.checkpoint = IF h = Genesis THEN @ ELSE DB(s)!AdvancedCheckpoint(h)]
BY DEF SetTip, Once

LEMMA ExtendsTipIs ==
  ASSUME NEW s, NEW b
  PROVE  DB(s)!ExtendsTip(b) <=>
           IF b = Genesis THEN s.latest = None
           ELSE s.latest # None /\ PrevId[b] = s.latest /\ BlockAt(s, s.latest) = Parent[b]
BY DEF DB!ExtendsTip, BlockAt, DB!None, None

LEMMA ParentAcceptableIs ==
  ASSUME NEW s, NEW b
  PROVE  DB(s)!ParentAcceptable(b) <=>
           Parent[b] \in s.stored /\ Number[Parent[b]] = PrevId[b] /\ PrevId[b] < Number[b]
BY DEF DB!ParentAcceptable

LEMMA SizeIs == ASSUME NEW s, NEW S PROVE DB(s)!Cardinality(S) = Cardinality(S)
BY Zenon DEF DB!Cardinality, Cardinality

LEMMA PreferIs ==
  ASSUME NEW s, NEW c, NEW d
  PROVE  DB(s)!PreferBlockVariant(c, d) <=> PreferBlockVariant(c, d)
BY SizeIs DEF DB!PreferBlockVariant, PreferBlockVariant

LEMMA PreferChainIs ==
  ASSUME NEW s, NEW h, NEW k
  PROVE  DB(s)!PreferChain(h, k) <=> PreferChain(h, k)
BY SizeIs, PreferIs DEF DB!PreferChain, PreferChain, DB!ChainLength, ChainLength, DB!Diverging, Diverging

\* The best chain of a nonempty store ends at one of its blocks.
LEMMA BestEndStored ==
  ASSUME NEW s, s.stored \in SUBSET Hash, Linked(s.stored), s.stored # {}
  PROVE  DB(s)!BestEnd \in s.stored
<1>1. \E h \in s.stored : \A k \in s.stored \ {h} : PreferChain(h, k)
  BY ForkChoiceDecides
<1>2. \E h \in s.stored : \A k \in s.stored \ {h} : DB(s)!PreferChain(h, k)
  BY <1>1, PreferChainIs
<1> QED
  BY <1>2 DEF DB!BestEnd

LEMMA SlotNumbers == Slot \subseteq Nat \ {None}
BY HeaderAssumption DEF Slot

\* getNextBlock returns None or a block with a higher number, as long as the next index
\* points upward.
LEMMA NextIsHigher ==
  ASSUME NEW s, Sound(s), NEW h \in Hash, NEW g, g = DB(s)!GetNextBlock(h), g # None
  PROVE  g \in s.stored /\ Number[h] < Number[g]
<1> DEFINE legacy   == BlockAt(s, s.nextId[Number[h]])
           children == {c \in s.stored : DB(s)!ChildConnectsToParent(c, h)}
           pool     == children \cup ({legacy} \ {None})
<1>1. Number[h] \in Slot
  BY BlockFacts
<1>2. ASSUME legacy # None PROVE legacy \in s.stored /\ Number[h] < Number[legacy]
  <2> DEFINE n == s.nextId[Number[h]]
  <2>1. n \in Slot /\ legacy = s.canonical[n]
    BY <1>2, BlockAtIs
  <2>2. Number[h] < n
    <3>1. n # None
      BY <2>1, SlotNumbers
    <3> QED
      BY <1>1, <3>1 DEF Sound
  <2> QED
    BY <1>2, <2>1, <2>2 DEF Sound
<1>3. \A c : DB(s)!ChildConnectsToParent(c, h) => Number[h] < Number[c]
  BY DEF DB!ChildConnectsToParent
<1>4. pool \subseteq s.stored /\ \A c \in pool : Number[h] < Number[c]
  BY <1>2, <1>3
<1>5. pool # {} => DB(s)!MostPreferred(pool) \in pool
  <2> SUFFICES ASSUME pool # {} PROVE DB(s)!MostPreferred(pool) \in pool
    OBVIOUS
  <2>1. pool \in SUBSET Hash
    BY <1>4 DEF Sound, StoreType
  <2> HIDE DEF pool
  <2>2. \E c \in pool : \A d \in pool \ {c} : PreferBlockVariant(c, d)
    BY <2>1, PreferredOf
  <2>3. \E c \in pool : \A d \in pool \ {c} : DB(s)!PreferBlockVariant(c, d)
    BY <2>2, PreferIs
  <2> QED
    BY <2>3 DEF DB!MostPreferred
<1>6. s.nextHash[h] # None => s.nextHash[h] \in s.stored
  BY DEF Sound
<1>7. \/ g = s.nextHash[h] /\ DB(s)!ChildConnectsToParent(g, h)
      \/ g \in pool
  <2>1. /\ legacy = DB(s)!GetBlock(s.nextId[Number[h]])
        /\ DB(s)!None = None
    BY DEF BlockAt, DB!None, None
  <2>2. \/ g = s.nextHash[h] /\ DB(s)!ChildConnectsToParent(g, h)
        \/ g = legacy /\ legacy # None
        \/ pool # {} /\ g = DB(s)!MostPreferred(pool)
    <3> HIDE DEF legacy
    <3> QED
      BY <2>1 DEF DB!GetNextBlock
  <2> QED
    BY <1>5, <2>2
<1> QED
  BY <1>3, <1>4, <1>6, <1>7

-----------------------------------------------------------------------------
(* The blocks a peer answers with.                                         *)

LEMMA BatchStored ==
  ASSUME NEW s, Sound(s), NEW h
  PROVE  BatchAfter(s, h) \in SUBSET s.stored
<1> DEFINE next == [g \in Hash |-> DB(s)!GetNextBlock(g)]
           from == CHOOSE f : f = [g \in Hash |->
                     UNION {{k} \cup f[k] : k \in {DB(s)!GetNextBlock(g)} \ {None}}]
<1>1. s.stored \subseteq Hash
  BY DEF Sound, StoreType
<1>2. next \in [Hash -> Hash \cup {None}]
  BY <1>1, NextIsHigher
<1>3. \E f : f = [g \in Hash |-> UNION {{k} \cup f[k] : k \in {next[g]} \ {None}}]
  <2> HIDE DEF next
  <2> QED
    BY <1>2, WalkDefined
<1>4. \E f : f = [g \in Hash |-> UNION {{k} \cup f[k] : k \in {DB(s)!GetNextBlock(g)} \ {None}}]
  <2>1. PICK f : f = [g \in Hash |-> UNION {{k} \cup f[k] : k \in {next[g]} \ {None}}]
    BY <1>3
  <2>2. f = [g \in Hash |-> UNION {{k} \cup f[k] : k \in {DB(s)!GetNextBlock(g)} \ {None}}]
    BY <2>1
  <2> QED
    BY <2>2
<1>5. from = [g \in Hash |-> UNION {{k} \cup from[k] : k \in {DB(s)!GetNextBlock(g)} \ {None}}]
  BY <1>4
<1> HIDE DEF from
<1> DEFINE bad == {g \in Hash : ~(from[g] \subseteq s.stored)}
           num == [g \in bad |-> Number[g]]
<1>6. bad = {}
  <2> SUFFICES ASSUME bad # {} PROVE FALSE
    OBVIOUS
  <2>1. IsFiniteSet(bad) /\ num \in [bad -> Nat]
    <3>1. bad \subseteq Hash
      OBVIOUS
    <3>2. \A g \in bad : Number[g] \in Nat
      BY BlockFacts
    <3> QED
      BY <3>1, <3>2, HashAssumption, FS_Subset
  <2>2. PICK g \in bad : \A k \in bad : num[k] <= num[g]
    <3> HIDE DEF bad, num
    <3> QED
      BY <2>1, GreatestValue
  <2>3. PICK k \in {DB(s)!GetNextBlock(g)} \ {None} : ~({k} \cup from[k] \subseteq s.stored)
    BY <1>5
  <2>4. k \in s.stored /\ Number[g] < Number[k]
    BY <2>3, NextIsHigher
  <2>5. k \in bad
    BY <1>1, <2>3, <2>4
  <2>6. Number[k] <= Number[g] /\ Number[k] \in Nat /\ Number[g] \in Nat
    BY <2>2, <2>5, BlockFacts
  <2> QED
    BY <2>4, <2>6
<1>7. BatchAfter(s, h) = IF h \in s.stored THEN from[h] ELSE {}
  BY DEF BatchAfter, from
<1> QED
  BY <1>1, <1>6, <1>7

LEMMA BlockAtStored ==
  ASSUME NEW s, Sound(s), NEW n, BlockAt(s, n) # None
  PROVE  BlockAt(s, n) \in s.stored /\ BlockAt(s, n) \in Hash /\ n \in Slot /\ Number[BlockAt(s, n)] = n
BY BlockAtIs DEF Sound, StoreType

LEMMA ReplyStored ==
  ASSUME NEW s, Sound(s), NEW n, NEW want
  PROVE  /\ BlockAfter(s, n) \in SUBSET s.stored
         /\ ChainFrom(s, n, want) \in SUBSET s.stored
         /\ RangeTo(s, want) \in SUBSET s.stored
<1>1. BlockAfter(s, n) \in SUBSET s.stored
  BY BlockAtStored, NextIsHigher DEF BlockAfter
<1>2. ChainFrom(s, n, want) \in SUBSET s.stored
  BY BlockAtStored, BatchStored DEF ChainFrom
<1>3. RangeTo(s, want) \in SUBSET s.stored
  BY BlockAtStored DEF RangeTo
<1> QED
  BY <1>1, <1>2, <1>3

-----------------------------------------------------------------------------
(* The operations on a store keep it sound.                                *)

LEMMA BuriedKnown ==
  ASSUME NEW s, NEW h \in Hash
  PROVE  DB(s)!Buried(h) \in Hash
<1> DEFINE reached == {a \in Branch[h] : DB(s)!Cardinality(Branch[h] \ Branch[a]) <= CheckpointDepth}
           num     == {Number[a] : a \in reached}
<1>1. h \in reached
  <2>1. DB(s)!Cardinality(Branch[h] \ Branch[h]) = 0
    BY FS_EmptySet, SizeIs
  <2> QED
    BY <2>1, BlockFacts, NodeAssumption
<1>2. reached \subseteq Hash
  BY BlockFacts
<1>3. num \in SUBSET Nat /\ num # {}
  <2> HIDE DEF reached
  <2>1. \A a \in reached : Number[a] \in Nat
    BY <1>2, BlockFacts
  <2> QED
    BY <1>1, <2>1
<1>4. PICK x \in num : \A y \in num : x <= y
  <2> HIDE DEF num
  <2> QED
    BY <1>3, LeastNumber
<1>5. \E a \in reached : \A c \in reached : Number[a] <= Number[c]
  <2> HIDE DEF reached
  <2> QED
    BY <1>4
<1> QED
  BY <1>2, <1>5 DEF DB!Buried

LEMMA CheckpointKnown ==
  ASSUME NEW s, NEW h \in Hash, s.checkpoint \in Hash \cup {None}
  PROVE  DB(s)!AdvancedCheckpoint(h) \in Hash \cup {None}
BY BuriedKnown DEF DB!AdvancedCheckpoint

\* Moving the tip or the checkpoint leaves the rest alone.
LEMMA SetTipSound ==
  ASSUME NEW s, Sound(s), NEW h \in Hash, s.canonical[Number[h]] # None
  PROVE  /\ Sound(SetTip(s, h)) /\ SetTip(s, h).stored = s.stored
         /\ SetTip(s, h).latest = Number[h] /\ SetTip(s, h).latestHash = h
<1> DEFINE c == IF h = Genesis THEN s.checkpoint ELSE DB(s)!AdvancedCheckpoint(h)
           t == [s EXCEPT !.latest = Number[h], !.latestHash = h, !.checkpoint = c]
<1>1. c \in Hash \cup {None}
  BY CheckpointKnown DEF Sound, StoreType
<1>2. SetTip(s, h) = t
  BY SetTipIs
<1> HIDE DEF c
<1>3. Number[h] \in Slot
  BY BlockFacts
<1>4. s \in StoreType
  BY DEF Sound
<1>5. t \in StoreType
  BY <1>1, <1>3, <1>4 DEF StoreType
<1>6. /\ t.stored = s.stored /\ t.canonical = s.canonical /\ t.nextHash = s.nextHash
      /\ t.nextId = s.nextId /\ t.first = s.first /\ t.latest = Number[h] /\ t.latestHash = h
  BY <1>4 DEF StoreType
<1> HIDE DEF t
<1> QED
  BY <1>2, <1>5, <1>6 DEF Sound

\* The two stages of AddBlock: the block is put, then indexed.
WithBlock(s, b) ==
  [s EXCEPT !.stored = @ \cup {b},
            !.forkLatest = IF s.canonical[Number[b]] # None /\ Number[b] > @ THEN Number[b] ELSE @]

WithLinks(s, b) ==
  LET written == [WithBlock(s, b) EXCEPT !.canonical[Number[b]] = b]
  IN  IF b = Genesis THEN [written EXCEPT !.first = Number[b]]
      ELSE [written EXCEPT
              !.nextId[PrevId[b]] = IF BlockAt(written, @) = None THEN Number[b] ELSE @,
              !.nextHash[Parent[b]] = IF @ = None \/ ~ChildConnectsToParent(@, Parent[b]) THEN b ELSE @]

\* validateBlockForStorage, as AddBlock calls it.
Acceptable(s, b) ==
  b \notin s.stored /\ (b = Genesis \/ DB(s)!ParentAcceptable(b))

LEMMA AddedIs ==
  ASSUME NEW s, NEW b
  PROVE  Added(s, b) =
           IF ~Acceptable(s, b) THEN s
           ELSE IF s.canonical[Number[b]] # None /\ ~PreferBlockVariant(b, s.canonical[Number[b]])
                THEN WithBlock(s, b)
           ELSE IF DB(WithLinks(s, b))!ExtendsTip(b) THEN SetTip(WithLinks(s, b), b)
           ELSE WithLinks(s, b)
BY DEF Added, Once, WithBlock, WithLinks, Acceptable

LEMMA WithBlockSound ==
  ASSUME NEW s, Sound(s), NEW b \in Hash, Acceptable(s, b)
  PROVE  /\ Sound(WithBlock(s, b))
         /\ WithBlock(s, b).stored = s.stored \cup {b}
         /\ WithBlock(s, b).latest = s.latest /\ WithBlock(s, b).latestHash = s.latestHash
         /\ WithBlock(s, b).canonical = s.canonical
<1> DEFINE t == WithBlock(s, b)
<1>1. s \in StoreType /\ Number[b] \in Slot
  BY BlockFacts DEF Sound
<1>2. t \in StoreType
  BY <1>1 DEF StoreType, WithBlock
<1>3. /\ t.stored = s.stored \cup {b} /\ t.canonical = s.canonical /\ t.nextHash = s.nextHash
      /\ t.nextId = s.nextId /\ t.first = s.first
      /\ t.latest = s.latest /\ t.latestHash = s.latestHash
  BY <1>1 DEF StoreType, WithBlock
<1>4. Linked(t.stored)
  BY <1>3, ParentAcceptableIs DEF Acceptable, Linked, Sound, ChildConnectsToParent
<1> HIDE DEF t
<1>5. Sound(t)
  BY <1>2, <1>3, <1>4 DEF Sound
<1> QED
  BY <1>3, <1>5 DEF t

LEMMA WithLinksSound ==
  ASSUME NEW s, Sound(s), NEW b \in Hash, Acceptable(s, b)
  PROVE  /\ Sound(WithLinks(s, b))
         /\ WithLinks(s, b).stored = s.stored \cup {b}
         /\ WithLinks(s, b).latest = s.latest /\ WithLinks(s, b).latestHash = s.latestHash
         /\ WithLinks(s, b).canonical = [s.canonical EXCEPT ![Number[b]] = b]
<1> DEFINE u == WithBlock(s, b)
           w == [u EXCEPT !.canonical[Number[b]] = b]
<1>1. /\ Sound(u) /\ u.stored = s.stored \cup {b} /\ u.canonical = s.canonical
      /\ u.latest = s.latest /\ u.latestHash = s.latestHash
  BY WithBlockSound
<1> HIDE DEF u
<1>2. Number[b] \in Slot /\ u \in StoreType
  BY <1>1, BlockFacts DEF Sound
<1>3. w \in StoreType
  BY <1>2 DEF StoreType
<1>4. /\ w.stored = u.stored /\ w.canonical = [u.canonical EXCEPT ![Number[b]] = b]
      /\ w.nextHash = u.nextHash /\ w.nextId = u.nextId /\ w.first = u.first
      /\ w.latest = u.latest /\ w.latestHash = u.latestHash
  BY <1>2 DEF StoreType
<1> HIDE DEF w
<1>5. u.canonical \in [Slot -> Hash \cup {None}] /\ b # None
  BY <1>2, BlockFacts DEF StoreType
<1>6. Sound(w)
  BY <1>1, <1>2, <1>3, <1>4, <1>5 DEF Sound
<1>7. CASE b = Genesis
  <2> DEFINE t == [w EXCEPT !.first = Number[b]]
  <2>1. WithLinks(s, b) = t
    BY <1>7 DEF WithLinks, w, u
  <2>2. t \in StoreType
    BY <1>2, <1>3 DEF StoreType
  <2>3. /\ t.stored = w.stored /\ t.canonical = w.canonical /\ t.nextHash = w.nextHash
        /\ t.nextId = w.nextId /\ t.first = Number[b]
        /\ t.latest = w.latest /\ t.latestHash = w.latestHash
    BY <1>3 DEF StoreType
  <2> HIDE DEF t
  <2>4. Genesis \in t.stored /\ t.canonical[t.first] # None
    BY <1>1, <1>2, <1>4, <1>5, <1>7, <2>3
  <2>5. Sound(t)
    BY <1>6, <2>2, <2>3, <2>4 DEF Sound
  <2> QED
    BY <1>1, <1>4, <2>1, <2>3, <2>5
<1>8. CASE b # Genesis
  <2>1. /\ Parent[b] \in s.stored /\ Parent[b] \in Hash /\ PrevId[b] \in Slot
        /\ PrevId[b] < Number[b]
    BY <1>8, ParentAcceptableIs DEF Acceptable, Sound, StoreType, Slot
  <2> DEFINE ni == IF BlockAt(w, w.nextId[PrevId[b]]) = None THEN Number[b] ELSE w.nextId[PrevId[b]]
             nh == IF w.nextHash[Parent[b]] = None \/ ~ChildConnectsToParent(w.nextHash[Parent[b]], Parent[b])
                   THEN b ELSE w.nextHash[Parent[b]]
             t == [w EXCEPT !.nextId[PrevId[b]] = ni, !.nextHash[Parent[b]] = nh]
  <2>2. WithLinks(s, b) = t
    <3>1. [w EXCEPT !.nextId[PrevId[b]] = ni].nextHash = w.nextHash
      BY <1>3 DEF StoreType
    <3> QED
      BY <1>8, <3>1 DEF WithLinks, w, u
  <2>3. ni = Number[b] \/ ni = w.nextId[PrevId[b]]
    OBVIOUS
  <2>4. nh = b \/ nh = w.nextHash[Parent[b]]
    OBVIOUS
  <2> HIDE DEF ni, nh
  <2>5. /\ w.nextId \in [Slot -> Slot \cup {None}] /\ w.nextHash \in [Hash -> Hash \cup {None}]
        /\ ni \in Slot \cup {None} /\ nh \in Hash \cup {None}
    BY <1>2, <1>3, <2>1, <2>3, <2>4 DEF StoreType
  <2>6. t \in StoreType
    BY <1>3, <2>5 DEF StoreType
  <2>7. /\ t.stored = w.stored /\ t.canonical = w.canonical
        /\ t.nextHash = [w.nextHash EXCEPT ![Parent[b]] = nh]
        /\ t.nextId = [w.nextId EXCEPT ![PrevId[b]] = ni]
        /\ t.first = w.first /\ t.latest = w.latest /\ t.latestHash = w.latestHash
    BY <1>3 DEF StoreType
  <2> HIDE DEF t
  <2>8. \A h \in Hash : t.nextHash[h] # None => t.nextHash[h] \in t.stored
    BY <1>1, <1>4, <1>6, <2>4, <2>5, <2>7 DEF Sound
  <2>9. \A n \in Slot : t.nextId[n] # None => n < t.nextId[n]
    BY <1>6, <2>1, <2>3, <2>5, <2>7 DEF Sound
  <2>10. Sound(t)
    BY <1>6, <2>6, <2>7, <2>8, <2>9 DEF Sound
  <2> QED
    BY <1>1, <1>4, <2>2, <2>7, <2>10
<1> QED
  BY <1>7, <1>8

\* AddBlock keeps a store sound and forgets no block.
LEMMA AddBlockSound ==
  ASSUME NEW s, Sound(s), NEW b \in Hash
  PROVE  /\ Sound(AddBlock(s, b))
         /\ s.stored \subseteq AddBlock(s, b).stored
<1>1. AddBlock(s, b) = Added(s, b)
  BY AddBlockIs
<1>2. CASE ~Acceptable(s, b)
  <2>1. Added(s, b) = s
    BY <1>2, AddedIs
  <2> QED
    BY <1>1, <2>1
<1>3. CASE Acceptable(s, b)
  <2> DEFINE w == WithLinks(s, b)
  <2>1. Added(s, b) \in {WithBlock(s, b), w, SetTip(w, b)}
    BY <1>3, AddedIs
  <2>2. Sound(WithBlock(s, b)) /\ WithBlock(s, b).stored = s.stored \cup {b}
    BY <1>3, WithBlockSound
  <2>3. /\ Sound(w) /\ w.stored = s.stored \cup {b}
        /\ w.canonical = [s.canonical EXCEPT ![Number[b]] = b]
    BY <1>3, WithLinksSound
  <2> HIDE DEF w
  <2>4. Sound(SetTip(w, b)) /\ SetTip(w, b).stored = w.stored
    <3>1. w.canonical[Number[b]] # None
      BY <2>3, BlockFacts DEF Sound, StoreType
    <3> QED
      BY <2>3, <3>1, SetTipSound
  <2> QED
    BY <1>1, <2>1, <2>2, <2>3, <2>4
<1> QED
  BY <1>2, <1>3

\* The tip moves only to a block whose parent was the tip.
LEMMA TipMovesToChild ==
  ASSUME NEW s, Sound(s), NEW b \in Hash, BlockAt(s, s.latest) # Parent[b],
         NEW t, t = AddBlock(s, b)
  PROVE  /\ t.latest = s.latest /\ t.latestHash = s.latestHash
         /\ \/ t.canonical = s.canonical
            \/ /\ t.canonical = [s.canonical EXCEPT ![Number[b]] = b]
               /\ s.canonical[Number[b]] # None => PreferBlockVariant(b, s.canonical[Number[b]])
<1>1. t = Added(s, b)
  BY AddBlockIs
<1>2. CASE ~Acceptable(s, b)
  BY <1>1, <1>2, AddedIs
<1>3. CASE Acceptable(s, b)
  <2> DEFINE w == WithLinks(s, b)
  <2>1. /\ w.latest = s.latest /\ w.latestHash = s.latestHash
        /\ w.canonical = [s.canonical EXCEPT ![Number[b]] = b]
    BY <1>3, WithLinksSound
  <2>2. s.canonical \in [Slot -> Hash \cup {None}]
    BY DEF Sound, StoreType
  <2> HIDE DEF w
  <2>3. ~DB(w)!ExtendsTip(b)
    <3>1. CASE b = Genesis
      <4>1. s.latest # None
        BY <3>1, BlockAtIs, SlotNumbers, HeaderAssumption
      <4> QED
        BY <2>1, <3>1, <4>1, ExtendsTipIs
    <3>2. CASE b # Genesis
      <4> SUFFICES ASSUME DB(w)!ExtendsTip(b) PROVE FALSE
        OBVIOUS
      <4>1. PrevId[b] < Number[b] /\ Number[b] \in Nat /\ PrevId[b] \in Nat
        BY <1>3, <3>2, ParentAcceptableIs, BlockFacts, HeaderAssumption DEF Acceptable
      <4>2. w.latest # None /\ PrevId[b] = w.latest /\ BlockAt(w, w.latest) = Parent[b]
        BY <3>2, ExtendsTipIs
      <4>3. BlockAt(w, w.latest) = BlockAt(s, s.latest)
        BY <2>1, <2>2, <4>1, <4>2, BlockAtIs
      <4> QED
        BY <4>2, <4>3
    <3> QED
      BY <3>1, <3>2
  <2>4. \/ t = WithBlock(s, b)
        \/ /\ t = w
           /\ s.canonical[Number[b]] # None => PreferBlockVariant(b, s.canonical[Number[b]])
    BY <1>1, <1>3, <2>3, AddedIs DEF w
  <2>5. /\ WithBlock(s, b).latest = s.latest /\ WithBlock(s, b).latestHash = s.latestHash
        /\ WithBlock(s, b).canonical = s.canonical
    BY <1>3, WithBlockSound
  <2> QED
    BY <2>1, <2>4, <2>5
<1> QED
  BY <1>2, <1>3

\* Writing a stored chain and its links into the indexes, and moving the tip to its end.
LEMMA RewriteSound ==
  ASSUME NEW s, Sound(s), NEW h \in Hash,
         NEW blocks \in SUBSET s.stored, NEW links \in SUBSET s.stored, Genesis \notin links,
         h \in blocks
  PROVE  Sound(Rewrite(s, h, blocks, links)) /\ Rewrite(s, h, blocks, links).stored = s.stored
<1> DEFINE c  == PutCanonical(s.canonical, blocks)
           nh == PutNextHash(s.nextHash, links)
           ni == PutNextId(s.nextId, links)
           t  == [s EXCEPT !.canonical = c, !.nextHash = nh, !.nextId = ni]
<1>1. s \in StoreType /\ s.stored \subseteq Hash
  BY DEF Sound, StoreType
<1>2. Rewrite(s, h, blocks, links) = SetTip(t, h)
  <2>1. [s EXCEPT !.canonical = c].nextHash = s.nextHash
    BY <1>1 DEF StoreType
  <2>2. [s EXCEPT !.canonical = c, !.nextHash = nh].nextId = s.nextId
    BY <1>1 DEF StoreType
  <2> QED
    BY <2>1, <2>2 DEF Rewrite
<1>3. /\ c \in [Slot -> Hash \cup {None}]
      /\ \A n \in Slot : c[n] = s.canonical[n] \/ (c[n] \in blocks /\ Number[c[n]] = n)
  BY <1>1 DEF PutCanonical, StoreType
<1>4. /\ nh \in [Hash -> Hash \cup {None}]
      /\ \A p \in Hash : nh[p] = s.nextHash[p] \/ nh[p] \in links
  BY <1>1 DEF PutNextHash, StoreType
<1>5. /\ ni \in [Slot -> Slot \cup {None}]
      /\ \A n \in Slot : ni[n] = s.nextId[n] \/ n < ni[n]
  <2>1. ASSUME NEW n \in Slot, \E g \in links : PrevId[g] = n
        PROVE  ni[n] \in Slot /\ n < ni[n]
    <3> DEFINE g == CHOOSE g \in links : PrevId[g] = n
    <3>1. g \in links /\ PrevId[g] = n
      BY <2>1
    <3>2. ni[n] = Number[g]
      BY <2>1 DEF PutNextId
    <3> HIDE DEF g
    <3>3. g \in s.stored /\ g # Genesis /\ g \in Hash
      BY <1>1, <3>1
    <3>4. PrevId[g] < Number[g]
      BY <3>3 DEF Sound, Linked, ChildConnectsToParent
    <3> QED
      BY <3>1, <3>2, <3>3, <3>4, BlockFacts
  <2>2. \A n \in Slot : ~(\E g \in links : PrevId[g] = n) => ni[n] = s.nextId[n]
    BY DEF PutNextId
  <2>3. ni = [n \in Slot |-> ni[n]]
    BY DEF PutNextId
  <2>4. s.nextId \in [Slot -> Slot \cup {None}]
    BY <1>1 DEF StoreType
  <2> HIDE DEF ni
  <2> QED
    BY <2>1, <2>2, <2>3, <2>4
<1> HIDE DEF c, nh, ni
<1>6. t \in StoreType
  BY <1>1, <1>3, <1>4, <1>5 DEF StoreType
<1>7. /\ t.stored = s.stored /\ t.canonical = c /\ t.nextHash = nh /\ t.nextId = ni
      /\ t.first = s.first /\ t.latest = s.latest
  BY <1>1 DEF StoreType
<1> HIDE DEF t
<1>8. \A n \in Slot : s.canonical[n] # None => c[n] # None
  BY <1>1, <1>3, HashAssumption
<1>9. (s.first # None => s.first \in Slot) /\ (s.latest # None => s.latest \in Slot)
  BY <1>1 DEF StoreType
<1>10. Sound(t)
  BY <1>3, <1>4, <1>5, <1>6, <1>7, <1>8, <1>9 DEF Sound
<1>11. t.canonical[Number[h]] # None
  <2>1. Number[h] \in Slot
    BY BlockFacts
  <2>2. c[Number[h]] \in blocks
    BY <2>1 DEF c, PutCanonical
  <2> QED
    BY <1>1, <1>7, <2>2, HashAssumption
<1> QED
  BY <1>2, <1>7, <1>10, <1>11, SetTipSound

\* rebuildBestChainIndex finds a chain to install whenever it does not take the fast path.
LEMMA RebuildSound ==
  ASSUME NEW s, Sound(s)
  PROVE  Sound(Rebuild(s)) /\ Rebuild(s).stored = s.stored
<1>1. s \in StoreType /\ s.stored \in SUBSET Hash /\ Linked(s.stored)
  BY DEF Sound, StoreType
<1>2. CASE s.first = None
  <2>1. Rebuild(s) = s
    BY <1>2, RebuildIs DEF Rebuilt
  <2> QED
    BY <2>1
<1>3. CASE s.first # None /\ DB(s)!FastPathApplies
  <2> DEFINE c == DB(s)!AdvancedCheckpoint(HeadOf(s))
             t == [s EXCEPT !.checkpoint = c]
  <2>1. Rebuild(s) = t
    BY <1>3, RebuildIs DEF Rebuilt
  <2>2. HeadOf(s) # None
    BY <1>3 DEF DB!FastPathApplies, HeadOf, BlockAt, DB!None, None
  <2>3. HeadOf(s) \in Hash
    BY <2>2, BlockAtStored DEF HeadOf
  <2>4. c \in Hash \cup {None}
    BY <1>1, <2>3, CheckpointKnown DEF StoreType
  <2> HIDE DEF c
  <2>5. t \in StoreType
    BY <1>1, <2>4 DEF StoreType
  <2>6. /\ t.stored = s.stored /\ t.canonical = s.canonical /\ t.nextHash = s.nextHash
        /\ t.nextId = s.nextId /\ t.first = s.first /\ t.latest = s.latest
    BY <1>1 DEF StoreType
  <2> HIDE DEF t
  <2>7. Sound(t)
    BY <2>5, <2>6 DEF Sound
  <2> QED
    BY <2>1, <2>6, <2>7
<1>4. CASE s.first # None /\ ~DB(s)!FastPathApplies
  <2> DEFINE h == DB(s)!BestEnd
             t == [s EXCEPT !.nextHash = EmptyStore.nextHash, !.nextId = EmptyStore.nextId]
  <2>1. Rebuild(s) = Rewrite(t, h, Branch[h], Branch[h] \ {Genesis})
    BY <1>4, RebuildIs DEF Rebuilt, Once
  <2>2. s.stored # {}
    BY <1>4 DEF Sound
  <2>3. h \in s.stored
    BY <1>1, <2>2, BestEndStored
  <2>4. EmptyStore.nextHash = [g \in Hash |-> None] /\ EmptyStore.nextId = [n \in Slot |-> None]
    BY DEF EmptyStore
  <2> HIDE DEF h
  <2>5. t \in StoreType
    BY <1>1, <2>4 DEF StoreType
  <2>6. /\ t.stored = s.stored /\ t.canonical = s.canonical
        /\ t.nextHash = [g \in Hash |-> None] /\ t.nextId = [n \in Slot |-> None]
        /\ t.first = s.first /\ t.latest = s.latest
    BY <1>1, <2>4 DEF StoreType
  <2> HIDE DEF t
  <2>7. Sound(t)
    BY <2>5, <2>6 DEF Sound
  <2>8. Branch[h] \subseteq t.stored
    BY <1>1, <2>3, <2>6, BranchFacts
  <2>9. Sound(Rewrite(t, h, Branch[h], Branch[h] \ {Genesis}))
        /\ Rewrite(t, h, Branch[h], Branch[h] \ {Genesis}).stored = t.stored
    <3> DEFINE links == Branch[h] \ {Genesis}
    <3>1. links \in SUBSET t.stored /\ Genesis \notin links
      BY <2>8
    <3> HIDE DEF links
    <3>2. /\ Sound(Rewrite(t, h, Branch[h], links))
          /\ Rewrite(t, h, Branch[h], links).stored = t.stored
      BY <1>1, <2>3, <2>7, <2>8, <3>1, RewriteSound, BlockFacts
    <3> QED
      BY <3>2 DEF links
  <2> QED
    BY <2>1, <2>6, <2>9
<1> QED
  BY <1>2, <1>3, <1>4

LEMMA AdoptSound ==
  ASSUME NEW s, Sound(s), NEW h \in s.stored
  PROVE  Sound(AdoptStoredChain(s, h)) /\ AdoptStoredChain(s, h).stored = s.stored
<1> DEFINE C       == Branch[h]
           agrees  == {g \in C : \A f \in C : Number[f] <= Number[g] => s.canonical[Number[f]] = f}
           rewrite == {g \in C : \A f \in agrees : Number[f] <= Number[g]}
           links   == {g \in C : Parent[g] \in rewrite}
<1>1. s.stored \in SUBSET Hash /\ Linked(s.stored)
  BY DEF Sound, StoreType
<1>2. C \subseteq s.stored
  BY <1>1, BranchFacts
<1>3. rewrite \in SUBSET s.stored /\ links \in SUBSET s.stored
  BY <1>2
<1>4. Genesis \notin links
  BY <1>1, <1>3, HeaderAssumption, HashAssumption
<1>5. h \in rewrite
  BY <1>1, <1>2, BranchFacts, BlockFacts
<1>6. AdoptStoredChain(s, h) \in {s, Rewrite(s, h, rewrite, links)}
  BY DEF AdoptStoredChain
<1> HIDE DEF rewrite, links
<1>7. Sound(Rewrite(s, h, rewrite, links)) /\ Rewrite(s, h, rewrite, links).stored = s.stored
  BY <1>1, <1>3, <1>4, <1>5, RewriteSound
<1> QED
  BY <1>6, <1>7

LEMMA AdoptTipSound ==
  ASSUME NEW s, Sound(s), NEW h
  PROVE  /\ Sound(AdoptStoredPeerTip(s, h).store)
         /\ AdoptStoredPeerTip(s, h).store.stored = s.stored
         /\ AdoptStoredPeerTip(s, h).changed \in BOOLEAN
         /\ AdoptStoredPeerTip(s, h).ok \in BOOLEAN
<1>1. CASE h \notin s.stored \/ s.first = None
  <2>1. AdoptStoredPeerTip(s, h) = [store |-> s, ok |-> FALSE, changed |-> FALSE]
    BY <1>1 DEF AdoptStoredPeerTip, Once
  <2> QED
    BY <2>1
<1>2. CASE ~(h \notin s.stored \/ s.first = None)
  <2> DEFINE t == AdoptStoredChain(s, h)
  <2>1. AdoptStoredPeerTip(s, h) =
          [store |-> t, changed |-> Number[h] > s.latest,
           ok |-> Number[h] > s.latest \/ (Number[h] = s.latest /\ t.latestHash = h)]
    BY <1>2 DEF AdoptStoredPeerTip, Once
  <2>2. Sound(t) /\ t.stored = s.stored
    BY <1>2, AdoptSound
  <2> HIDE DEF t
  <2> QED
    BY <2>1, <2>2
<1> QED
  BY <1>1, <1>2

LEMMA LastSlot == Max(Slot) \in Nat /\ \A n \in Slot : n <= Max(Slot)
<1> DEFINE num == [h \in Hash |-> Number[h]]
<1>1. num \in [Hash -> Nat]
  BY BlockFacts
<1>2. PICK h \in Hash : \A k \in Hash : num[k] <= num[h]
  <2> HIDE DEF num
  <2> QED
    BY <1>1, HashAssumption, GreatestValue
<1>3. \A k \in Hash : Number[k] <= Number[h] /\ Number[k] \in Nat
  BY <1>2, BlockFacts
<1>4. \E x \in Slot : \A y \in Slot : x >= y
  BY <1>3 DEF Slot
<1>5. Max(Slot) \in Slot /\ \A y \in Slot : Max(Slot) >= y
  BY <1>4 DEF Max
<1> QED
  BY <1>5, SlotNumbers

\* A batch of blocks is stored one after the other.
LEMMA StoreBlocksSound ==
  ASSUME NEW s, Sound(s), NEW blocks \in SUBSET Hash
  PROVE  Sound(StoreBlocks(s, blocks)) /\ s.stored \subseteq StoreBlocks(s, blocks).stored
<1> DEFINE N == Max(Slot)
           V == {t \in StoreType : Sound(t) /\ s.stored \subseteq t.stored}
           After(n, v) == IF \E b \in blocks : Number[b] = n
                          THEN AddBlock(v, CHOOSE b \in blocks : Number[b] = n) ELSE v
           step == [n \in 1..N |-> [v \in V |-> After(n, v)]]
<1>1. N \in Nat
  BY LastSlot
<1>2. s \in V
  BY DEF Sound
<1>3. ASSUME NEW n \in 1..N, NEW v \in V PROVE After(n, v) \in V
  <2>1. CASE \E b \in blocks : Number[b] = n
    <3> DEFINE b == CHOOSE b \in blocks : Number[b] = n
    <3>1. b \in Hash
      BY <2>1
    <3>2. After(n, v) = AddBlock(v, b)
      BY <2>1
    <3> HIDE DEF b
    <3>3. Sound(AddBlock(v, b)) /\ v.stored \subseteq AddBlock(v, b).stored
      BY <3>1, AddBlockSound
    <3> QED
      BY <3>2, <3>3 DEF Sound
  <2>2. CASE ~\E b \in blocks : Number[b] = n
    <3>1. After(n, v) = v
      BY <2>2
    <3> QED
      BY <3>1
  <2> QED
    BY <2>1, <2>2
<1> HIDE DEF N, V, After
<1>4. IsStep(step, N, V)
  BY <1>3 DEF IsStep
<1>5. PICK f : IsRecursion(f, N, V, s, step)
  <2> HIDE DEF step
  <2> QED
    BY <1>1, <1>2, <1>4, RecursionUpTo
<1> DEFINE Is(u) == u = [n \in 0..N |-> IF n = 0 THEN s ELSE After(n, u[n - 1])]
           upTo == CHOOSE u : Is(u)
<1>6. Is(f)
  <2>1. \A n \in 0..N : f[n] = IF n = 0 THEN s ELSE After(n, f[n - 1])
    <3> SUFFICES ASSUME NEW n \in 0..N, n # 0 PROVE f[n] = After(n, f[n - 1])
      BY <1>5 DEF IsRecursion
    <3>1. n \in 1..N /\ n - 1 \in 0..N
      BY <1>1
    <3> QED
      BY <1>5, <3>1 DEF IsRecursion
  <2> QED
    BY <1>5, <2>1 DEF IsRecursion
<1>7. Is(upTo)
  <2> HIDE DEF Is
  <2> QED
    BY <1>6
<1> HIDE DEF upTo
<1>8. \A n \in 0..N : upTo[n] = IF n = 0 THEN s ELSE After(n, upTo[n - 1])
  BY <1>7
<1> DEFINE T == {n \in 0..N : upTo[n] \in V}
<1>9. T = 0..N
  <2>1. 0 \in T
    <3>1. 0 \in 0..N
      BY <1>1
    <3> QED
      BY <1>2, <1>8, <3>1
  <2>2. ASSUME NEW n \in 1..N, n - 1 \in T PROVE n \in T
    <3>1. n \in 0..N /\ n # 0
      BY <1>1
    <3> QED
      BY <1>3, <1>8, <2>2, <3>1
  <2>3. T \in SUBSET (0..N)
    OBVIOUS
  <2> HIDE DEF T
  <2> QED
    BY <1>1, <2>1, <2>2, <2>3, CountingUp
<1>10. upTo[N] \in V
  BY <1>1, <1>9
<1>11. StoreBlocks(s, blocks) = upTo[N]
  BY DEF StoreBlocks, Once, StoreParsedBlocks, upTo, After, N
<1> QED
  BY <1>10, <1>11 DEF V

\* What /api/blocks/submit makes of the peer's store.
LEMMA SubmitSound ==
  ASSUME NEW s, Sound(s), NEW b \in Hash
  PROVE  /\ Sound(Submit(s, b).store)
         /\ s.stored \subseteq Submit(s, b).store.stored
         /\ Submit(s, b).accepted \in BOOLEAN
<1> DEFINE a == AddBlock(s, b)
           r == IF a # s /\ a.latest < Number[b] THEN Rebuild(a) ELSE a
           accepts(x) == BlockAt(x, Number[b]) = b /\ x.latest >= Number[b]
<1>1. Sound(a) /\ s.stored \subseteq a.stored
  BY AddBlockSound
<1>2. Sound(r) /\ r.stored = a.stored
  <2> HIDE DEF a
  <2> QED
    BY <1>1, RebuildSound
<1>3. Submit(s, b) = [store |-> r, accepted |-> accepts(a) \/ accepts(r),
                      relay |-> a # s /\ accepts(a)]
  BY DEF Submit, Once
<1> HIDE DEF a, r
<1> QED
  BY <1>1, <1>2, <1>3

\* The pushed blocks are submitted one after the other.
LEMMA SubmitAllSound ==
  ASSUME NEW s, Sound(s), NEW blocks \in SUBSET Hash
  PROVE  /\ Sound(SubmitAll(s, blocks).store)
         /\ s.stored \subseteq SubmitAll(s, blocks).store.stored
         /\ SubmitAll(s, blocks).relay \in SUBSET Hash
<1> DEFINE N == Max(Slot)
           V == {r \in [store : StoreType, accepted : BOOLEAN, relay : SUBSET Hash] :
                   Sound(r.store) /\ s.stored \subseteq r.store.stored}
           v0 == [store |-> s, accepted |-> TRUE, relay |-> {}]
           After(n, v) == IF \E b \in blocks : Number[b] = n
                          THEN Once(v, LAMBDA r : SubmitNext(r, CHOOSE b \in blocks : Number[b] = n))
                          ELSE v
           step == [n \in 1..N |-> [v \in V |-> After(n, v)]]
<1>1. N \in Nat
  BY LastSlot
<1>2. v0 \in V
  BY DEF Sound
<1>3. ASSUME NEW n \in 1..N, NEW v \in V PROVE After(n, v) \in V
  <2>1. CASE \E b \in blocks : Number[b] = n
    <3> DEFINE b == CHOOSE b \in blocks : Number[b] = n
    <3>1. b \in Hash
      BY <2>1
    <3>2. After(n, v) = SubmitNext(v, b)
      BY <2>1 DEF Once
    <3> HIDE DEF b, After
    <3>3. CASE ~v.accepted
      BY <3>2, <3>3 DEF SubmitNext
    <3>4. CASE v.accepted
      <4> DEFINE x == Submit(v.store, b)
      <4>1. SubmitNext(v, b) = [store |-> x.store, accepted |-> x.accepted,
                                relay |-> v.relay \cup (IF x.relay THEN {b} ELSE {})]
        BY <3>4 DEF SubmitNext, Once
      <4>2. Sound(x.store) /\ v.store.stored \subseteq x.store.stored /\ x.accepted \in BOOLEAN
        BY <3>1, SubmitSound
      <4> HIDE DEF x
      <4>3. x.store \in StoreType
        BY <4>2 DEF Sound
      <4> QED
        BY <3>1, <3>2, <4>1, <4>2, <4>3
    <3> QED
      BY <3>3, <3>4
  <2>2. CASE ~\E b \in blocks : Number[b] = n
    <3>1. After(n, v) = v
      BY <2>2
    <3> QED
      BY <3>1
  <2> QED
    BY <2>1, <2>2
<1> HIDE DEF N, V, v0, After
<1>4. IsStep(step, N, V)
  BY <1>3 DEF IsStep
<1>5. PICK f : IsRecursion(f, N, V, v0, step)
  <2> HIDE DEF step
  <2> QED
    BY <1>1, <1>2, <1>4, RecursionUpTo
<1> DEFINE Is(u) == u = [n \in 0..N |-> IF n = 0 THEN v0 ELSE After(n, u[n - 1])]
           upTo == CHOOSE u : Is(u)
<1>6. Is(f)
  <2>1. \A n \in 0..N : f[n] = IF n = 0 THEN v0 ELSE After(n, f[n - 1])
    <3> SUFFICES ASSUME NEW n \in 0..N, n # 0 PROVE f[n] = After(n, f[n - 1])
      BY <1>5 DEF IsRecursion
    <3>1. n \in 1..N /\ n - 1 \in 0..N
      BY <1>1
    <3> QED
      BY <1>5, <3>1 DEF IsRecursion
  <2> QED
    BY <1>5, <2>1 DEF IsRecursion
<1>7. Is(upTo)
  <2> HIDE DEF Is
  <2> QED
    BY <1>6
<1> HIDE DEF upTo
<1>8. \A n \in 0..N : upTo[n] = IF n = 0 THEN v0 ELSE After(n, upTo[n - 1])
  BY <1>7
<1> DEFINE T == {n \in 0..N : upTo[n] \in V}
<1>9. T = 0..N
  <2>1. 0 \in T
    <3>1. 0 \in 0..N
      BY <1>1
    <3> QED
      BY <1>2, <1>8, <3>1
  <2>2. ASSUME NEW n \in 1..N, n - 1 \in T PROVE n \in T
    <3>1. n \in 0..N /\ n # 0
      BY <1>1
    <3> QED
      BY <1>3, <1>8, <2>2, <3>1
  <2>3. T \in SUBSET (0..N)
    OBVIOUS
  <2> HIDE DEF T
  <2> QED
    BY <1>1, <2>1, <2>2, <2>3, CountingUp
<1>10. upTo[N] \in V
  BY <1>1, <1>9
<1>11. SubmitAll(s, blocks) = upTo[N]
  BY DEF SubmitAll, Once, upTo, After, v0, N
<1> QED
  BY <1>10, <1>11 DEF V

\* The sets of blocks asked of a peer in a fork repair.
LEMMA ForkRepairSound ==
  ASSUME NEW n \in Node, NEW lost, Sound(store[n]), Sound(store[sync[n].peer])
  PROVE  Sound(ForkRepair(n, lost)) /\ store[n].stored \subseteq ForkRepair(n, lost).stored
<1> DEFINE j == sync[n]
           p == store[j.peer]
           tip == BlockAt(store[n], j.local)
           parent == IF tip \in {None, Genesis} THEN {} ELSE ChainFrom(p, PrevId[tip], j.want)
           s == IF parent = {} THEN store[n] ELSE Rebuild(StoreBlocks(store[n], parent))
           more(S) == Rebuild(StoreBlocks(s, S))
<1>1. p.stored \subseteq Hash
  BY DEF Sound, StoreType
<1>2. parent \in SUBSET Hash
  BY <1>1, ReplyStored
<1> HIDE DEF parent
<1>3. Sound(s) /\ store[n].stored \subseteq s.stored
  BY <1>2, StoreBlocksSound, RebuildSound
<1> HIDE DEF s
<1>4. ASSUME NEW S \in SUBSET Hash
      PROVE  Sound(more(S)) /\ s.stored \subseteq more(S).stored
  BY <1>3, StoreBlocksSound, RebuildSound
<1>5. RangeTo(p, j.want) \in SUBSET Hash /\ ChainFrom(p, s.first, j.want) \in SUBSET Hash
  BY <1>1, ReplyStored
<1>6. ForkRepair(n, lost) \in {s, more(RangeTo(p, j.want)), more(ChainFrom(p, s.first, j.want))}
  BY DEF ForkRepair, Once, s, parent
<1> QED
  BY <1>3, <1>4, <1>5, <1>6

-----------------------------------------------------------------------------
(* The nodes.                                                              *)

SyncType ==
  [phase : {"idle", "repair", "first", "pull", "fork", "mismatch", "push"},
   peer : Node \cup {None}, want : Hash \cup {None}, local : Slot \cup {None}, changed : BOOLEAN]

\* A sync under way has a peer and, until the push, a block that it wants.
SyncOK(j) ==
  /\ j \in SyncType
  /\ j.phase # "idle" => j.peer \in Node
  /\ j.phase \notin {"idle", "push"} => j.want \in Hash

StoresSound == store \in [Node -> StoreType] /\ \A n \in Node : Sound(store[n])
SyncsSound  == sync \in [Node -> SyncType] /\ \A n \in Node : SyncOK(sync[n])

\* A peer has every block that it was seen to have as its tip, although that may be long ago.
SeenSound ==
  /\ seen \in [Node -> [Node -> Hash \cup {None}]]
  /\ \A n, p \in Node : seen[n][p] # None => seen[n][p] \in store[p].stored

PassType ==
  [phase : {"idle", "top", "judged", "add"}, prev : Hash \cup {None}, judged : BOOLEAN,
   block : Hash \cup {None}]

\* A pass under way has its previous block, and a block that was made is a child of it.  Once
\* canCreateBlocks has judged that previous block, a peer has it.
PassOK(n) ==
  /\ pass[n].phase # "idle" => pass[n].prev \in Hash
  /\ pass[n].phase = "add" => pass[n].block \in Hash /\ Parent[pass[n].block] = pass[n].prev
  /\ pass[n].phase \in {"judged", "add"} /\ pass[n].judged /\ peers[n] # {} =>
       \E p \in peers[n] : pass[n].prev \in store[p].stored

PassesSound == pass \in [Node -> PassType] /\ \A n \in Node : PassOK(n)

RestSound ==
  /\ peers \in [Node -> SUBSET Node]
  /\ backoff \in [Node -> BOOLEAN]
  /\ stable \in [Node -> [tip : Hash \cup {None}, checks : 0..RequiredChecks]]
  /\ built \in [Node -> Slot \cup {None}]
  /\ gossip \subseteq Node \X Node \X Hash
  /\ slot \in Slot
  /\ faults \in 0..MaxFaults

\* The inductive invariant.
NetInv == StoresSound /\ SyncsSound /\ SeenSound /\ PassesSound /\ RestSound

\* A step replaces the store of node n by one with at least its blocks.
StoreMoves(n) ==
  \E t : Sound(t) /\ store[n].stored \subseteq t.stored /\ store' = [store EXCEPT ![n] = t]

SyncMoves(n) == \E k : SyncOK(k) /\ sync' = [sync EXCEPT ![n] = k]

LEMMA StoresKept ==
  ASSUME NetInv, NEW n \in Node, StoreMoves(n)
  PROVE  StoresSound' /\ \A p \in Node : store[p].stored \subseteq store'[p].stored
<1>1. PICK t : Sound(t) /\ store[n].stored \subseteq t.stored /\ store' = [store EXCEPT ![n] = t]
  BY DEF StoreMoves
<1>2. t \in StoreType
  BY <1>1 DEF Sound
<1> QED
  BY <1>1, <1>2 DEF NetInv, StoresSound

LEMMA SyncsKept ==
  ASSUME NetInv, NEW n \in Node, SyncMoves(n)
  PROVE  SyncsSound'
<1>1. PICK k : SyncOK(k) /\ sync' = [sync EXCEPT ![n] = k]
  BY DEF SyncMoves
<1>2. k \in SyncType
  BY <1>1 DEF SyncOK
<1> QED
  BY <1>1, <1>2 DEF NetInv, SyncsSound

LEMMA StoreFacts ==
  ASSUME NetInv, NEW n \in Node
  PROVE  /\ Sound(store[n]) /\ store[n] \in StoreType /\ store[n].stored \subseteq Hash
         /\ store[n].latest \in Slot \cup {None}
         /\ Head(n) # None => Head(n) \in store[n].stored /\ Head(n) \in Hash
<1>1. Sound(store[n])
  BY DEF NetInv, StoresSound
<1>2. Head(n) # None => Head(n) \in store[n].stored /\ Head(n) \in Hash
  BY <1>1, BlockAtStored DEF Head, HeadOf
<1> QED
  BY <1>1, <1>2 DEF Sound, StoreType

\* What was seen of a peer stays true when stores only grow.
LEMMA SeenKept ==
  ASSUME NetInv, UNCHANGED seen, \A p \in Node : store[p].stored \subseteq store'[p].stored
  PROVE  SeenSound'
BY DEF NetInv, SeenSound

LEMMA SeenNoted ==
  ASSUME NetInv, NEW n \in Node, NEW p \in Node, NEW tip, tip \in {None, Head(p)}, Saw(n, p, tip),
         \A q \in Node : store[q].stored \subseteq store'[q].stored
  PROVE  SeenSound'
<1>1. tip # None => tip \in store[p].stored /\ tip \in Hash
  BY StoreFacts
<1> QED
  BY <1>1 DEF NetInv, SeenSound, Saw

\* A pass that does not go on, while the stores only grow; and one that ends.
LEMMA PassesKept ==
  ASSUME NetInv, UNCHANGED <<peers, pass>>, \A p \in Node : store[p].stored \subseteq store'[p].stored
  PROVE  PassesSound'
<1>1. pass' \in [Node -> PassType]
  BY DEF NetInv, PassesSound
<1>2. ASSUME NEW n \in Node PROVE PassOK(n)'
  <2>1. PassOK(n) /\ peers[n] \subseteq Node
    BY DEF NetInv, PassesSound, RestSound
  <2> QED
    BY <2>1 DEF PassOK
<1> QED
  BY <1>1, <1>2 DEF PassesSound

LEMMA PassEnds ==
  ASSUME NetInv, NEW n \in Node, pass' = [pass EXCEPT ![n] = NoPass], UNCHANGED peers,
         \A p \in Node : store[p].stored \subseteq store'[p].stored
  PROVE  PassesSound'
<1>1. NoPass \in PassType
  BY DEF NoPass, PassType
<1>2. pass' \in [Node -> PassType]
  BY <1>1 DEF NetInv, PassesSound
<1>3. ASSUME NEW m \in Node PROVE PassOK(m)'
  <2>1. PassOK(m) /\ peers[m] \subseteq Node
    BY DEF NetInv, PassesSound, RestSound
  <2>2. CASE m = n
    <3>1. pass'[m] = NoPass
      BY <2>2 DEF NetInv, PassesSound
    <3> QED
      BY <3>1 DEF PassOK, NoPass
  <2>3. CASE m # n
    <3>1. pass'[m] = pass[m]
      BY <2>3 DEF NetInv, PassesSound
    <3> QED
      BY <2>1, <3>1 DEF PassOK
  <2> QED
    BY <2>2, <2>3
<1> QED
  BY <1>2, <1>3 DEF PassesSound

\* A pass that goes on.
LEMMA PassGoesOn ==
  ASSUME NetInv, NEW n \in Node, NEW k \in PassType, pass' = [pass EXCEPT ![n] = k],
         UNCHANGED <<peers, store>>,
         k.prev \in Hash,
         k.phase = "add" => k.block \in Hash /\ Parent[k.block] = k.prev,
         k.phase \in {"judged", "add"} /\ k.judged /\ peers[n] # {} =>
           \E p \in peers[n] : k.prev \in store[p].stored
  PROVE  PassesSound'
<1>1. pass' \in [Node -> PassType]
  BY DEF NetInv, PassesSound
<1>2. ASSUME NEW m \in Node PROVE PassOK(m)'
  <2>1. PassOK(m)
    BY DEF NetInv, PassesSound
  <2>2. CASE m = n
    <3>1. pass'[m] = k
      BY <2>2 DEF NetInv, PassesSound
    <3> QED
      BY <2>2, <3>1 DEF PassOK
  <2>3. CASE m # n
    <3>1. pass'[m] = pass[m]
      BY <2>3 DEF NetInv, PassesSound
    <3> QED
      BY <2>1, <3>1 DEF PassOK
  <2> QED
    BY <2>2, <2>3
<1> QED
  BY <1>1, <1>2 DEF PassesSound

LEMMA BackoffKept ==
  ASSUME NetInv, NEW n \in Node, Progress(n) \/ Stall(n) \/ UNCHANGED backoff
  PROVE  backoff' \in [Node -> BOOLEAN]
BY DEF NetInv, RestSound, Progress, Stall

LEMMA PushOK ==
  ASSUME NEW p \in Node
  PROVE  SyncOK(ToPush(p))
BY DEF SyncOK, SyncType, ToPush, Idle

LEMMA IdleOK == SyncOK(Idle)
BY DEF SyncOK, SyncType, Idle

LEMMA GotoMoves ==
  ASSUME NEW n, NEW s, Sound(s), store[n].stored \subseteq s.stored, NEW k, SyncOK(k), Goto(n, s, k)
  PROVE  StoreMoves(n) /\ SyncMoves(n)
BY DEF Goto, StoreMoves, SyncMoves

\* The head of the pull loop.
LEMMA LoopMoves ==
  ASSUME NetInv, NEW n \in Node, NEW s, Sound(s), store[n].stored \subseteq s.stored,
         NEW j \in SyncType, j.peer \in Node, j.want \in Hash, Loop(n, s, j)
  PROVE  StoreMoves(n) /\ SyncMoves(n) /\ backoff' \in [Node -> BOOLEAN]
<1>1. CASE j.local # None /\ j.local < Number[j.want]
  <2> DEFINE k == [j EXCEPT !.phase = "pull"]
  <2>1. SyncOK(k)
    BY DEF SyncOK, SyncType
  <2>2. Goto(n, s, k) /\ (Progress(n) \/ UNCHANGED backoff)
    BY <1>1 DEF Loop
  <2> HIDE DEF k
  <2> QED
    BY <2>1, <2>2, GotoMoves, BackoffKept
<1>2. CASE ~(j.local # None /\ j.local < Number[j.want])
  <2> DEFINE a == AdoptStoredPeerTip(s, j.want)
  <2>1. Goto(n, a.store, ToPush(j.peer)) /\ (Progress(n) \/ Stall(n) \/ UNCHANGED backoff)
    BY <1>2 DEF Loop
  <2>2. Sound(a.store) /\ a.store.stored = s.stored
    BY AdoptTipSound
  <2> HIDE DEF a
  <2> QED
    BY <2>1, <2>2, PushOK, GotoMoves, BackoffKept
<1> QED
  BY <1>1, <1>2

LEMMA BreakMoves ==
  ASSUME NetInv, NEW n \in Node, NEW s, Sound(s), store[n].stored \subseteq s.stored,
         NEW j \in SyncType, j.peer \in Node, j.want \in Hash, Break(n, s, j)
  PROVE  StoreMoves(n) /\ SyncMoves(n) /\ backoff' \in [Node -> BOOLEAN]
<1> DEFINE k == [j EXCEPT !.local = Number[j.want]]
<1>1. k \in SyncType /\ k.peer \in Node /\ k.want \in Hash
  BY BlockFacts DEF SyncType
<1>2. Loop(n, s, k)
  BY DEF Break
<1> HIDE DEF k
<1> QED
  BY <1>1, <1>2, LoopMoves

LEMMA FaultKept ==
  ASSUME NetInv, Fault \/ UNCHANGED faults
  PROVE  faults' \in 0..MaxFaults
BY NodeAssumption DEF NetInv, RestSound, Fault

\* A stage of syncFromPeer that changes the node's store, its own state and the backoff.
LEMMA StageKeeps ==
  ASSUME NetInv, NEW n \in Node, StoreMoves(n), SyncMoves(n), backoff' \in [Node -> BOOLEAN],
         UNCHANGED <<net, seen, stable, pass, built, gossip>>, Fault \/ UNCHANGED faults
  PROVE  NetInv'
<1>1. StoresSound' /\ \A p \in Node : store[p].stored \subseteq store'[p].stored
  BY StoresKept
<1>2. SyncsSound'
  BY SyncsKept
<1>3. SeenSound'
  BY <1>1, SeenKept
<1>4. faults' \in 0..MaxFaults
  BY FaultKept
<1>5. RestSound'
  BY <1>4 DEF NetInv, RestSound, net
<1>6. PassesSound'
  BY <1>1, PassesKept DEF net
<1> QED
  BY <1>1, <1>2, <1>3, <1>5, <1>6 DEF NetInv

LEMMA JobFacts ==
  ASSUME NetInv, NEW n \in Node
  PROVE  /\ sync[n] \in SyncType
         /\ sync[n].phase # "idle" => sync[n].peer \in Node
         /\ sync[n].phase \notin {"idle", "push"} => sync[n].want \in Hash
         /\ sync[n].local \in Slot \cup {None}
BY DEF NetInv, SyncsSound, SyncOK, SyncType

LEMMA SyncBeginKeeps ==
  ASSUME NetInv, NEW n \in Node, NEW p \in Node, SyncBegin(n, p) \/ SyncBeginLost(n, p)
  PROVE  NetInv'
<1>1. PICK tip \in {None, Head(p)} : Saw(n, p, tip)
  BY DEF SyncBegin, SyncBeginLost
<1>2. PICK k : Goto(n, store[n], k) /\ SyncOK(k)
  <2>1. CASE Goto(n, store[n], ToPush(p))
    BY <2>1, PushOK
  <2>2. CASE ~Goto(n, store[n], ToPush(p))
    <3> DEFINE k == [Idle EXCEPT !.phase = "repair", !.peer = p, !.want = Head(p),
                                 !.local = store[n].latest]
    <3>1. Goto(n, store[n], k) /\ Head(p) # None
      BY <2>2 DEF SyncBegin, SyncBeginLost
    <3>2. Head(p) \in Hash /\ store[n].latest \in Slot \cup {None}
      BY <3>1, StoreFacts
    <3>3. SyncOK(k)
      BY <3>2 DEF SyncOK, SyncType, Idle
    <3> QED
      BY <3>1, <3>3
  <2> QED
    BY <2>1, <2>2
<1>3. Sound(store[n])
  BY StoreFacts
<1>4. StoreMoves(n) /\ SyncMoves(n)
  BY <1>2, <1>3, GotoMoves
<1>5. StoresSound' /\ \A q \in Node : store[q].stored \subseteq store'[q].stored
  BY <1>4, StoresKept
<1>6. SyncsSound'
  BY <1>4, SyncsKept
<1>7. SeenSound'
  BY <1>1, <1>5, SeenNoted
<1>8. backoff' \in [Node -> BOOLEAN]
  BY BackoffKept DEF SyncBegin, SyncBeginLost
<1>9. faults' \in 0..MaxFaults
  BY FaultKept DEF SyncBegin, SyncBeginLost
<1>10. RestSound'
  BY <1>8, <1>9 DEF SyncBegin, SyncBeginLost, NetInv, RestSound, net
<1>11. PassesSound'
  BY <1>5, PassesKept DEF SyncBegin, SyncBeginLost, net
<1> QED
  BY <1>5, <1>6, <1>7, <1>10, <1>11 DEF NetInv

LEMMA SyncRepairKeeps ==
  ASSUME NetInv, NEW n \in Node, SyncRepair(n)
  PROVE  NetInv'
<1> DEFINE j == sync[n]
           a == AdoptStoredPeerTip(store[n], j.want)
           s == IF a.ok THEN a.store ELSE Rebuild(a.store)
           local == IF a.ok \/ s.latest > j.local THEN s.latest ELSE j.local
           changed == IF a.ok THEN a.changed ELSE s.latest > j.local
           next == [j EXCEPT !.local = local, !.changed = changed]
<1>1. j.phase = "repair"
  BY DEF SyncRepair
<1>2. /\ j \in SyncType /\ j.peer \in Node /\ j.want \in Hash /\ j.local \in Slot \cup {None}
  BY <1>1, JobFacts
<1>3. Sound(store[n])
  BY StoreFacts
<1>4. Sound(a.store) /\ a.store.stored = store[n].stored /\ a.changed \in BOOLEAN /\ a.ok \in BOOLEAN
  BY <1>3, AdoptTipSound
<1>5. IF next.local < Number[j.want]
      THEN /\ Goto(n, s, [next EXCEPT !.phase = IF s.first = None THEN "first" ELSE "pull"])
           /\ UNCHANGED backoff
      ELSE IF BlockAt(s, next.local) # j.want
      THEN Goto(n, s, [next EXCEPT !.phase = "mismatch"]) /\ UNCHANGED backoff
      ELSE Goto(n, s, ToPush(j.peer)) /\ Progress(n)
  <2> DEFINE moved(x, y) == [j EXCEPT !.local = IF x.ok \/ y.latest > @ THEN y.latest ELSE @,
                                      !.changed = IF x.ok THEN x.changed ELSE y.latest > j.local]
             after(y, k) ==
               IF k.local < Number[j.want]
               THEN /\ Goto(n, y, [k EXCEPT !.phase = IF y.first = None THEN "first" ELSE "pull"])
                    /\ UNCHANGED backoff
               ELSE IF BlockAt(y, k.local) # j.want
               THEN Goto(n, y, [k EXCEPT !.phase = "mismatch"]) /\ UNCHANGED backoff
               ELSE Goto(n, y, ToPush(j.peer)) /\ Progress(n)
  <2>1. \E x \in {AdoptStoredPeerTip(store[n], j.want)} :
        \E y \in {IF x.ok THEN x.store ELSE Rebuild(x.store)} : after(y, moved(x, y))
    BY DEF SyncRepair
  <2> HIDE DEF after
  <2>2. after(s, moved(a, s))
    BY <2>1
  <2>3. moved(a, s) = next
    OBVIOUS
  <2>4. after(s, next)
    BY <2>2, <2>3
  <2> HIDE DEF next, s, j
  <2> QED
    BY <2>4 DEF after
<1> HIDE DEF a
<1>6. Sound(s) /\ s.stored = store[n].stored
  BY <1>4, RebuildSound
<1> HIDE DEF s
<1>7. s.latest \in Slot \cup {None}
  BY <1>6 DEF Sound, StoreType
<1>8. local \in Slot \cup {None} /\ changed \in BOOLEAN
  <2>1. local \in Slot \cup {None}
    BY <1>2, <1>4, <1>7
  <2>2. (s.latest > j.local) \in BOOLEAN
    OBVIOUS
  <2>3. changed \in BOOLEAN
    BY <1>4, <2>2
  <2> QED
    BY <2>1, <2>3
<1> HIDE DEF local, changed
<1>9. next \in SyncType /\ next.peer = j.peer /\ next.want = j.want
  BY <1>2, <1>8 DEF SyncType
<1> HIDE DEF next, j
<1>10. PICK k : Goto(n, s, k) /\ SyncOK(k)
  <2>1. \A ph \in {"first", "pull", "mismatch"} : SyncOK([next EXCEPT !.phase = ph])
    BY <1>2, <1>9 DEF SyncOK, SyncType
  <2>2. SyncOK(ToPush(j.peer))
    BY <1>2, PushOK
  <2> QED
    BY <1>5, <2>1, <2>2
<1>11. StoreMoves(n) /\ SyncMoves(n)
  BY <1>6, <1>10, GotoMoves
<1>12. backoff' \in [Node -> BOOLEAN]
  BY <1>5, BackoffKept
<1> QED
  BY <1>11, <1>12, StageKeeps DEF SyncRepair

LEMMA SyncFirstKeeps ==
  ASSUME NetInv, NEW n \in Node, NEW lost, SyncFirst(n, lost)
  PROVE  NetInv'
<1> DEFINE j == sync[n]
           p == store[j.peer]
           reply == IF lost THEN {} ELSE {BlockAt(p, p.first)} \ {None}
           s == StoreBlocks(store[n], reply)
           c == j.changed \/ s.stored # store[n].stored
           k == [j EXCEPT !.changed = c, !.local = s.latest]
<1>1. j.phase = "first"
  BY DEF SyncFirst
<1>2. j \in SyncType /\ j.peer \in Node /\ j.want \in Hash
  BY <1>1, JobFacts
<1>3. Sound(store[n]) /\ Sound(p)
  BY <1>2, StoreFacts
<1>4. reply \in SUBSET Hash
  BY <1>3, BlockAtStored
<1>5. Loop(n, s, k)
  <2> DEFINE after(y) == Loop(n, y, [j EXCEPT !.changed = @ \/ y.stored # store[n].stored, !.local = y.latest])
  <2>1. \E y \in {StoreBlocks(store[n], reply)} : after(y)
    BY DEF SyncFirst
  <2> HIDE DEF after
  <2>2. after(s)
    BY <2>1
  <2> QED
    BY <2>2 DEF after
<1> HIDE DEF reply
<1>6. Sound(s) /\ store[n].stored \subseteq s.stored
  BY <1>3, <1>4, StoreBlocksSound
<1> HIDE DEF s
<1>7. s.latest \in Slot \cup {None} /\ c \in BOOLEAN
  BY <1>6 DEF Sound, StoreType
<1> HIDE DEF c
<1>8. k \in SyncType /\ k.peer = j.peer /\ k.want = j.want
  BY <1>2, <1>7 DEF SyncType
<1> HIDE DEF k
<1>9. StoreMoves(n) /\ SyncMoves(n) /\ backoff' \in [Node -> BOOLEAN]
  BY <1>2, <1>5, <1>6, <1>8, LoopMoves
<1> QED
  BY <1>9, StageKeeps DEF SyncFirst

LEMMA SyncPullKeeps ==
  ASSUME NetInv, NEW n \in Node, NEW lost, SyncPull(n, lost)
  PROVE  NetInv'
<1> DEFINE j == sync[n]
           p == store[j.peer]
           batch == BatchAfter(p, BlockAt(store[n], j.local))
           blocks == IF lost THEN {} ELSE IF batch # {} THEN batch ELSE BlockAfter(p, j.local)
           kept == StoreBlocks(store[n], blocks)
           s == IF kept.latest > j.local THEN kept ELSE Rebuild(kept)
           c == j.changed \/ kept.stored # store[n].stored \/ s.latest > kept.latest
           next == [j EXCEPT !.changed = c]
<1>1. j.phase = "pull"
  BY DEF SyncPull
<1>2. j \in SyncType /\ j.peer \in Node /\ j.want \in Hash
  BY <1>1, JobFacts
<1>3. Sound(store[n]) /\ Sound(p) /\ p.stored \subseteq Hash
  BY <1>2, StoreFacts
<1>4. blocks \in SUBSET Hash
  BY <1>3, BatchStored, ReplyStored
<1>5. IF s.latest > j.local THEN Loop(n, s, [next EXCEPT !.local = s.latest])
      ELSE Goto(n, s, [next EXCEPT !.phase = "fork"]) /\ UNCHANGED backoff
  <2> DEFINE moved(x, y) == [j EXCEPT !.changed = @ \/ x.stored # store[n].stored
                                                    \/ y.latest > x.latest]
             after(y, k) == IF y.latest > j.local THEN Loop(n, y, [k EXCEPT !.local = y.latest])
                            ELSE Goto(n, y, [k EXCEPT !.phase = "fork"]) /\ UNCHANGED backoff
  <2>1. \E x \in {StoreBlocks(store[n], blocks)} :
        \E y \in {IF x.latest > j.local THEN x ELSE Rebuild(x)} : after(y, moved(x, y))
    BY DEF SyncPull
  <2>2. after(s, moved(kept, s))
    <3> HIDE DEF after, moved, blocks, j
    <3> QED
      BY <2>1
  <2> HIDE DEF after
  <2>3. moved(kept, s) = next
    OBVIOUS
  <2>4. after(s, next)
    BY <2>2, <2>3
  <2> HIDE DEF next, s, j
  <2> QED
    BY <2>4 DEF after
<1> HIDE DEF blocks
<1>6. Sound(kept) /\ store[n].stored \subseteq kept.stored
  BY <1>3, <1>4, StoreBlocksSound
<1> HIDE DEF kept
<1>7. Sound(s) /\ store[n].stored \subseteq s.stored
  BY <1>6, RebuildSound
<1> HIDE DEF s
<1>8. s.latest \in Slot \cup {None} /\ c \in BOOLEAN
  BY <1>7 DEF Sound, StoreType
<1> HIDE DEF c
<1>9. next \in SyncType /\ next.peer = j.peer /\ next.want = j.want
  BY <1>2, <1>8 DEF SyncType
<1> HIDE DEF next, j
<1>10. StoreMoves(n) /\ SyncMoves(n) /\ backoff' \in [Node -> BOOLEAN]
  <2>1. CASE Loop(n, s, [next EXCEPT !.local = s.latest])
    <3> DEFINE k == [next EXCEPT !.local = s.latest]
    <3>1. k \in SyncType /\ k.peer = next.peer /\ k.want = next.want
      BY <1>8, <1>9 DEF SyncType
    <3>2. Loop(n, s, k)
      BY <2>1
    <3> HIDE DEF k
    <3> QED
      BY <1>2, <1>7, <1>9, <3>1, <3>2, LoopMoves
  <2>2. CASE Goto(n, s, [next EXCEPT !.phase = "fork"]) /\ UNCHANGED backoff
    <3> DEFINE k == [next EXCEPT !.phase = "fork"]
    <3>1. SyncOK(k)
      BY <1>2, <1>9 DEF SyncOK, SyncType
    <3>2. Goto(n, s, k)
      BY <2>2
    <3> HIDE DEF k
    <3> QED
      BY <1>7, <2>2, <3>1, <3>2, GotoMoves, BackoffKept
  <2> QED
    BY <1>5, <2>1, <2>2
<1> QED
  BY <1>10, StageKeeps DEF SyncPull

LEMMA SyncForkKeeps ==
  ASSUME NetInv, NEW n \in Node, NEW lost, SyncFork(n, lost)
  PROVE  NetInv'
<1> DEFINE j == sync[n]
           r == ForkRepair(n, lost)
           a == AdoptStoredPeerTip(r, j.want)
           s == IF r.latest > j.local THEN r ELSE a.store
           c == j.changed \/ Changed(n, s)
           next == [j EXCEPT !.changed = c]
<1>1. j.phase = "fork"
  BY DEF SyncFork
<1>2. j \in SyncType /\ j.peer \in Node /\ j.want \in Hash
  BY <1>1, JobFacts
<1>3. Sound(store[n]) /\ Sound(store[j.peer])
  BY <1>2, StoreFacts
<1>4. IF s.latest > j.local THEN Loop(n, s, [next EXCEPT !.local = s.latest])
      ELSE Break(n, s, next)
  <2> DEFINE moved(y) == [j EXCEPT !.changed = @ \/ Changed(n, y)]
             after(y, k) == IF y.latest > j.local THEN Loop(n, y, [k EXCEPT !.local = y.latest])
                            ELSE Break(n, y, k)
  <2>1. \E x \in {ForkRepair(n, lost)} : \E z \in {AdoptStoredPeerTip(x, j.want)} :
        \E y \in {IF x.latest > j.local THEN x ELSE z.store} : after(y, moved(y))
    BY DEF SyncFork
  <2>2. after(s, moved(s))
    <3> HIDE DEF after, moved, j
    <3> QED
      BY <2>1
  <2> HIDE DEF after
  <2>3. moved(s) = next
    OBVIOUS
  <2>4. after(s, next)
    BY <2>2, <2>3
  <2> HIDE DEF next, s, j
  <2> QED
    BY <2>4 DEF after
<1>5. Sound(r) /\ store[n].stored \subseteq r.stored
  BY <1>3, ForkRepairSound
<1> HIDE DEF r
<1>6. Sound(a.store) /\ a.store.stored = r.stored
  BY <1>5, AdoptTipSound
<1> HIDE DEF a
<1>7. Sound(s) /\ store[n].stored \subseteq s.stored
  BY <1>5, <1>6
<1> HIDE DEF s
<1>8. s.latest \in Slot \cup {None} /\ c \in BOOLEAN
  BY <1>7 DEF Sound, StoreType
<1> HIDE DEF c
<1>9. next \in SyncType /\ next.peer = j.peer /\ next.want = j.want
  BY <1>2, <1>8 DEF SyncType
<1> HIDE DEF next, j
<1>10. StoreMoves(n) /\ SyncMoves(n) /\ backoff' \in [Node -> BOOLEAN]
  <2>1. CASE Loop(n, s, [next EXCEPT !.local = s.latest])
    <3> DEFINE k == [next EXCEPT !.local = s.latest]
    <3>1. k \in SyncType /\ k.peer = next.peer /\ k.want = next.want
      BY <1>8, <1>9 DEF SyncType
    <3>2. Loop(n, s, k)
      BY <2>1
    <3> HIDE DEF k
    <3> QED
      BY <1>2, <1>7, <1>9, <3>1, <3>2, LoopMoves
  <2>2. CASE Break(n, s, next)
    BY <1>2, <1>7, <1>9, <2>2, BreakMoves
  <2> QED
    BY <1>4, <2>1, <2>2
<1> QED
  BY <1>10, StageKeeps DEF SyncFork

LEMMA SyncMismatchKeeps ==
  ASSUME NetInv, NEW n \in Node, NEW lost, SyncMismatch(n, lost)
  PROVE  NetInv'
<1> DEFINE j == sync[n]
           r == ForkRepair(n, lost)
           a == AdoptStoredPeerTip(r, j.want)
<1>1. j.phase = "mismatch"
  BY DEF SyncMismatch
<1>2. j \in SyncType /\ j.peer \in Node /\ j.want \in Hash
  BY <1>1, JobFacts
<1>3. Sound(store[n]) /\ Sound(store[j.peer])
  BY <1>2, StoreFacts
<1>4. Goto(n, a.store, ToPush(j.peer)) /\ (Progress(n) \/ Stall(n))
  <2> DEFINE after(x, z) ==
               /\ Goto(n, z.store, ToPush(j.peer))
               /\ IF j.changed \/ Changed(n, x) \/ z.changed THEN Progress(n) ELSE Stall(n)
  <2>1. \E x \in {ForkRepair(n, lost)} : \E z \in {AdoptStoredPeerTip(x, j.want)} : after(x, z)
    BY DEF SyncMismatch
  <2>2. after(r, a)
    <3> HIDE DEF after, j
    <3> QED
      BY <2>1
  <2> QED
    BY <2>2
<1>5. Sound(r) /\ store[n].stored \subseteq r.stored
  BY <1>3, ForkRepairSound
<1> HIDE DEF r
<1>6. Sound(a.store) /\ a.store.stored = r.stored
  BY <1>5, AdoptTipSound
<1> HIDE DEF a
<1>7. StoreMoves(n) /\ SyncMoves(n)
  BY <1>2, <1>4, <1>5, <1>6, PushOK, GotoMoves
<1>8. backoff' \in [Node -> BOOLEAN]
  BY <1>4, BackoffKept
<1> QED
  BY <1>7, <1>8, StageKeeps DEF SyncMismatch

-----------------------------------------------------------------------------
(* The push, the builder and gossip.                                       *)

LEMMA RelayType ==
  ASSUME NetInv, NEW n \in Node, NEW blocks \in SUBSET Hash
  PROVE  Relay(n, blocks) \subseteq Node \X Node \X Hash
BY DEF Relay, NetInv, RestSound

\* pushToPeer submits stored blocks, so the peer's store stays sound.
LEMMA PushKeeps ==
  ASSUME NetInv, NEW n \in Node, NEW cut, Push(n, cut)
  PROVE  /\ StoresSound' /\ SyncsSound' /\ SeenSound'
         /\ \A q \in Node : store[q].stored \subseteq store'[q].stored
         /\ gossip' \subseteq Node \X Node \X Hash
<1> DEFINE p     == sync[n].peer
           own   == store[n]
           tip   == Head(p)
           start == IF tip = None THEN -1
                    ELSE IF BlockAt(own, Number[tip]) # tip THEN own.first - 1
                    ELSE Number[tip] - PushLookback
           walked == {BlockAt(own, own.first)} \cup BatchAfter(own, BlockAt(own, own.first))
           blocks == IF own.first = None \/ own.latest <= start THEN {}
                     ELSE {b \in walked : Number[b] > start /\ Number[b] < cut}
           done == SubmitAll(store[p], blocks)
<1>1. sync[n].phase = "push" /\ Saw(n, p, tip) /\ sync' = [sync EXCEPT ![n] = Idle]
  BY DEF Push
<1>2. p \in Node
  BY <1>1, JobFacts
<1>3. Sound(own) /\ Sound(store[p])
  BY <1>2, StoreFacts
<1>4. own.first # None => walked \in SUBSET Hash
  <2>1. own.stored \subseteq Hash
    BY <1>3 DEF Sound, StoreType
  <2>2. own.first # None => BlockAt(own, own.first) # None
    BY <1>3, BlockAtIs DEF Sound, StoreType
  <2> QED
    BY <1>3, <2>1, <2>2, BlockAtStored, BatchStored
<1>5. /\ store' = [store EXCEPT ![p] = done.store]
      /\ gossip' = gossip \cup Relay(p, done.relay)
  <2> DEFINE after(d) == /\ store' = [store EXCEPT ![p] = d.store]
                         /\ gossip' = gossip \cup Relay(p, d.relay)
  <2>1. \E d \in {Once(blocks, LAMBDA S : SubmitAll(store[p], S))} : after(d)
    BY DEF Push
  <2>2. Once(blocks, LAMBDA S : SubmitAll(store[p], S)) = done
    <3> HIDE DEF blocks
    <3> QED
      BY DEF Once
  <2>3. after(done)
    <3> HIDE DEF after, blocks
    <3> QED
      BY <2>1, <2>2
  <2> QED
    BY <2>3
<1>6. blocks \in SUBSET Hash
  <2> HIDE DEF walked, start
  <2> QED
    BY <1>4
<1> HIDE DEF blocks
<1>7. /\ Sound(done.store) /\ store[p].stored \subseteq done.store.stored
      /\ done.relay \in SUBSET Hash
  BY <1>3, <1>6, SubmitAllSound
<1> HIDE DEF done
<1>8. StoresSound' /\ \A q \in Node : store[q].stored \subseteq store'[q].stored
  <2>1. StoreMoves(p)
    BY <1>5, <1>7 DEF StoreMoves
  <2> QED
    BY <1>2, <2>1, StoresKept
<1>9. SyncsSound'
  <2>1. SyncMoves(n)
    BY <1>1, IdleOK DEF SyncMoves
  <2> QED
    BY <2>1, SyncsKept
<1>10. SeenSound'
  BY <1>1, <1>2, <1>8, SeenNoted
<1>11. gossip' \subseteq Node \X Node \X Hash
  <2>1. Relay(p, done.relay) \subseteq Node \X Node \X Hash
    BY <1>2, <1>7, RelayType
  <2> QED
    BY <1>5, <2>1 DEF NetInv, RestSound
<1> QED
  BY <1>8, <1>9, <1>10, <1>11

LEMMA PushStepKeeps ==
  ASSUME NetInv, NEW n \in Node, PushDone(n) \/ PushLost(n)
  PROVE  NetInv'
<1>1. PICK cut : Push(n, cut)
  BY DEF PushDone, PushLost
<1>2. /\ StoresSound' /\ SyncsSound' /\ SeenSound'
      /\ \A q \in Node : store[q].stored \subseteq store'[q].stored
      /\ gossip' \subseteq Node \X Node \X Hash
  BY <1>1, PushKeeps
<1>3. faults' \in 0..MaxFaults
  BY FaultKept DEF PushDone, PushLost
<1>4. RestSound'
  BY <1>2, <1>3 DEF PushDone, PushLost, NetInv, RestSound, net
<1>5. PassesSound'
  BY <1>2, PassesKept DEF PushDone, PushLost, net
<1> QED
  BY <1>2, <1>4, <1>5 DEF NetInv

LEMMA IdleStepsKeep ==
  ASSUME NetInv, NEW n \in Node, NoPush(n) \/ BackoffExpires(n)
  PROVE  NetInv'
<1>1. StoresSound' /\ SeenSound' /\ UNCHANGED <<peers, store, pass>>
  BY DEF NoPush, BackoffExpires, NetInv, StoresSound, SeenSound, net
<1>2. SyncsSound'
  <2>1. CASE NoPush(n)
    <3>1. SyncMoves(n)
      BY <2>1, IdleOK DEF NoPush, SyncMoves
    <3> QED
      BY <3>1, SyncsKept
  <2>2. CASE BackoffExpires(n)
    BY <2>2 DEF BackoffExpires, NetInv, SyncsSound
  <2> QED
    BY <2>1, <2>2
<1>3. backoff' \in [Node -> BOOLEAN]
  BY DEF NoPush, BackoffExpires, NetInv, RestSound
<1>4. PassesSound'
  BY <1>1, PassesKept
<1>5. RestSound'
  BY <1>3 DEF NoPush, BackoffExpires, NetInv, RestSound, net
<1> QED
  BY <1>1, <1>2, <1>4, <1>5 DEF NetInv

\* A tip in an answer, new or remembered, is a block of the peer that gave it.
LEMMA TipsKnown ==
  ASSUME NetInv, NEW n \in Node, NEW asked
  PROVE  /\ Refreshed(n, asked) \in [Node -> Hash \cup {None}]
         /\ \A p \in Node : Refreshed(n, asked)[p] # None => Refreshed(n, asked)[p] \in store[p].stored
         /\ \A tip \in BestTips(n, Refreshed(n, asked)) :
              tip \in Hash /\ \E p \in peers[n] : tip \in store[p].stored
<1> DEFINE tips == Refreshed(n, asked)
<1>1. \A p \in Node : tips[p] \in {Head(p), seen[n][p]}
  BY DEF Refreshed
<1>2. \A p \in Node : tips[p] \in Hash \cup {None} /\ (tips[p] # None => tips[p] \in store[p].stored)
  BY <1>1, StoreFacts DEF NetInv, SeenSound
<1>3. tips \in [Node -> Hash \cup {None}]
  BY <1>2 DEF Refreshed
<1> HIDE DEF tips
<1>4. peers[n] \subseteq Node
  BY DEF NetInv, RestSound
<1>5. \A tip \in BestTips(n, tips) : tip \in Hash /\ \E p \in peers[n] : tip \in store[p].stored
  BY <1>2, <1>4 DEF BestTips
<1> QED
  BY <1>2, <1>3, <1>5 DEF tips

\* What canCreateBlocks notes.
LEMMA ChecksNoted ==
  ASSUME NetInv, NEW n \in Node, NEW verdict, CanCreateBlocks(n, verdict)
  PROVE  /\ seen' \in [Node -> [Node -> Hash \cup {None}]]
         /\ \A m, p \in Node : seen'[m][p] # None => seen'[m][p] \in store[p].stored
         /\ stable' \in [Node -> [tip : Hash \cup {None}, checks : 0..RequiredChecks]]
         /\ backoff' \in [Node -> BOOLEAN]
<1> DEFINE Notes == [tip : Hash \cup {None}, checks : 0..RequiredChecks]
<1>1. stable \in [Node -> Notes] /\ RequiredChecks \in Nat \ {0}
  BY NodeAssumption DEF NetInv, RestSound
<1>2. CASE peers[n] = {}
  BY <1>2 DEF CanCreateBlocks, NetInv, SeenSound, RestSound
<1>3. CASE peers[n] # {}
  <2>1. PICK asked :
          /\ seen' = [seen EXCEPT ![n] = Refreshed(n, asked)]
          /\ \/ stable' = [stable EXCEPT ![n] = Unstable]
             \/ \E tip \in BestTips(n, Refreshed(n, asked)) :
                  stable' = [stable EXCEPT ![n] = Noted(n, tip)]
          /\ Stall(n) \/ UNCHANGED backoff
    BY <1>3 DEF CanCreateBlocks
  <2>2. /\ seen' \in [Node -> [Node -> Hash \cup {None}]]
        /\ \A m, p \in Node : seen'[m][p] # None => seen'[m][p] \in store[p].stored
    BY <2>1, TipsKnown DEF NetInv, SeenSound
  <2>3. Unstable \in Notes
    BY <1>1 DEF Unstable
  <2>4. \A tip \in Hash : Noted(n, tip) \in Notes
    <3> TAKE tip \in Hash
    <3> DEFINE c == IF stable[n].tip # tip THEN 1
                    ELSE IF stable[n].checks < RequiredChecks THEN stable[n].checks + 1
                    ELSE stable[n].checks
    <3>1. c \in 0..RequiredChecks
      BY <1>1
    <3>2. Noted(n, tip) = [tip |-> tip, checks |-> c]
      BY DEF Noted
    <3> HIDE DEF c
    <3> QED
      BY <3>1, <3>2
  <2>5. stable' \in [Node -> Notes]
    <3>1. \E k \in Notes : stable' = [stable EXCEPT ![n] = k]
      <4> HIDE DEF Notes
      <4> QED
        BY <2>1, <2>3, <2>4, TipsKnown
    <3> QED
      BY <1>1, <3>1
  <2>6. backoff' \in [Node -> BOOLEAN]
    BY <2>1, BackoffKept
  <2> QED
    BY <2>2, <2>5, <2>6
<1> QED
  BY <1>2, <1>3

\* A verdict that blocks may be made, by a node with peers: its tip is a block of one of them.
LEMMA VerdictKnown ==
  ASSUME NetInv, NEW n \in Node, CanCreateBlocks(n, TRUE), peers[n] # {}
  PROVE  \E p \in peers[n] : Head(n) \in store[p].stored
<1>1. PICK asked, tip : tip \in BestTips(n, Refreshed(n, asked)) /\ AtPeerTip(n, tip)
  BY DEF CanCreateBlocks
<1>2. Head(n) = tip
  BY <1>1 DEF AtPeerTip
<1> QED
  BY <1>1, <1>2, TipsKnown

\* What the checks leave alone, and what they note.
LEMMA CheckKeeps ==
  ASSUME NetInv, NEW n \in Node, NEW verdict, CanCreateBlocks(n, verdict),
         UNCHANGED <<net, store, sync, built, gossip, faults>>, PassesSound'
  PROVE  NetInv'
<1>1. StoresSound' /\ SyncsSound'
  BY DEF NetInv, StoresSound, SyncsSound
<1>2. /\ SeenSound' /\ backoff' \in [Node -> BOOLEAN]
      /\ stable' \in [Node -> [tip : Hash \cup {None}, checks : 0..RequiredChecks]]
  BY ChecksNoted DEF SeenSound
<1>3. RestSound'
  BY <1>2 DEF NetInv, RestSound, net
<1> QED
  BY <1>1, <1>2, <1>3 DEF NetInv

LEMMA CheckPeersKeeps ==
  ASSUME NetInv, NEW n \in Node, CheckPeers(n)
  PROVE  NetInv'
<1>1. PassesSound'
  <2>1. UNCHANGED <<peers, pass, store>>
    BY DEF CheckPeers, net
  <2> QED
    BY <2>1, PassesKept
<1> QED
  BY <1>1, CheckKeeps DEF CheckPeers

LEMMA CheckLostKeeps ==
  ASSUME NetInv, NEW n \in Node, CheckPeersLost(n)
  PROVE  NetInv'
<1>1. StoresSound' /\ SyncsSound' /\ UNCHANGED <<peers, store>>
  BY DEF CheckPeersLost, NetInv, StoresSound, SyncsSound, net
<1>2. SeenSound'
  BY DEF CheckPeersLost, NetInv, SeenSound
<1>3. Unstable \in [tip : Hash \cup {None}, checks : 0..RequiredChecks]
  BY NodeAssumption DEF Unstable
<1>4. /\ stable' \in [Node -> [tip : Hash \cup {None}, checks : 0..RequiredChecks]]
      /\ backoff' \in [Node -> BOOLEAN]
  BY <1>3, BackoffKept DEF CheckPeersLost, NetInv, RestSound
<1>5. faults' \in 0..MaxFaults
  BY FaultKept DEF CheckPeersLost
<1>6. RestSound'
  BY <1>4, <1>5 DEF CheckPeersLost, NetInv, RestSound, net
<1>7. PassesSound'
  <2>1. UNCHANGED pass \/ pass' = [pass EXCEPT ![n] = NoPass]
    BY DEF CheckPeersLost
  <2> QED
    BY <1>1, <2>1, PassesKept, PassEnds
<1> QED
  BY <1>1, <1>2, <1>6, <1>7 DEF NetInv

LEMMA BuilderCheckKeeps ==
  ASSUME NetInv, NEW n \in Node, BuilderCheck(n)
  PROVE  NetInv'
<1>1. PICK verdict \in BOOLEAN :
        /\ CanCreateBlocks(n, verdict)
        /\ pass' = [pass EXCEPT ![n] =
             IF verdict THEN [pass[n] EXCEPT !.phase = "judged", !.judged = (Head(n) = pass[n].prev)]
             ELSE NoPass]
  BY DEF BuilderCheck, NetInv, PassesSound
<1>2. UNCHANGED <<peers, store>> /\ UNCHANGED <<net, store, sync, built, gossip, faults>>
  BY DEF BuilderCheck, net
<1>3. pass[n] \in PassType /\ pass[n].prev \in Hash
  BY DEF BuilderCheck, NetInv, PassesSound, PassOK
<1>4. CASE verdict = TRUE
  <2> DEFINE k == [pass[n] EXCEPT !.phase = "judged", !.judged = (Head(n) = pass[n].prev)]
  <2>1. pass' = [pass EXCEPT ![n] = k]
    BY <1>1, <1>4
  <2>2. k.phase = "judged" /\ k.prev = pass[n].prev /\ k.judged = (Head(n) = pass[n].prev)
    BY <1>3 DEF PassType
  <2>3. k \in PassType
    BY <1>3 DEF PassType
  <2>4. ASSUME k.judged, peers[n] # {}
        PROVE  \E p \in peers[n] : k.prev \in store[p].stored
    <3>1. CanCreateBlocks(n, TRUE)
      BY <1>1, <1>4
    <3>2. \E p \in peers[n] : Head(n) \in store[p].stored
      BY <2>4, <3>1, VerdictKnown
    <3> QED
      BY <2>2, <2>4, <3>2
  <2> HIDE DEF k
  <2>5. PassesSound'
    BY <1>2, <1>3, <2>1, <2>2, <2>3, <2>4, PassGoesOn
  <2> QED
    BY <1>1, <1>2, <2>5, CheckKeeps
<1>5. CASE verdict = FALSE
  <2>1. PassesSound'
    <3>1. pass' = [pass EXCEPT ![n] = NoPass]
      BY <1>1, <1>5
    <3> QED
      BY <1>2, <3>1, PassEnds
  <2> QED
    BY <1>1, <1>2, <2>1, CheckKeeps
<1> QED
  BY <1>4, <1>5

\* The steps of a pass that read: the top, the block made, and none made.
LEMMA BuilderReadsKeep ==
  ASSUME NetInv, NEW n \in Node,
         BuilderPass(n) \/ BuilderNoBlock(n) \/ \E b \in Hash : BuilderRead(n, b)
  PROVE  NetInv'
<1>1. /\ UNCHANGED <<peers, store>>
      /\ UNCHANGED <<peers, slot, store, sync, backoff, seen, stable, gossip, faults>>
  BY DEF BuilderPass, BuilderNoBlock, BuilderRead, net
<1>2. StoresSound' /\ SyncsSound' /\ SeenSound'
  BY <1>1 DEF NetInv, StoresSound, SyncsSound, SeenSound
<1>3. built' \in [Node -> Slot \cup {None}]
  BY DEF BuilderPass, BuilderNoBlock, BuilderRead, NetInv, RestSound
<1>4. RestSound'
  BY <1>1, <1>3 DEF NetInv, RestSound
<1>5. pass[n] \in PassType /\ PassOK(n)
  BY DEF NetInv, PassesSound
<1>6. PassesSound'
  <2>1. CASE BuilderPass(n)
    <3> DEFINE k == [NoPass EXCEPT !.phase = "top", !.prev = Head(n)]
    <3>1. pass' = [pass EXCEPT ![n] = k] /\ Head(n) \in Hash
      BY <2>1, StoreFacts DEF BuilderPass
    <3>2. k \in PassType /\ k.prev \in Hash /\ k.phase = "top"
      BY <3>1 DEF PassType, NoPass
    <3> HIDE DEF k
    <3> QED
      BY <1>1, <3>1, <3>2, PassGoesOn
  <2>2. CASE BuilderNoBlock(n)
    <3>1. pass' = [pass EXCEPT ![n] = NoPass]
      BY <2>2 DEF BuilderNoBlock
    <3> QED
      BY <1>1, <3>1, PassEnds
  <2>3. ASSUME NEW b \in Hash, BuilderRead(n, b) PROVE PassesSound'
    <3> DEFINE k == [pass[n] EXCEPT !.phase = "add", !.block = b]
    <3>1. pass' = [pass EXCEPT ![n] = k] /\ pass[n].phase = "judged" /\ Parent[b] = pass[n].prev
      BY <2>3 DEF BuilderRead, Makes, NetInv, PassesSound, PassType
    <3>2. /\ k \in PassType /\ k.phase = "add" /\ k.block = b
          /\ k.prev = pass[n].prev /\ k.judged = pass[n].judged
      BY <1>5 DEF PassType
    <3> HIDE DEF k
    <3>3. /\ k.prev \in Hash
          /\ k.judged /\ peers[n] # {} => \E p \in peers[n] : k.prev \in store[p].stored
      BY <1>5, <3>1, <3>2 DEF PassOK
    <3> QED
      BY <1>1, <3>1, <3>2, <3>3, PassGoesOn
  <2> QED
    BY <2>1, <2>2, <2>3
<1> QED
  BY <1>2, <1>4, <1>6 DEF NetInv

LEMMA BuilderAddKeeps ==
  ASSUME NetInv, NEW n \in Node, BuilderAdd(n)
  PROVE  NetInv'
<1> DEFINE b == pass[n].block
<1>1. b \in Hash /\ Number[b] \in Slot
  BY BlockFacts DEF BuilderAdd, NetInv, PassesSound, PassOK
<1>2. \/ UNCHANGED <<store, gossip>>
      \/ /\ store' = [store EXCEPT ![n] = AddBlock(store[n], b)]
         /\ gossip' = gossip \cup Relay(n, {b})
  BY DEF BuilderAdd, NetInv, StoresSound
<1>3. /\ built' = [built EXCEPT ![n] = Number[b]]
      /\ pass' = [pass EXCEPT ![n] = NoPass]
      /\ UNCHANGED <<peers, slot, sync, backoff, seen, stable, faults>>
  BY DEF BuilderAdd, net
<1> HIDE DEF b
<1>4. StoreMoves(n)
  <2>1. Sound(store[n]) /\ store = [store EXCEPT ![n] = store[n]]
    BY StoreFacts DEF NetInv, StoresSound
  <2> QED
    BY <1>1, <1>2, <2>1, AddBlockSound DEF StoreMoves
<1>5. StoresSound' /\ \A p \in Node : store[p].stored \subseteq store'[p].stored
  BY <1>4, StoresKept
<1>6. SyncsSound' /\ SeenSound'
  BY <1>3, <1>5, SeenKept DEF NetInv, SyncsSound
<1>7. gossip' \subseteq Node \X Node \X Hash
  <2>1. Relay(n, {b}) \subseteq Node \X Node \X Hash
    BY <1>1, RelayType
  <2> QED
    BY <1>2, <2>1 DEF NetInv, RestSound
<1>8. PassesSound'
  BY <1>3, <1>5, PassEnds
<1>9. RestSound'
  BY <1>1, <1>3, <1>7 DEF NetInv, RestSound
<1> QED
  BY <1>5, <1>6, <1>8, <1>9 DEF NetInv

LEMMA AnnounceKeeps ==
  ASSUME NetInv, NEW m \in gossip, Announce(m)
  PROVE  NetInv'
<1> DEFINE to == m[2]
           b == m[3]
           added == AddBlock(store[to], b)
           s == IF added # store[to] /\ added.latest < Number[b] THEN Rebuild(added) ELSE added
           relayed(x, y) == IF x # store[to] /\ BlockAt(y, Number[b]) = b /\ y.latest >= Number[b]
                            THEN {b} ELSE {}
<1>1. to \in Node /\ b \in Hash
  BY DEF NetInv, RestSound
<1>2. /\ store' = [store EXCEPT ![to] = s]
      /\ gossip' = (gossip \ {m}) \cup Relay(to, relayed(added, s))
  <2> DEFINE after(x, y) == /\ store' = [store EXCEPT ![to] = y]
                            /\ gossip' = (gossip \ {m}) \cup Relay(to, relayed(x, y))
  <2>1. \E x \in {AddBlock(store[to], b)} :
        \E y \in {IF x # store[to] /\ x.latest < Number[b] THEN Rebuild(x) ELSE x} : after(x, y)
    BY DEF Announce
  <2>2. after(added, s)
    <3> HIDE DEF after, to, b
    <3> QED
      BY <2>1
  <2> QED
    BY <2>2
<1>3. relayed(added, s) \in SUBSET Hash
  BY <1>1
<1> HIDE DEF relayed, to, b
<1>4. Sound(store[to])
  BY <1>1, StoreFacts
<1>5. Sound(added) /\ store[to].stored \subseteq added.stored
  BY <1>1, <1>4, AddBlockSound
<1> HIDE DEF added
<1>6. Sound(s) /\ store[to].stored \subseteq s.stored
  BY <1>5, RebuildSound
<1> HIDE DEF s
<1>7. StoreMoves(to)
  BY <1>2, <1>6 DEF StoreMoves
<1>8. StoresSound' /\ \A p \in Node : store[p].stored \subseteq store'[p].stored
  BY <1>1, <1>7, StoresKept
<1>9. SyncsSound' /\ SeenSound'
  BY <1>8, SeenKept DEF Announce, NetInv, SyncsSound
<1>10. gossip' \subseteq Node \X Node \X Hash
  <2>1. Relay(to, relayed(added, s)) \subseteq Node \X Node \X Hash
    BY <1>1, <1>3, RelayType
  <2> QED
    BY <1>2, <2>1 DEF NetInv, RestSound
<1>11. RestSound'
  BY <1>10 DEF Announce, NetInv, RestSound, net
<1>12. PassesSound'
  BY <1>8, PassesKept DEF Announce, net
<1> QED
  BY <1>8, <1>9, <1>11, <1>12 DEF NetInv

LEMMA RestartKeeps ==
  ASSUME NetInv, NEW n \in Node, Restart(n)
  PROVE  NetInv'
<1>1. StoreMoves(n)
  BY StoreFacts, RebuildSound DEF Restart, StoreMoves, NetInv, StoresSound
<1>2. StoresSound' /\ \A p \in Node : store[p].stored \subseteq store'[p].stored
  BY <1>1, StoresKept
<1>3. SyncsSound'
  <2>1. SyncMoves(n)
    BY IdleOK DEF Restart, SyncMoves
  <2> QED
    BY <2>1, SyncsKept
<1>4. SeenSound'
  BY <1>2 DEF Restart, NetInv, SeenSound
<1>5. stable' \in [Node -> [tip : Hash \cup {None}, checks : 0..RequiredChecks]]
  <2>1. Unstable \in [tip : Hash \cup {None}, checks : 0..RequiredChecks]
    BY NodeAssumption DEF Unstable
  <2> QED
    BY <2>1 DEF Restart, NetInv, RestSound
<1>6. faults' \in 0..MaxFaults
  BY FaultKept DEF Restart
<1>7. backoff' \in [Node -> BOOLEAN]
  BY DEF Restart, NetInv, RestSound
<1>8. built' \in [Node -> Slot \cup {None}]
  BY DEF Restart, NetInv, RestSound
<1>9. RestSound'
  BY <1>5, <1>6, <1>7, <1>8 DEF Restart, NetInv, RestSound, net
<1>10. PassesSound'
  BY <1>2, PassEnds DEF Restart, net
<1> QED
  BY <1>2, <1>3, <1>4, <1>9, <1>10 DEF NetInv

LEMMA QuietStepsKeep ==
  ASSUME NetInv, Tick \/ UNCHANGED vars \/ \E m \in gossip : AnnounceLost(m)
  PROVE  NetInv'
<1>1. UNCHANGED <<peers, store, sync, backoff, seen, stable, pass, built, faults>>
  BY DEF Tick, AnnounceLost, vars, net
<1>2. StoresSound' /\ SyncsSound' /\ SeenSound'
  BY <1>1 DEF NetInv, StoresSound, SyncsSound, SeenSound
<1>3. slot' \in Slot /\ gossip' \subseteq Node \X Node \X Hash
  BY DEF Tick, AnnounceLost, vars, net, NetInv, RestSound
<1>4. RestSound'
  BY <1>1, <1>3 DEF NetInv, RestSound
<1>5. PassesSound'
  BY <1>1, PassesKept
<1> QED
  BY <1>2, <1>4, <1>5 DEF NetInv

-----------------------------------------------------------------------------
(* The invariant holds always.                                             *)

LEMMA InitStores ==
  Sound(EmptyStore) /\ Sound(AddBlock(EmptyStore, Genesis))
<1>1. Linked({})
  BY DEF Linked
<1>2. EmptyStore \in StoreType
  BY DEF EmptyStore, StoreType
<1>3. Sound(EmptyStore)
  BY <1>1, <1>2 DEF Sound, EmptyStore
<1> QED
  BY <1>3, AddBlockSound, HashAssumption

LEMMA InitNet == Init => NetInv
<1> SUFFICES ASSUME Init PROVE NetInv
  OBVIOUS
<1>1. StoresSound
  <2>1. \A n \in Node : store[n] \in {EmptyStore, AddBlock(EmptyStore, Genesis)}
    BY DEF Init
  <2>2. \A n \in Node : Sound(store[n]) /\ store[n] \in StoreType
    BY <2>1, InitStores DEF Sound
  <2>3. store \in [Node -> StoreType]
    BY <2>2 DEF Init
  <2> QED
    BY <2>2, <2>3 DEF StoresSound
<1>2. SyncsSound
  BY IdleOK DEF Init, SyncsSound, SyncOK
<1>3. SeenSound
  BY DEF Init, SeenSound
<1>4. Number[Genesis] \in Slot
  BY BlockFacts, HashAssumption
<1>5. stable \in [Node -> [tip : Hash \cup {None}, checks : 0..RequiredChecks]]
  <2>1. Unstable \in [tip : Hash \cup {None}, checks : 0..RequiredChecks]
    BY NodeAssumption DEF Unstable
  <2> QED
    BY <2>1 DEF Init
<1>6. RestSound
  BY <1>4, <1>5, NodeAssumption DEF Init, RestSound
<1>7. PassesSound
  <2>1. NoPass \in PassType
    BY DEF NoPass, PassType
  <2>2. pass \in [Node -> PassType] /\ \A n \in Node : pass[n] = NoPass
    BY <2>1 DEF Init
  <2>3. \A n \in Node : pass[n].phase = "idle"
    BY <2>2 DEF NoPass
  <2> QED
    BY <2>2, <2>3 DEF PassesSound, PassOK
<1> QED
  BY <1>1, <1>2, <1>3, <1>6, <1>7 DEF NetInv

LEMMA NextKeepsNet == NetInv /\ [Next]_vars => NetInv'
<1> SUFFICES ASSUME NetInv, [Next]_vars PROVE NetInv'
  OBVIOUS
<1>1. CASE \E n, p \in Node : SyncBegin(n, p) \/ SyncBeginLost(n, p)
  BY <1>1, SyncBeginKeeps
<1>2. CASE \E n \in Node : SyncStep(n) \/ SyncLost(n)
  BY <1>2, SyncRepairKeeps, SyncFirstKeeps, SyncPullKeeps, SyncForkKeeps, SyncMismatchKeeps,
     PushStepKeeps DEF SyncStep, SyncLost
<1>3. CASE \E n \in Node : NoPush(n) \/ BackoffExpires(n)
  BY <1>3, IdleStepsKeep
<1>4. CASE \E n \in Node : CheckPeers(n) \/ CheckPeersLost(n)
  BY <1>4, CheckPeersKeeps, CheckLostKeeps
<1>5. CASE \E n \in Node : Restart(n)
  BY <1>5, RestartKeeps
<1>6. CASE \E n \in Node :
             \/ BuilderPass(n) \/ BuilderCheck(n) \/ BuilderNoBlock(n) \/ BuilderAdd(n)
             \/ \E b \in Hash : BuilderRead(n, b)
  BY <1>6, BuilderCheckKeeps, BuilderReadsKeep, BuilderAddKeeps
<1>7. CASE \E m \in gossip : Announce(m)
  BY <1>7, AnnounceKeeps
<1>8. CASE Tick \/ UNCHANGED vars \/ \E m \in gossip : AnnounceLost(m)
  BY <1>8, QuietStepsKeep
<1> QED
  BY <1>1, <1>2, <1>3, <1>4, <1>5, <1>6, <1>7, <1>8 DEF Next

LEMMA NetInvAlways == Spec => []NetInv
<1> QED
  BY InitNet, NextKeepsNet, PTL DEF Spec

-----------------------------------------------------------------------------
(* The theorems.                                                           *)

\* Every node's store, sync state and notes keep their types, in particular the checks of
\* a stable tip never exceed REQUIRED_STABLE_TIP_CHECKS and a sync under way always knows
\* its peer, for any peer lists, forks, lost requests and restarts.
THEOREM NetTypeCorrect == Spec => []TypeOK
<1>1. NetInv => TypeOK
  <2> SUFFICES ASSUME NetInv PROVE TypeOK
    OBVIOUS
  <2>1. \A n \in Node :
          /\ store[n].stored \subseteq Hash
          /\ store[n].first \in Slot \cup {None}
          /\ store[n].latest \in Slot \cup {None}
          /\ store[n].checkpoint \in Hash \cup {None}
    BY DEF NetInv, StoresSound, StoreType
  <2>2. \A n \in Node : sync[n] \in SyncType
    BY DEF NetInv, SyncsSound
  <2>3. \A n \in Node : stable[n].tip \in Hash \cup {None} /\ stable[n].checks \in 0..RequiredChecks
    BY DEF NetInv, RestSound
  <2>4. seen \in [Node -> [Node -> Hash \cup {None}]]
    BY DEF NetInv, SeenSound
  <2> QED
    BY <2>1, <2>2, <2>3, <2>4 DEF TypeOK, SyncType, PassType, NetInv, PassesSound, RestSound
<1> QED
  BY <1>1, NetInvAlways, PTL

\* Whatever comes in between the top of the builder's pass and the write of its block, on
\* any tree of blocks: a built block that is no child of the tip leaves the tip in its slot,
\* and replaces it only as the preferred variant of that slot.
THEOREM BuiltBlockExtendsTip == Spec => StaleParentKeepsTip
<1> DEFINE Kept(n, b) ==
      /\ store'[n].latest = store[n].latest
      /\ \/ Head(n)' = Head(n)
         \/ Number[b] = store[n].latest /\ Head(n)' = b /\ PreferBlockVariant(b, Head(n))
<1>1. NetInv /\ [Next]_vars =>
        \A n \in Node : BuilderAdd(n) /\ Parent[pass[n].block] # Head(n) => Kept(n, pass[n].block)
  <2> SUFFICES ASSUME NetInv, NEW n \in Node, BuilderAdd(n), Parent[pass[n].block] # Head(n)
               PROVE  Kept(n, pass[n].block)
    OBVIOUS
  <2> DEFINE b == pass[n].block
             s == store[n]
             t == store'[n]
  <2>1. Sound(s) /\ BlockAt(s, s.latest) # Parent[b] /\ b \in Hash
    BY StoreFacts DEF Head, HeadOf, BuilderAdd, NetInv, PassesSound, PassOK
  <2>2. t = AddBlock(s, b) \/ t = s
    BY DEF BuilderAdd, NetInv, StoresSound
  <2>3. /\ Head(n) = IF s.latest \in Slot THEN s.canonical[s.latest] ELSE None
        /\ Head(n)' = IF t.latest \in Slot THEN t.canonical[t.latest] ELSE None
    BY DEF Head, HeadOf, BlockAt, DB!GetBlock, DB!Slot, DB!None, Slot, None
  <2>4. /\ s.canonical \in [Slot -> Hash \cup {None}] /\ Number[b] \in Slot
        /\ \A m \in Slot : s.canonical[m] # None => Number[s.canonical[m]] = m
        /\ s.latest # None => s.canonical[s.latest] # None
    BY <2>1, BlockFacts DEF Sound, StoreType
  <2> HIDE DEF b, s, t
  <2>5. /\ t.latest = s.latest
        /\ \/ t.canonical = s.canonical
           \/ /\ t.canonical = [s.canonical EXCEPT ![Number[b]] = b]
              /\ s.canonical[Number[b]] # None => PreferBlockVariant(b, s.canonical[Number[b]])
    BY <2>1, <2>2, TipMovesToChild
  <2>6. /\ t.latest = s.latest
        /\ \/ Head(n)' = Head(n)
           \/ Number[b] = s.latest /\ Head(n)' = b /\ PreferBlockVariant(b, Head(n))
    BY <2>1, <2>3, <2>4, <2>5, SlotNumbers
  <2> QED
    BY <2>6 DEF b, s, t
<1>2. NetInv /\ [Next]_vars =>
        \A n \in Node :
          LET b == pass[n].block
          IN  BuilderAdd(n) /\ Parent[b] # Head(n) =>
                /\ store'[n].latest = store[n].latest
                /\ \/ Head(n)' = Head(n)
                   \/ /\ Number[b] = store[n].latest
                      /\ Head(n)' = b
                      /\ PreferBlockVariant(b, Head(n))
  BY <1>1
<1> QED
  BY <1>2, NetInvAlways, PTL DEF Spec, StaleParentKeepsTip

\* However old the answers of its peers are, and whatever those peers did since the check:
\* a builder whose parent block is the tip that was judged extends a block of one of them.
THEOREM BuilderIsNotAlone == Spec => BuildsOnSharedTip
<1>1. NetInv /\ [Next]_vars =>
        \A n \in Node :
          BuilderAdd(n) /\ pass[n].judged /\ peers[n] # {} =>
            \E p \in peers[n] : Parent[pass[n].block] \in store[p].stored
  BY DEF BuilderAdd, NetInv, PassesSound, PassOK
<1> QED
  BY <1>1, NetInvAlways, PTL DEF Spec, BuildsOnSharedTip
=============================================================================
