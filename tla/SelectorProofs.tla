--------------------------- MODULE SelectorProofs ---------------------------
(***************************************************************************)
(* Proofs about Selector, for every set of keys, epoch size, lag, heartbeat *)
(* lifetime and recovery window.                                            *)
(***************************************************************************)
EXTENDS Selector, NumberLemmas, TLAPS

-----------------------------------------------------------------------------
(* The type invariant.                                                     *)

\* A chain that has its type has a tip.
LEMMA TipType ==
  ASSUME TypeOK
  PROVE  /\ Len(chain) \in Nat \ {0}
         /\ DOMAIN chain = 1 .. Len(chain)
         /\ Tip \in Entry
         /\ \A i \in DOMAIN chain : chain[i] \in Entry
BY DEF TypeOK, Tip

LEMMA GenesisType == Genesis \in Entry
<1>1. [k \in Key |-> NoBeat] \in [Key -> Int]
  BY DEF NoBeat
<1> QED
  BY <1>1, KeyAssumption, SlotAssumption DEF Genesis, Entry

LEMMA TypeInit == Init => TypeOK
<1> SUFFICES ASSUME Init PROVE TypeOK
  OBVIOUS
<1>1. chain = <<Genesis>> /\ slot = GenesisBlock /\ Genesis.number = GenesisBlock
  BY DEF Init, Genesis
<1> HIDE DEF Genesis
<1>2. chain \in Seq(Entry) /\ DOMAIN chain = {1} /\ chain[1] = Genesis
  BY <1>1, GenesisType
<1> QED
  BY <1>1, <1>2, SlotAssumption DEF TypeOK

\* What a block that is appended looks like.
NewEntry(k, joins, beats) ==
  [number |-> slot, creator |-> k,
   members |-> Tip.members \cup joins,
   beat |-> [m \in Key |-> IF m \in beats THEN slot ELSE Tip.beat[m]],
   seen |-> Tip.seen \/ beats # {}]

LEMMA NewEntryType ==
  ASSUME TypeOK, NEW k \in Key, NEW joins \in SUBSET Key, NEW beats \in SUBSET Key
  PROVE  NewEntry(k, joins, beats) \in Entry
<1>1. Tip \in Entry /\ slot \in Nat
  BY TipType DEF TypeOK
<1>2. Tip.members \in SUBSET Key /\ Tip.beat \in [Key -> Int] /\ Tip.seen \in BOOLEAN
  BY <1>1 DEF Entry
<1>3. [m \in Key |-> IF m \in beats THEN slot ELSE Tip.beat[m]] \in [Key -> Int]
  BY <1>1, <1>2
<1>4. (Tip.seen \/ beats # {}) \in BOOLEAN
  BY <1>2
<1>5. Tip.members \cup joins \in SUBSET Key
  BY <1>2
<1> QED
  BY <1>1, <1>3, <1>4, <1>5 DEF Entry, NewEntry

\* A step leaves the chain alone or appends one entry of the current slot.
LEMMA StepShape ==
  ASSUME TypeOK, [Next]_vars
  PROVE  \/ chain' = chain /\ slot' = slot
         \/ chain' = chain /\ slot' = slot + 1 /\ slot < LastSlot
         \/ \E k \in Key, joins, beats \in SUBSET Key :
              /\ Tip.number < slot
              /\ k \in GetAuthorizedCreators(slot)
              /\ beats \subseteq Tip.members
              /\ chain' = Append(chain, NewEntry(k, joins, beats))
              /\ slot' = slot
BY DEF Next, Tick, BuildBlock, NewEntry, vars

LEMMA TypeStep ==
  ASSUME TypeOK, [Next]_vars
  PROVE  TypeOK'
<1>1. CASE chain' = chain /\ (slot' = slot \/ (slot' = slot + 1 /\ slot < LastSlot))
  BY <1>1, SlotAssumption DEF TypeOK
<1>2. ASSUME NEW k \in Key, NEW joins \in SUBSET Key, NEW beats \in SUBSET Key,
             chain' = Append(chain, NewEntry(k, joins, beats)), slot' = slot
      PROVE  TypeOK'
  <2>1. NewEntry(k, joins, beats) \in Entry
    BY NewEntryType
  <2> HIDE DEF NewEntry
  <2>2. chain' \in Seq(Entry) /\ chain' # <<>>
    BY <1>2, <2>1 DEF TypeOK
  <2>3. NewEntry(k, joins, beats).number = slot
    BY DEF NewEntry
  <2>4. \A i \in DOMAIN chain' : (i \in DOMAIN chain /\ chain'[i] = chain[i]) \/ chain'[i].number = slot
    BY <1>2, <2>1, <2>3 DEF TypeOK
  <2> QED
    BY <1>2, <2>2, <2>4 DEF TypeOK
<1>3. CASE \E k \in Key, joins, beats \in SUBSET Key :
             chain' = Append(chain, NewEntry(k, joins, beats)) /\ slot' = slot
  <2>1. PICK k \in Key, joins \in SUBSET Key, beats \in SUBSET Key :
             chain' = Append(chain, NewEntry(k, joins, beats)) /\ slot' = slot
    BY <1>3
  <2> QED
    BY <1>2, <2>1
<1>4. \/ chain' = chain /\ (slot' = slot \/ (slot' = slot + 1 /\ slot < LastSlot))
      \/ \E k \in Key, joins, beats \in SUBSET Key :
           chain' = Append(chain, NewEntry(k, joins, beats)) /\ slot' = slot
  BY StepShape
<1> QED
  BY <1>1, <1>3, <1>4

\* The chain and the clock keep their types: every block carries a snapshot whose
\* heartbeats cover every key, and no block is numbered past the last slot.
THEOREM TypeCorrect == Spec => []TypeOK
<1>1. TypeOK /\ [Next]_vars => TypeOK'
  BY TypeStep
<1> QED
  BY <1>1, TypeInit, PTL DEF Spec

-----------------------------------------------------------------------------
(* The chain of snapshots.                                                 *)

Inv == TypeOK /\ ChainInv

LEMMA ChainInvInit == Init => ChainInv
<1> SUFFICES ASSUME Init PROVE ChainInv
  OBVIOUS
<1>1. chain = <<Genesis>> /\ Len(chain) = 1 /\ DOMAIN chain = {1} /\ chain[1] = Genesis
  BY DEF Init
<1>2. Tip = Genesis
  BY <1>1 DEF Tip
<1>3. \A k \in Key : Genesis.beat[k] = NoBeat
  BY DEF Genesis
<1> QED
  BY <1>1, <1>2, <1>3, SlotAssumption DEF ChainInv, Init, Genesis, NoBeat

\* Every block is at most the tip in number, members and heartbeats.
LEMMA BelowTip ==
  ASSUME Inv, NEW i \in DOMAIN chain
  PROVE  /\ chain[i].number <= Tip.number
         /\ chain[i].members \subseteq Tip.members
         /\ chain[i].seen => Tip.seen
         /\ \A k \in Key : chain[i].beat[k] <= Tip.beat[k]
<1>1. i \in 1 .. Len(chain) /\ Len(chain) \in DOMAIN chain /\ Tip = chain[Len(chain)]
  BY TipType DEF Inv, Tip
<1>2. chain[i] \in Entry
  BY TipType DEF Inv
<1>3. CASE i = Len(chain)
  <2>1. \A k \in Key : chain[i].beat[k] \in Int
    BY <1>2 DEF Entry
  <2> QED
    BY <1>1, <1>2, <1>3, <2>1 DEF Entry
<1>4. CASE i < Len(chain)
  <2>1. chain[i].number < chain[Len(chain)].number
    BY <1>1, <1>4 DEF Inv, ChainInv
  <2>2. chain[i].number \in Nat /\ Tip.number \in Nat
    BY <1>2, TipType DEF Inv, Entry
  <2> QED
    BY <1>1, <1>4, <2>1, <2>2 DEF Inv, ChainInv
<1> QED
  BY <1>1, <1>3, <1>4

LEMMA ChainInvStep ==
  ASSUME Inv, [Next]_vars
  PROVE  ChainInv'
<1> USE DEF Inv
<1>1. CASE chain' = chain /\ (slot' = slot \/ slot' = slot + 1)
  <2>1. Tip.number \in Nat /\ slot \in Nat /\ Tip.number <= slot
    BY TipType DEF TypeOK, ChainInv, Entry
  <2>2. Tip' = Tip
    BY <1>1 DEF Tip
  <2>3. Tip'.number <= slot'
    BY <1>1, <2>1, <2>2
  <2> QED
    BY <1>1, <2>3 DEF ChainInv
<1>2. ASSUME NEW k \in Key, NEW joins \in SUBSET Key, NEW beats \in SUBSET Key,
             Tip.number < slot,
             chain' = Append(chain, NewEntry(k, joins, beats)), slot' = slot
      PROVE  ChainInv'
  <2> DEFINE e == NewEntry(k, joins, beats)
             L == Len(chain)
  <2>1. e \in Entry /\ slot \in Nat /\ Tip \in Entry /\ L \in Nat \ {0}
        /\ DOMAIN chain = 1 .. L /\ \A i \in 1 .. L : chain[i] \in Entry
    BY NewEntryType, TipType DEF TypeOK
  <2>2. /\ e.number = slot
        /\ e.members = Tip.members \cup joins
        /\ e.seen = (Tip.seen \/ beats # {})
        /\ \A m \in Key : e.beat[m] = IF m \in beats THEN slot ELSE Tip.beat[m]
    BY DEF NewEntry
  <2>3. \A m \in Key : Tip.beat[m] \in Int /\ Tip.beat[m] <= Tip.number
    <3>1. L \in DOMAIN chain /\ Tip = chain[L]
      BY <2>1 DEF Tip
    <3> QED
      BY <2>1, <3>1 DEF ChainInv, Entry
  <2>4. Tip.number \in Nat
    BY <2>1 DEF Entry
  <2>5. \A m \in Key : e.beat[m] <= e.number /\ Tip.beat[m] <= e.beat[m] /\ e.beat[m] \in Int
    <3> TAKE m \in Key
    <3>1. e.beat[m] = slot \/ e.beat[m] = Tip.beat[m]
      BY <2>2
    <3> QED
      BY <1>2, <2>1, <2>2, <2>3, <2>4, <3>1
  <2> HIDE DEF e
  <2>6. /\ DOMAIN chain' = 1 .. L + 1
        /\ Len(chain') = L + 1
        /\ chain'[L + 1] = e
        /\ \A i \in 1 .. L : chain'[i] = chain[i]
    <3>1. chain' = Append(chain, e)
      BY <1>2 DEF e
    <3>2. chain \in Seq(Entry)
      BY DEF TypeOK
    <3> QED
      BY <2>1, <3>1, <3>2
  <2>7. ASSUME NEW i \in 1 .. L
        PROVE  /\ chain[i].number < e.number
               /\ chain[i].members \subseteq e.members
               /\ chain[i].seen => e.seen
               /\ \A m \in Key : chain[i].beat[m] <= e.beat[m]
    <3>1. /\ chain[i].number <= Tip.number
          /\ chain[i].members \subseteq Tip.members
          /\ chain[i].seen => Tip.seen
          /\ \A m \in Key : chain[i].beat[m] <= Tip.beat[m]
      BY <2>1, BelowTip
    <3>2. chain[i].number \in Nat /\ \A m \in Key : chain[i].beat[m] \in Int
      BY <2>1 DEF Entry
    <3>3. chain[i].number < e.number
      BY <1>2, <2>1, <2>2, <2>4, <3>1, <3>2
    <3>4. \A m \in Key : chain[i].beat[m] <= e.beat[m]
      BY <2>3, <2>5, <3>1, <3>2
    <3> QED
      BY <2>2, <3>1, <3>3, <3>4
  <2>8. chain'[1].number = GenesisBlock /\ Founder \in chain'[1].members
    BY <2>1, <2>6 DEF ChainInv
  <2>9. Tip'.number <= slot'
    BY <1>2, <2>1, <2>2, <2>6 DEF Tip
  <2>10. \A i \in DOMAIN chain' : \A m \in Key : chain'[i].beat[m] <= chain'[i].number
    <3> TAKE i \in DOMAIN chain'
    <3>1. CASE i = L + 1
      BY <2>5, <2>6, <3>1
    <3>2. CASE i \in 1 .. L
      BY <2>1, <2>6, <3>2 DEF ChainInv
    <3> QED
      BY <2>1, <2>6, <3>1, <3>2
  <2>11. ASSUME NEW i \in DOMAIN chain', NEW j \in DOMAIN chain', i < j
         PROVE  /\ chain'[i].number < chain'[j].number
                /\ chain'[i].members \subseteq chain'[j].members
                /\ chain'[i].seen => chain'[j].seen
                /\ \A m \in Key : chain'[i].beat[m] <= chain'[j].beat[m]
    <3>1. CASE j = L + 1
      BY <2>1, <2>6, <2>7, <2>11, <3>1
    <3>2. CASE j \in 1 .. L
      BY <2>1, <2>6, <2>11, <3>2 DEF ChainInv
    <3> QED
      BY <2>1, <2>6, <3>1, <3>2
  <2> QED
    BY <2>8, <2>9, <2>10, <2>11 DEF ChainInv
<1> QED
  BY <1>1, <1>2, StepShape

\* Snapshots only grow along the chain: later blocks have larger numbers, no fewer
\* members and no older heartbeats, and nothing on the chain is from the future.
THEOREM SnapshotsGrow == Spec => []ChainInv
<1>1. Init => Inv
  BY ChainInvInit, TypeInit DEF Inv
<1>2. Inv /\ [Next]_vars => Inv'
  BY TypeStep, ChainInvStep DEF Inv
<1>3. Inv => ChainInv
  BY DEF Inv
<1> QED
  BY <1>1, <1>2, <1>3, PTL DEF Spec

-----------------------------------------------------------------------------
(* The selection boundary and the snapshot it selects.                     *)

LEMMA EpochFacts ==
  ASSUME NEW n \in Nat
  PROVE  /\ GetEpochForBlock(n) \in Nat
         /\ n > GenesisBlock => GetEpochForBlock(n) * EpochSize <= n - GenesisBlock
<1>1. CASE n <= GenesisBlock
  BY <1>1, SlotAssumption DEF GetEpochForBlock
<1>2. CASE n > GenesisBlock
  <2>1. n - GenesisBlock \in Nat /\ GetEpochForBlock(n) = (n - GenesisBlock) \div EpochSize
    BY <1>2, SlotAssumption DEF GetEpochForBlock
  <2> QED
    BY <2>1, Quotient, SlotAssumption
<1> QED
  BY <1>1, <1>2, SlotAssumption

LEMMA EpochMonotone ==
  ASSUME NEW m \in Nat, NEW n \in Nat, m <= n
  PROVE  GetEpochForBlock(m) <= GetEpochForBlock(n)
<1>1. CASE m <= GenesisBlock
  BY <1>1, EpochFacts DEF GetEpochForBlock
<1>2. CASE m > GenesisBlock
  <2>1. m - GenesisBlock \in Nat /\ n - GenesisBlock \in Nat
        /\ m - GenesisBlock <= n - GenesisBlock
    BY <1>2, SlotAssumption
  <2>2. (m - GenesisBlock) \div EpochSize <= (n - GenesisBlock) \div EpochSize
    BY <2>1, QuotientMonotone, SlotAssumption
  <2> QED
    BY <1>2, <2>2, SlotAssumption DEF GetEpochForBlock
<1> QED
  BY <1>1, <1>2, SlotAssumption

LEMMA Distribute ==
  ASSUME NEW q \in Nat, NEW l \in Nat, NEW e \in Nat
  PROVE  (q - l + 1) * e = q * e - (l - 1) * e
OBVIOUS

LEMMA ProductMonotone ==
  ASSUME NEW a \in Int, NEW b \in Int, NEW e \in Nat, a <= b
  PROVE  a * e <= b * e
OBVIOUS

\* The boundary is a block number, at or after genesis.
LEMMA BoundaryType ==
  ASSUME NEW n \in Nat
  PROVE  /\ GetSelectionBoundaryBlock(n) \in Nat
         /\ GenesisBlock <= GetSelectionBoundaryBlock(n)
<1> DEFINE q == GetEpochForBlock(n)
<1>1. q \in Nat
  BY EpochFacts
<1> HIDE DEF q
<1>2. CASE q < SelectionLag
  BY <1>2, SlotAssumption DEF GetSelectionBoundaryBlock, q
<1>3. CASE ~(q < SelectionLag)
  <2>1. q - SelectionLag + 1 \in Int /\ 1 <= q - SelectionLag + 1
    BY <1>1, <1>3, SlotAssumption
  <2>2. 1 * EpochSize <= (q - SelectionLag + 1) * EpochSize
    BY <2>1, ProductMonotone, SlotAssumption
  <2>3. (q - SelectionLag + 1) * EpochSize \in Int /\ 1 * EpochSize >= 1
    BY <2>1, SlotAssumption
  <2>4. GetSelectionBoundaryBlock(n) = GenesisBlock + (q - SelectionLag + 1) * EpochSize - 1
    BY <1>3 DEF GetSelectionBoundaryBlock, q
  <2> QED
    BY <2>2, <2>3, <2>4, SlotAssumption
<1> QED
  BY <1>2, <1>3

\* Later blocks look at later boundaries.
LEMMA BoundaryMonotone ==
  ASSUME NEW m \in Nat, NEW n \in Nat, m <= n
  PROVE  GetSelectionBoundaryBlock(m) <= GetSelectionBoundaryBlock(n)
<1> DEFINE p == GetEpochForBlock(m)
           q == GetEpochForBlock(n)
<1>1. p \in Nat /\ q \in Nat /\ p <= q
  BY EpochFacts, EpochMonotone
<1> HIDE DEF p, q
<1>2. CASE p < SelectionLag
  <2>1. GetSelectionBoundaryBlock(m) = GenesisBlock
    BY <1>2 DEF GetSelectionBoundaryBlock, p
  <2> QED
    BY <2>1, BoundaryType
<1>3. CASE ~(p < SelectionLag)
  <2>1. ~(q < SelectionLag)
    BY <1>1, <1>3, SlotAssumption
  <2>2. p - SelectionLag + 1 \in Int /\ q - SelectionLag + 1 \in Int
        /\ p - SelectionLag + 1 <= q - SelectionLag + 1
    BY <1>1, SlotAssumption
  <2>3. (p - SelectionLag + 1) * EpochSize <= (q - SelectionLag + 1) * EpochSize
    BY <2>2, ProductMonotone, SlotAssumption
  <2>4. /\ GetSelectionBoundaryBlock(m) = GenesisBlock + (p - SelectionLag + 1) * EpochSize - 1
        /\ GetSelectionBoundaryBlock(n) = GenesisBlock + (q - SelectionLag + 1) * EpochSize - 1
    BY <1>3, <2>1 DEF GetSelectionBoundaryBlock, p, q
  <2>5. (p - SelectionLag + 1) * EpochSize \in Int /\ (q - SelectionLag + 1) * EpochSize \in Int
    BY <2>2, SlotAssumption
  <2> QED
    BY <2>3, <2>4, <2>5, SlotAssumption
<1> QED
  BY <1>2, <1>3

\* The boundary is genesis or lies more than SelectionLag - 1 epochs in the past.
LEMMA BoundaryLags ==
  ASSUME NEW n \in Nat
  PROVE  \/ GetSelectionBoundaryBlock(n) = GenesisBlock
         \/ GetSelectionBoundaryBlock(n) + (SelectionLag - 1) * EpochSize < n
<1> DEFINE q == GetEpochForBlock(n)
<1>1. q \in Nat /\ (n > GenesisBlock => q * EpochSize <= n - GenesisBlock)
  BY EpochFacts
<1>2. n <= GenesisBlock => q = 0
  BY DEF GetEpochForBlock
<1>3. q < SelectionLag => GetSelectionBoundaryBlock(n) = GenesisBlock
  BY DEF GetSelectionBoundaryBlock
<1>4. ~(q < SelectionLag) =>
        GetSelectionBoundaryBlock(n) = GenesisBlock + (q - SelectionLag + 1) * EpochSize - 1
  BY DEF GetSelectionBoundaryBlock
<1> HIDE DEF q
<1>5. CASE ~(q < SelectionLag)
  <2>1. n > GenesisBlock
    BY <1>1, <1>2, <1>5, SlotAssumption
  <2>2. (q - SelectionLag + 1) * EpochSize = q * EpochSize - (SelectionLag - 1) * EpochSize
    BY <1>1, Distribute, SlotAssumption
  <2>3. q * EpochSize \in Int /\ (SelectionLag - 1) * EpochSize \in Int
    BY <1>1, SlotAssumption
  <2> QED
    BY <1>1, <1>4, <1>5, <2>1, <2>2, <2>3, SlotAssumption
<1> QED
  BY <1>3, <1>5

\* The index selectionSnapshotForBlock stops at.
LastAt(c, b) == CHOOSE i \in DOMAIN c : /\ c[i].number <= b
                                        /\ \A j \in DOMAIN c : c[j].number <= b => j <= i

LEMMA LastAtFound ==
  ASSUME NEW c \in Seq(Entry), NEW b, 1 \in DOMAIN c, c[1].number <= b
  PROVE  /\ LastAt(c, b) \in DOMAIN c
         /\ c[LastAt(c, b)].number <= b
         /\ \A j \in DOMAIN c : c[j].number <= b => j <= LastAt(c, b)
<1> DEFINE S == {i \in DOMAIN c : c[i].number <= b}
<1>1. Len(c) \in Nat /\ DOMAIN c = 1 .. Len(c)
  OBVIOUS
<1>2. S \in SUBSET (0 .. Len(c)) /\ 1 \in S
  BY <1>1
<1>3. \E i \in S : \A j \in S : j <= i
  <2> HIDE DEF S
  <2> QED
    BY <1>1, <1>2, GreatestNumber
<1>4. \E i \in DOMAIN c : c[i].number <= b /\ \A j \in DOMAIN c : c[j].number <= b => j <= i
  BY <1>3
<1> QED
  BY <1>4 DEF LastAt

LEMMA GenesisFound ==
  ASSUME Inv, NEW n \in Nat
  PROVE  /\ chain \in Seq(Entry)
         /\ 1 \in DOMAIN chain
         /\ chain[1].number <= GetSelectionBoundaryBlock(n)
BY TipType, BoundaryType DEF Inv, TypeOK, ChainInv

LEMMA SnapshotAt ==
  ASSUME NEW n
  PROVE  SelectionSnapshot(n) = chain[LastAt(chain, GetSelectionBoundaryBlock(n))]
BY DEF SelectionSnapshot, LastAt

-----------------------------------------------------------------------------
(* A frozen chain.                                                         *)

\* Without an active member somebody's heartbeat was seen, and every one has expired.
LEMMA NobodyActive ==
  ASSUME Inv, NEW i \in DOMAIN chain, NEW n \in Nat, ActiveMembers(chain[i], n) = {}
  PROVE  /\ chain[i].seen
         /\ \A k \in chain[i].members : chain[i].beat[k] < n - HeartbeatValid
<1>1. chain[i] \in Entry /\ chain[1] \in Entry /\ i \in 1 .. Len(chain) /\ 1 \in DOMAIN chain
  BY TipType DEF Inv
<1>2. Founder \in chain[i].members
  <2>1. CASE i = 1
    BY <2>1 DEF Inv, ChainInv
  <2>2. CASE 1 < i
    BY <1>1, <2>2 DEF Inv, ChainInv
  <2> QED
    BY <1>1, <2>1, <2>2
<1>3. chain[i].seen
  BY <1>2 DEF ActiveMembers
<1>4. \A k \in chain[i].members : chain[i].beat[k] \in Int
  BY <1>1 DEF Entry
<1>5. \A k \in chain[i].members : ~(chain[i].beat[k] >= n - HeartbeatValid)
  BY DEF ActiveMembers
<1> QED
  BY <1>3, <1>4, <1>5, SlotAssumption

LEMMA FrozenTick ==
  ASSUME Inv, Frozen
  PROVE  GetAuthorizedCreators(slot + 1) = {}
<1> DEFINE i == LastAt(chain, GetSelectionBoundaryBlock(slot))
           j == LastAt(chain, GetSelectionBoundaryBlock(slot + 1))
<1>1. slot \in Nat /\ slot + 1 \in Nat
  BY DEF Inv, TypeOK
<1>2. /\ CheckpointActive(slot) = {}
      /\ LatestActive(slot) = {}
      /\ RecoveryExhausted
  BY DEF Frozen, GetAuthorizedCreators
<1>3. /\ i \in DOMAIN chain
      /\ j \in DOMAIN chain
      /\ chain[i].number <= GetSelectionBoundaryBlock(slot)
      /\ \A x \in DOMAIN chain : chain[x].number <= GetSelectionBoundaryBlock(slot + 1) => x <= j
  BY <1>1, GenesisFound, LastAtFound
<1>4. SelectionSnapshot(slot) = chain[i] /\ SelectionSnapshot(slot + 1) = chain[j]
  BY SnapshotAt
<1> HIDE DEF i, j
<1>5. i <= j
  <2>1. GetSelectionBoundaryBlock(slot) <= GetSelectionBoundaryBlock(slot + 1)
    BY <1>1, BoundaryMonotone
  <2>2. chain[i].number \in Nat
    BY <1>3, TipType DEF Inv, Entry
  <2>3. GetSelectionBoundaryBlock(slot) \in Nat /\ GetSelectionBoundaryBlock(slot + 1) \in Nat
    BY <1>1, BoundaryType
  <2>4. chain[i].number <= GetSelectionBoundaryBlock(slot + 1)
    BY <1>3, <2>1, <2>2, <2>3
  <2> QED
    BY <1>3, <2>4
<1>6. chain[i].seen
  BY <1>1, <1>2, <1>3, <1>4, NobodyActive DEF CheckpointActive
<1>7. chain[j].seen
  BY <1>3, <1>5, <1>6, TipType DEF Inv, ChainInv
<1>8. Len(chain) \in DOMAIN chain /\ Tip = chain[Len(chain)]
  BY TipType DEF Inv, Tip
<1>9. Tip.seen /\ \A k \in Tip.members : Tip.beat[k] < slot - HeartbeatValid
  BY <1>1, <1>2, <1>8, NobodyActive DEF LatestActive
<1>10. \A k \in Key : Tip.beat[k] \in Int /\ chain[j].beat[k] \in Int
  BY <1>3, TipType DEF Inv, Entry
<1>11. Tip.members \subseteq Key
  BY TipType DEF Inv, Entry
<1>12. LatestActive(slot + 1) = {}
  <2>1. \A k \in Tip.members : ~(Tip.beat[k] >= (slot + 1) - HeartbeatValid)
    <3> TAKE k \in Tip.members
    <3>1. Tip.beat[k] \in Int /\ Tip.beat[k] < slot - HeartbeatValid
      BY <1>9, <1>10, <1>11
    <3> QED
      BY <1>1, <3>1, SlotAssumption
  <2>2. Tip.seen
    BY <1>9
  <2>3. ActiveMembers(Tip, slot + 1) = {}
    BY <2>1, <2>2, Zenon DEF ActiveMembers
  <2> QED
    BY <2>3 DEF LatestActive
<1>13. CheckpointActive(slot + 1) = {}
  <2>1. chain[j].members \subseteq Tip.members /\ \A k \in Key : chain[j].beat[k] <= Tip.beat[k]
    BY <1>3, BelowTip
  <2>2. \A k \in chain[j].members : ~(chain[j].beat[k] >= (slot + 1) - HeartbeatValid)
    <3> TAKE k \in chain[j].members
    <3>1. /\ Tip.beat[k] \in Int
          /\ chain[j].beat[k] \in Int
          /\ Tip.beat[k] < slot - HeartbeatValid
          /\ chain[j].beat[k] <= Tip.beat[k]
      BY <1>9, <1>10, <1>11, <2>1
    <3> QED
      BY <1>1, <3>1, SlotAssumption
  <2>3. ActiveMembers(chain[j], slot + 1) = {}
    BY <1>7, <2>2, Zenon DEF ActiveMembers
  <2> QED
    BY <1>4, <2>3 DEF CheckpointActive
<1> QED
  BY <1>2, <1>12, <1>13 DEF GetAuthorizedCreators

\* Nobody is ever authorised again once nobody is: the recovery window does not refill
\* and a later checkpoint never has a fresher heartbeat than the tip.
THEOREM FrozenStays == Spec => FrozenForever
<1>1. Init => Inv
  BY ChainInvInit, TypeInit DEF Inv
<1>2. Inv /\ [Next]_vars => Inv'
  BY TypeStep, ChainInvStep DEF Inv
<1>3. ASSUME Inv, [Next]_vars, Frozen PROVE Frozen'
  <2>1. CASE chain' = chain /\ slot' = slot
    BY <1>3, <2>1 DEF Frozen, Tip, GetAuthorizedCreators, CheckpointActive, LatestActive,
       RecoveryExhausted, SelectionSnapshot
  <2>2. CASE chain' = chain /\ slot' = slot + 1
    <3>1. GetAuthorizedCreators(slot + 1) = {}
      BY <1>3, FrozenTick
    <3>2. GetAuthorizedCreators(slot)' = GetAuthorizedCreators(slot + 1)
      BY <2>2 DEF Tip, GetAuthorizedCreators, CheckpointActive, LatestActive,
         RecoveryExhausted, SelectionSnapshot
    <3>3. Tip.number < slot + 1 /\ Tip' = Tip
      BY <1>3, <2>2, TipType DEF Frozen, Inv, TypeOK, Entry, Tip
    <3> QED
      BY <2>2, <3>1, <3>2, <3>3 DEF Frozen
  <2>3. ~\E k \in Key : k \in GetAuthorizedCreators(slot)
    BY <1>3 DEF Frozen
  <2> QED
    BY <1>3, <2>1, <2>2, <2>3, StepShape DEF Inv
<1>4. Inv /\ [Next]_vars => [Frozen => Frozen']_vars
  BY <1>3
<1> QED
  BY <1>1, <1>2, <1>4, PTL DEF Spec, FrozenForever

-----------------------------------------------------------------------------
(* The schedule.                                                           *)

\* A block of the current slot leaves the checkpoints of the coming slots alone.
LEMMA SnapshotSettled ==
  ASSUME Inv, NEW e \in Entry, e.number = slot, Tip.number < slot,
         NEW n \in slot .. slot + (SelectionLag - 1) * EpochSize,
         chain' = Append(chain, e)
  PROVE  SelectionSnapshot(n)' = SelectionSnapshot(n)
<1> DEFINE b == GetSelectionBoundaryBlock(n)
           i == LastAt(chain, b)
           j == LastAt(chain', b)
           L == Len(chain)
<1>1. slot \in Nat /\ n \in Nat /\ (SelectionLag - 1) * EpochSize \in Int
  <2>1. slot \in Nat /\ (SelectionLag - 1) * EpochSize \in Int
    BY SlotAssumption DEF Inv, TypeOK
  <2> QED
    BY <2>1
<1>2. b \in Nat
  BY <1>1, BoundaryType
<1>3. chain \in Seq(Entry) /\ L \in Nat \ {0} /\ DOMAIN chain = 1 .. L
  BY TipType DEF Inv, TypeOK
<1>4. /\ chain' \in Seq(Entry)
      /\ DOMAIN chain' = 1 .. L + 1
      /\ chain'[L + 1] = e
      /\ \A x \in 1 .. L : chain'[x] = chain[x]
  BY <1>3
<1>5. b < slot
  <2>1. CASE b = GenesisBlock
    <3>1. chain[1].number <= Tip.number /\ chain[1].number = GenesisBlock
      BY <1>3, BelowTip DEF Inv, ChainInv
    <3>2. Tip.number \in Nat
      BY TipType DEF Inv, Entry
    <3> QED
      BY <1>1, <2>1, <3>1, <3>2, SlotAssumption
  <2>2. CASE b + (SelectionLag - 1) * EpochSize < n
    BY <1>1, <1>2, <2>2
  <2> QED
    BY <1>1, <2>1, <2>2, BoundaryLags
<1>6. 1 \in DOMAIN chain /\ chain[1].number <= b /\ 1 \in DOMAIN chain' /\ chain'[1].number <= b
  BY <1>1, <1>3, <1>4, GenesisFound
<1>7. /\ i \in DOMAIN chain
      /\ chain[i].number <= b
      /\ \A x \in DOMAIN chain : chain[x].number <= b => x <= i
  BY <1>3, <1>6, LastAtFound
<1>8. /\ j \in DOMAIN chain'
      /\ chain'[j].number <= b
      /\ \A x \in DOMAIN chain' : chain'[x].number <= b => x <= j
  BY <1>4, <1>6, LastAtFound
<1>9. SelectionSnapshot(n) = chain[i] /\ SelectionSnapshot(n)' = chain'[j]
  BY DEF SelectionSnapshot, LastAt
<1> HIDE DEF b, i, j
<1>10. j # L + 1
  BY <1>1, <1>2, <1>4, <1>5, <1>8
<1>11. j \in 1 .. L /\ i \in 1 .. L
  BY <1>3, <1>4, <1>7, <1>8, <1>10
<1>12. j <= i /\ i <= j
  BY <1>3, <1>4, <1>7, <1>8, <1>11
<1> QED
  BY <1>4, <1>9, <1>11, <1>12

\* The creators of the next SelectionLag - 1 epochs do not depend on the block of the
\* current slot, as long as their checkpoint has an active member.
THEOREM CreatorsSettled == Spec => ScheduleSettled
<1>1. Init => Inv
  BY ChainInvInit, TypeInit DEF Inv
<1>2. Inv /\ [Next]_vars => Inv'
  BY TypeStep, ChainInvStep DEF Inv
<1>3. ASSUME Inv, [Next]_vars,
             NEW n \in slot .. slot + (SelectionLag - 1) * EpochSize,
             CheckpointActive(n) # {}
      PROVE  GetAuthorizedCreators(n)' = GetAuthorizedCreators(n)
  <2>1. CASE chain' = chain
    BY <2>1 DEF Tip, GetAuthorizedCreators, CheckpointActive, LatestActive,
       RecoveryExhausted, SelectionSnapshot
  <2>2. ASSUME NEW k \in Key, NEW joins \in SUBSET Key, NEW beats \in SUBSET Key,
               Tip.number < slot, chain' = Append(chain, NewEntry(k, joins, beats))
        PROVE  GetAuthorizedCreators(n)' = GetAuthorizedCreators(n)
    <3>1. NewEntry(k, joins, beats) \in Entry /\ NewEntry(k, joins, beats).number = slot
      BY <1>3, NewEntryType DEF Inv, NewEntry
    <3>2. SelectionSnapshot(n)' = SelectionSnapshot(n)
      BY <1>3, <2>2, <3>1, SnapshotSettled
    <3>3. CheckpointActive(n)' = CheckpointActive(n)
      BY <3>2 DEF CheckpointActive, ActiveMembers
    <3> QED
      BY <1>3, <3>3 DEF GetAuthorizedCreators
  <2> QED
    BY <1>3, <2>1, <2>2, StepShape DEF Inv
<1>4. Inv /\ [Next]_vars =>
        [\A n \in slot .. slot + (SelectionLag - 1) * EpochSize :
           CheckpointActive(n) # {} => GetAuthorizedCreators(n)' = GetAuthorizedCreators(n)]_vars
  BY <1>3
<1> QED
  BY <1>1, <1>2, <1>4, PTL DEF Spec, ScheduleSettled

=============================================================================
