--------------------------- MODULE MempoolProofs ---------------------------
(***************************************************************************)
(* Proofs about Mempool for any set of records, of threads that use the     *)
(* mempool and of blocks that come from peers.                              *)
(***************************************************************************)
EXTENDS Mempool, NumberLemmas

\* A chain that grew by a block is a sequence, and has the records it had.
LEMMA GrownChain ==
  ASSUME NEW c, NEW X, Len(c) \in Nat, c = [i \in 1..Len(c) |-> c[i]]
  PROVE  LET d == Append(c, X)
         IN  /\ Len(d) \in Nat
             /\ d = [i \in 1..Len(d) |-> d[i]]
             /\ Recorded(c) \subseteq Recorded(d)
<1> DEFINE S == {c[i] : i \in 1..Len(c)} \cup {X}
           d == Append(c, X)
<1>1. c \in Seq(S)
  BY SMT
<1>2. X \in S
  OBVIOUS
<1> HIDE DEF S
<1>3. /\ d \in Seq(S)
      /\ Len(d) = Len(c) + 1
      /\ \A i \in 1..Len(c) : d[i] = c[i]
  BY <1>1, <1>2
<1> HIDE DEF d
<1>4. Len(d) \in Nat /\ d = [i \in 1..Len(d) |-> d[i]]
  BY <1>3
<1>5. \A i \in 1..Len(c) : i \in 1..Len(d)
  BY <1>3
<1>6. Recorded(c) \subseteq Recorded(d)
  BY <1>3, <1>5 DEF Recorded
<1> QED
  BY <1>4, <1>6 DEF d

\* A chain without its last block is a sequence.
LEMMA ShortChain ==
  ASSUME NEW c, Len(c) \in Nat, Len(c) > 1, c = [i \in 1..Len(c) |-> c[i]]
  PROVE  Len(Front(c)) \in Nat /\ Front(c) = [i \in 1..Len(Front(c)) |-> Front(c)[i]]
<1> DEFINE S == {c[i] : i \in 1..Len(c)}
<1>1. c \in Seq(S)
  BY SMT
<1> HIDE DEF S
<1>2. Front(c) \in Seq(S)
  BY <1>1 DEF Front
<1> QED
  BY <1>2

LEMMA InitClean == Init => CleanupInv
<1> SUFFICES ASSUME Init PROVE CleanupInv
  OBVIOUS
<1>1. chain = <<{}>> /\ gone = [t \in Thread |-> {}] /\ reorgs = 0
  BY DEF Init
<1>2. Len(chain) = 1 /\ chain = [i \in 1..1 |-> chain[i]]
  BY <1>1
<1> QED
  BY <1>1, <1>2 DEF CleanupInv

\* The steps that leave the chain alone and put no more into a batch than Stale.
LEMMA SameChain ==
  ASSUME CleanupInv, UNCHANGED <<chain, reorgs>>, DOMAIN gone' = Thread,
         \A t \in Thread : gone'[t] \in {gone[t], {}, Stale}
  PROVE  CleanupInv'
<1>1. Accepted' = Accepted
  BY DEF Accepted, Recorded
<1>2. ASSUME reorgs = 0, NEW t \in Thread, NEW e \in gone'[t] PROVE e[2] \in Accepted
  BY <1>2 DEF CleanupInv, Stale
<1> QED
  BY <1>1, <1>2 DEF CleanupInv

\* The steps that add a block to the chain.
LEMMA LongerChain ==
  ASSUME CleanupInv, UNCHANGED <<gone, reorgs>>, NEW X, chain' = Append(chain, X)
  PROVE  CleanupInv'
<1>1. /\ Len(chain') \in Nat
      /\ chain' = [i \in 1..Len(chain') |-> chain'[i]]
      /\ Recorded(chain) \subseteq Recorded(chain')
  BY GrownChain DEF CleanupInv
<1>2. Accepted \subseteq Accepted'
  BY <1>1 DEF Accepted, Recorded
<1> QED
  BY <1>1, <1>2 DEF CleanupInv

\* A reading of the mempool leaves the thread's batch empty or fills it with Stale.
LEMMA PeekBatch ==
  ASSUME CleanupInv, NEW u \in Thread, NEW next, Peek(u, next)
  PROVE  DOMAIN gone' = Thread /\ \A t \in Thread : gone'[t] \in {gone[t], {}, Stale}
BY DEF CleanupInv, Peek, Goto

LEMMA StepClean == CleanupInv /\ [Next]_vars => CleanupInv'
<1> SUFFICES ASSUME CleanupInv, [Next]_vars PROVE CleanupInv'
  OBVIOUS
<1> USE DEF net, work, db
<1> DEFINE Batches == DOMAIN gone' = Thread /\ \A t \in Thread : gone'[t] \in {gone[t], {}, Stale}
<1>0. ASSUME gone' = gone PROVE Batches
  BY <1>0 DEF CleanupInv
<1>1. ASSUME UNCHANGED vars PROVE CleanupInv'
  BY <1>1, <1>0, SameChain DEF vars
<1>2. ASSUME NEW t \in Thread, AddLookup(t) \/ AddSequence(t) \/ AddPut(t) PROVE CleanupInv'
  BY <1>2, <1>0, SameChain DEF AddLookup, AddSequence, AddPut
<1>3. ASSUME NEW t \in Thread, PeekClean(t) PROVE CleanupInv'
  BY <1>3, SameChain DEF PeekClean, CleanupInv
<1>4. ASSUME NEW t \in Thread, Show(t) PROVE CleanupInv'
  BY <1>4, PeekBatch, SameChain DEF Show
<1>5. ASSUME NEW t \in Thread, NEW r \in Record, AddCheck(t, r) PROVE CleanupInv'
  BY <1>5, <1>0, SameChain DEF AddCheck
<1>6. ASSUME NEW t \in Thread, NEW s \in Wallet, SendNonce(t, s) PROVE CleanupInv'
  BY <1>6, <1>0, SameChain DEF SendNonce
<1>7. ASSUME NEW t \in Thread, NEW r \in Transfer, SendPeek(t, r) PROVE CleanupInv'
  BY <1>7, PeekBatch, SameChain DEF SendPeek
<1>8. ASSUME NEW r \in Record, HeartbeatDue(r) PROVE CleanupInv'
  BY <1>8, PeekBatch, SameChain DEF HeartbeatDue, Thread
<1>9. CASE PruneBegin
  BY <1>9, PeekBatch, SameChain DEF PruneBegin, Thread
<1>10. CASE PruneCheck \/ Replace \/ ParseList \/ ClearKeys \/ ClearHashes \/ Clear
  BY <1>10, <1>0, SameChain DEF PruneCheck, Replace, ParseList, ClearKeys, ClearHashes, Clear
<1>11. CASE BuildBegin
  BY <1>11, <1>0, SameChain DEF BuildBegin
<1>12. ASSUME NEW poor, NEW valid, AddBlock(poor, valid) PROVE CleanupInv'
  <2>1. UNCHANGED <<gone, reorgs>>
    BY <1>12 DEF AddBlock
  <2>2. chain' = Append(chain, ToSet(Block(poor))) \/ chain' = chain
    BY <1>12 DEF AddBlock
  <2>3. CASE chain' = chain
    BY <2>1, <2>3, <1>0, SameChain
  <2> QED
    BY <2>1, <2>2, <2>3, LongerChain
<1>13. ASSUME NEW records, PeerBlock(records) PROVE CleanupInv'
  BY <1>13, LongerChain DEF PeerBlock
<1>14. ASSUME NEW records, Reorg(records) PROVE CleanupInv'
  <2>1. /\ chain' = Append(Front(chain), ToSet(records))
        /\ Len(chain) > 1
        /\ reorgs' = reorgs + 1
        /\ gone' = gone
    BY <1>14 DEF Reorg
  <2>2. Len(Front(chain)) \in Nat /\ Front(chain) = [i \in 1..Len(Front(chain)) |-> Front(chain)[i]]
    BY <2>1, ShortChain DEF CleanupInv
  <2>3. Len(chain') \in Nat /\ chain' = [i \in 1..Len(chain') |-> chain'[i]]
    BY <2>1, <2>2, GrownChain
  <2>4. reorgs' \in Nat /\ reorgs' # 0
    BY <2>1 DEF CleanupInv
  <2> QED
    BY <2>1, <2>3, <2>4 DEF CleanupInv
<1>15. CASE Crash
  BY <1>15, SameChain DEF Crash
<1> QED
  BY <1>1, <1>2, <1>3, <1>4, <1>5, <1>6, <1>7, <1>8, <1>9, <1>10, <1>11, <1>12, <1>13, <1>14, <1>15
  DEF Next

\* What a reading of the mempool is about to delete is on the chain, unless a block was
\* taken back meanwhile.
THEOREM BatchesAccepted == Spec => []CleanupInv
<1>1. Init => CleanupInv
  BY InitClean
<1>2. CleanupInv /\ [Next]_vars => CleanupInv'
  BY StepClean
<1> QED
  BY <1>1, <1>2, PTL DEF Spec

LEMMA StepDropsNothing ==
  ASSUME CleanupInv, Next, NEW r \in Pending \ Pending'
  PROVE  r \in Accepted \/ reorgs > 0 \/ Clear
<1> USE DEF net, work, db
<1>1. ASSUME UNCHANGED <<pool, legacy>> PROVE FALSE
  BY <1>1 DEF Pending
<1>2. ASSUME NEW t \in Thread, AddLookup(t) \/ AddSequence(t) \/ Show(t) PROVE FALSE
  BY <1>2, <1>1 DEF AddLookup, AddSequence, Show
<1>3. ASSUME NEW t \in Thread, AddPut(t) PROVE FALSE
  BY <1>3 DEF AddPut, Pending
<1>4. ASSUME NEW t \in Thread, PeekClean(t) PROVE r \in Accepted \/ reorgs > 0
  <2>1. PICK e \in gone[t] : r = e[2]
    BY <1>4 DEF PeekClean, Pending
  <2> QED
    BY <2>1 DEF CleanupInv
<1>5. ASSUME NEW t \in Thread, NEW s \in Record, AddCheck(t, s) PROVE FALSE
  BY <1>5, <1>1 DEF AddCheck
<1>6. ASSUME NEW t \in Thread, NEW s \in Wallet, SendNonce(t, s) PROVE FALSE
  BY <1>6, <1>1 DEF SendNonce
<1>7. ASSUME NEW t \in Thread, NEW s \in Transfer, SendPeek(t, s) PROVE FALSE
  BY <1>7, <1>1 DEF SendPeek
<1>8. ASSUME NEW s \in Record, HeartbeatDue(s) PROVE FALSE
  BY <1>8, <1>1 DEF HeartbeatDue
<1>9. ASSUME PruneBegin \/ PruneCheck \/ Replace \/ BuildBegin PROVE FALSE
  BY <1>9, <1>1 DEF PruneBegin, PruneCheck, Replace, BuildBegin
<1>10. ASSUME ParseList PROVE r \in Accepted
  <2>1. PICK e \in pool : r = e[2] /\ e \in Stale
    BY <1>10 DEF ParseList, Pending
  <2> QED
    BY <2>1 DEF Stale
<1>11. ASSUME ClearKeys \/ ClearHashes \/ Crash PROVE FALSE
  BY <1>11, <1>1 DEF ClearKeys, ClearHashes, Crash
<1>12. ASSUME NEW records, PeerBlock(records) \/ Reorg(records) PROVE FALSE
  BY <1>12, <1>1 DEF PeerBlock, Reorg
<1>13. ASSUME NEW poor, NEW valid, AddBlock(poor, valid) PROVE FALSE
  BY <1>13, <1>1 DEF AddBlock
<1> QED
  BY <1>2, <1>3, <1>4, <1>5, <1>6, <1>7, <1>8, <1>9, <1>10, <1>11, <1>12, <1>13 DEF Next

\* Whatever threads read the mempool and however their cleanups interleave, only the
\* builder's drain takes out a record that is not on the chain, unless a block was
\* taken back between a reading and its cleanup.
THEOREM ReadersAreHarmless == Spec => ReadersDropNothing
<1> DEFINE Drop == \A r \in Pending \ Pending' : r \in Accepted \/ reorgs > 0 \/ Clear
<1>1. CleanupInv /\ [Next]_vars => [Drop]_vars
  BY StepDropsNothing
<1>2. Spec => []CleanupInv
  BY BatchesAccepted
<1> QED
  BY <1>1, <1>2, PTL DEF Spec, ReadersDropNothing

-----------------------------------------------------------------------------
(* The list of pending records.                                            *)

\* The sequence that InOrder makes, with the number of members before x as b[x].
IsPlaced(s, S, b) == s = [i \in 1..Cardinality(S) |-> CHOOSE x \in S : b[x] = i - 1]

\* No member twice.
Distinct(s) == \A i, k \in 1..Len(s) : i # k => s[i] # s[k]

LEMMA Placed ==
  ASSUME NEW S, IsFiniteSet(S), NEW b, NEW s, IsPlaced(s, S, b),
         \A i \in 1..Cardinality(S) : \E x \in S : b[x] = i - 1
  PROVE  s \in Seq(S) /\ Distinct(s)
<1> DEFINE n == Cardinality(S)
           g(i) == CHOOSE x \in S : b[x] = i - 1
<1>1. n \in Nat
  BY FS_CardinalityType
<1>2. \A i \in 1..n : g(i) \in S /\ b[g(i)] = i - 1
  OBVIOUS
<1>3. s = [i \in 1..n |-> g(i)]
  BY DEF IsPlaced
<1> HIDE DEF n, g
<1>4. s \in [1..n -> S] /\ \A i \in 1..n : b[s[i]] = i - 1
  BY <1>2, <1>3
<1>5. s \in Seq(S) /\ Len(s) = n
  BY <1>1, <1>4
<1>6. \A i, k \in 1..n : i # k => s[i] # s[k]
  <2> SUFFICES ASSUME NEW i \in 1..n, NEW k \in 1..n, s[i] = s[k] PROVE i = k
    OBVIOUS
  <2>1. i - 1 = k - 1
    BY <1>4
  <2> QED
    BY <1>1, <2>1
<1> QED
  BY <1>5, <1>6 DEF Distinct

\* The members of a finite set in a strict total order.
LEMMA PlacedByOrder ==
  ASSUME NEW S, IsFiniteSet(S), NEW R,
         \A x \in S : <<x, x>> \notin R,
         \A x, y \in S : x # y => <<x, y>> \in R \/ <<y, x>> \in R,
         \A x, y, z \in S : <<x, y>> \in R /\ <<y, z>> \in R => <<x, z>> \in R,
         NEW b, \A x \in S : b[x] = Cardinality({y \in S : <<y, x>> \in R}),
         NEW s, IsPlaced(s, S, b)
  PROVE  s \in Seq(S) /\ Distinct(s)
<1>1. \A i \in 1..Cardinality(S) : \E x \in S : Cardinality({y \in S : <<y, x>> \in R}) = i - 1
  BY Ranks, Zenon
<1>2. \A i \in 1..Cardinality(S) : \E x \in S : b[x] = i - 1
  <2> TAKE i \in 1..Cardinality(S)
  <2>1. PICK x \in S : Cardinality({y \in S : <<y, x>> \in R}) = i - 1
    BY <1>1
  <2> QED
    BY <2>1
<1> QED
  BY <1>2, Placed

LEMMA ListedInOrder ==
  ASSUME pool \subseteq (1..MaxSeq) \X Record, legacy \subseteq Record
  PROVE  /\ Listed \in Seq(Record)
         /\ \A i \in 1..Len(Listed) : Listed[i] \in Read
         /\ Distinct(Listed)
<1> DEFINE seqs(r) == {e[1] : e \in {f \in pool \ Stale : f[2] = r}} \cup {MaxSeq + 1}
           place == [r \in Read |-> Min(seqs(r))]
           Before(q, r) == place[q] < place[r] \/ (place[q] = place[r] /\ q < r)
           b == [x \in Read |-> Cardinality({y \in Read : Before(y, x)})]
           R == {x \in Read \X Read : Before(x[1], x[2])}
<1>1. Read \subseteq Record /\ Read \subseteq Nat
  BY RecordAssumption DEF Read
<1>2. IsFiniteSet(Read)
  BY <1>1, RecordAssumption, FS_Subset
<1>3. \A r \in Read : place[r] \in Nat
  <2> SUFFICES ASSUME NEW r \in Read PROVE Min(seqs(r)) \in Nat
    OBVIOUS
  <2>1. seqs(r) \in SUBSET Nat /\ seqs(r) # {}
    BY RecordAssumption
  <2> HIDE DEF seqs
  <2>2. \E x \in seqs(r) : \A y \in seqs(r) : x <= y
    BY <2>1, LeastNumber
  <2> QED
    BY <2>1, <2>2 DEF Min
<1>4. IsPlaced(Listed, Read, b)
  <2>1. Listed = [i \in 1..Cardinality(Read) |->
                    CHOOSE x \in Read : Cardinality({y \in Read : Before(y, x)}) = i - 1]
    BY DEF Listed, InOrder
  <2>2. \A x \in Read : b[x] = Cardinality({y \in Read : Before(y, x)})
    OBVIOUS
  <2> DEFINE c(x) == Cardinality({y \in Read : Before(y, x)})
  <2>3. Listed = [i \in 1..Cardinality(Read) |-> CHOOSE x \in Read : c(x) = i - 1]
    BY <2>1
  <2>4. \A x \in Read : b[x] = c(x)
    BY <2>2
  <2> HIDE DEF c, b
  <2> QED
    BY <2>3, <2>4 DEF IsPlaced
<1> HIDE DEF place
<1>5. \A x, y \in Read : <<x, y>> \in R <=> Before(x, y)
  OBVIOUS
<1>6. \A x \in Read : b[x] = Cardinality({y \in Read : <<y, x>> \in R})
  <2>1. \A x \in Read : {y \in Read : Before(y, x)} = {y \in Read : <<y, x>> \in R}
    BY <1>5
  <2> HIDE DEF Before, R
  <2> QED
    BY <2>1
<1>7. /\ \A x \in Read : <<x, x>> \notin R
      /\ \A x, y \in Read : x # y => <<x, y>> \in R \/ <<y, x>> \in R
      /\ \A x, y, z \in Read : <<x, y>> \in R /\ <<y, z>> \in R => <<x, z>> \in R
  <2>1. \A x \in Read : ~Before(x, x)
    BY <1>1, <1>3
  <2>2. \A x, y \in Read : x # y => Before(x, y) \/ Before(y, x)
    BY <1>1, <1>3
  <2>3. \A x, y, z \in Read : Before(x, y) /\ Before(y, z) => Before(x, z)
    BY <1>1, <1>3
  <2> HIDE DEF Before, R
  <2> QED
    BY <1>5, <2>1, <2>2, <2>3
<1>8. Listed \in Seq(Read) /\ Distinct(Listed)
  <2> DEFINE L == Listed
             S == Read
  <2>1. /\ IsFiniteSet(S)
        /\ IsPlaced(L, S, b)
        /\ \A x \in S : b[x] = Cardinality({y \in S : <<y, x>> \in R})
        /\ \A x \in S : <<x, x>> \notin R
        /\ \A x, y \in S : x # y => <<x, y>> \in R \/ <<y, x>> \in R
        /\ \A x, y, z \in S : <<x, y>> \in R /\ <<y, z>> \in R => <<x, z>> \in R
    <3> HIDE DEF R, b
    <3> QED
      BY <1>2, <1>4, <1>6, <1>7
  <2> HIDE DEF R, b, L, S, Before, seqs
  <2>2. L \in Seq(S)
    BY <2>1, PlacedByOrder
  <2>3. Distinct(L)
    BY <2>1, PlacedByOrder
  <2> QED
    BY <2>2, <2>3 DEF L, S
<1>9. \A i \in 1..Len(Listed) : Listed[i] \in Read
  BY <1>8
<1>10. Listed \in Seq(Record)
  <2> HIDE DEF R, b, Before, seqs
  <2>1. Len(Listed) \in Nat /\ Listed \in [1..Len(Listed) -> Read]
    BY <1>8
  <2>2. Listed \in [1..Len(Listed) -> Record]
    BY <1>1, <2>1
  <2> QED
    BY <2>1, <2>2
<1> QED
  BY <1>8, <1>9, <1>10

\* pruneAcceptedQueueRecords keeps records of its list.
Kept(d, A) ==
  LET order == InOrder({i \in 1..Len(d) : d[i] \notin A}, <)
  IN  [i \in 1..Len(order) |-> d[order[i]]]

LEMMA KeptInOrder ==
  ASSUME NEW d \in Seq(Record), NEW A
  PROVE  Kept(d, A) \in Seq(Record)
<1> DEFINE S == {i \in 1..Len(d) : d[i] \notin A}
           b == [x \in S |-> Cardinality({y \in S : y < x})]
           R == {x \in S \X S : x[1] < x[2]}
           order == [i \in 1..Cardinality(S) |-> CHOOSE x \in S : Cardinality({y \in S : y < x}) = i - 1]
<1>1. S \in SUBSET (1..Len(d)) /\ Len(d) \in Nat
  OBVIOUS
<1>2. IsFiniteSet(S)
  <2>1. IsFiniteSet(1..Len(d))
    BY <1>1, FS_Interval
  <2> HIDE DEF S
  <2> QED
    BY <1>1, <2>1, FS_Subset
<1>3. \A i \in S : d[i] \in Record /\ i \in Nat
  OBVIOUS
<1>4. Kept(d, A) = [i \in 1..Len(order) |-> d[order[i]]]
  BY DEF Kept, InOrder
<1> HIDE DEF S
<1>5. IsPlaced(order, S, b)
  <2> DEFINE c(x) == Cardinality({y \in S : y < x})
  <2>1. order = [i \in 1..Cardinality(S) |-> CHOOSE x \in S : c(x) = i - 1]
    OBVIOUS
  <2>2. \A x \in S : b[x] = c(x)
    OBVIOUS
  <2> HIDE DEF c, b, order
  <2> QED
    BY <2>1, <2>2 DEF IsPlaced
<1>6. \A x, y \in S : <<x, y>> \in R <=> x < y
  OBVIOUS
<1>7. \A x \in S : b[x] = Cardinality({y \in S : <<y, x>> \in R})
  <2>1. \A x \in S : {y \in S : y < x} = {y \in S : <<y, x>> \in R}
    BY <1>6
  <2> HIDE DEF R
  <2> QED
    BY <2>1
<1>8. /\ \A x \in S : <<x, x>> \notin R
      /\ \A x, y \in S : x # y => <<x, y>> \in R \/ <<y, x>> \in R
      /\ \A x, y, z \in S : <<x, y>> \in R /\ <<y, z>> \in R => <<x, z>> \in R
  BY <1>3, <1>6
<1>9. order \in Seq(S)
  <2> HIDE DEF R, b, order
  <2> QED
    BY <1>2, <1>5, <1>7, <1>8, PlacedByOrder
<1> HIDE DEF order
<1> QED
  BY <1>3, <1>4, <1>9

-----------------------------------------------------------------------------
(* What the state of a node's mempool always is.                           *)

Entries == (1..MaxSeq) \X Record
Jobs == [op : Ops, arg : Record \cup Wallet \cup {None}, num : Nat]

\* The steps of parseQueueRecords, after its list and before AddBlock.
Drained == {"keys", "hashes", "clear", "block"}

\* The database and the lists that the builder keeps of it.
StoreInv ==
  /\ pool \subseteq Entries
  /\ hashKeys \subseteq Record
  /\ nextSeq \in 1..(MaxSeq + 1)
  /\ legacy \subseteq Legacy
  /\ keys \subseteq Entries
  /\ hashes \subseteq Record
  /\ gone \in [Thread -> SUBSET Entries]

\* The threads: the record that is about to be put has a sequence number, and the builder
\* returns to a rewrite of the queue only while there are records left to queue.
JobInv ==
  /\ job \in [Thread -> Jobs]
  /\ \A t \in Thread :
       /\ job[t].op \in {"lookup", "sequence", "put"} => job[t].arg \in Record
       /\ job[t].op = "put" => job[t].num \in 1..MaxSeq
  /\ draft \in Seq(Record)
  /\ job[Builder].op = "replace" => draft # <<>>

\* The chain, and the chain that the block being built extends.
ChainInv ==
  /\ chain \in Seq(SUBSET Record)
  /\ Len(chain) \in 1..MaxBlocks
  /\ moved \in BOOLEAN
  /\ reorgs \in 0..MaxReorgs
  /\ parent # <<>> => /\ parent \in Seq(SUBSET Record)
                      /\ Len(parent) < MaxBlocks
                      /\ job[Builder].op \in {"parse"} \cup Drained
                      /\ ~moved => chain = parent
  /\ job[Builder].op = "block" => parent # <<>>

\* The records drained for a block are different, and none that comes from the database is
\* on the chain, as long as the chain does not move.
DraftInv ==
  job[Builder].op \in Drained /\ parent # <<>> /\ ~moved =>
    /\ Distinct(draft)
    /\ \A i \in 1..Len(draft) : draft[i] \in Legacy \/ draft[i] \notin Accepted

PoolInv == StoreInv /\ JobInv /\ ChainInv /\ DraftInv

\* A job that a thread may be given.
GoodJob(j) ==
  /\ j \in Jobs
  /\ j.op \in {"lookup", "sequence", "put"} => j.arg \in Record
  /\ j.op = "put" => j.num \in 1..MaxSeq

LEMMA IdleIsGood == GoodJob(Idle) /\ Idle.op = "idle" /\ Idle.arg = None
BY DEF GoodJob, Idle, Job, Jobs, Ops

LEMMA GotoGood ==
  ASSUME JobInv, NEW t \in Thread, NEW next, GoodJob(next), Goto(t, next)
  PROVE  /\ job' \in [Thread -> Jobs]
         /\ \A u \in Thread : GoodJob(job'[u])
         /\ job'[t] = next
         /\ \A u \in Thread \ {t} : job'[u] = job[u]
<1>1. job' = [job EXCEPT ![t] = next] /\ job \in [Thread -> Jobs] /\ next \in Jobs
  BY DEF JobInv, Goto, GoodJob
<1>2. /\ job' \in [Thread -> Jobs]
      /\ job'[t] = next
      /\ \A u \in Thread \ {t} : job'[u] = job[u]
  BY <1>1
<1>3. \A u \in Thread : GoodJob(job[u])
  BY DEF JobInv, GoodJob
<1> QED
  BY <1>2, <1>3

\* The steps of a thread that leave the chain and the builder's list alone: the clients'
\* steps, and the builder's outside of a drain.
LEMMA QueueStep ==
  ASSUME PoolInv, NEW t \in Thread, NEW next, GoodJob(next), Goto(t, next),
         UNCHANGED <<chain, moved, reorgs, draft, parent>>, StoreInv',
         t = Builder => /\ job[t].op \notin {"parse"} \cup Drained
                        /\ next.op # "block"
                        /\ next.op = "replace" => draft # <<>>
  PROVE  PoolInv'
<1>1. /\ job' \in [Thread -> Jobs]
      /\ \A u \in Thread : GoodJob(job'[u])
      /\ job'[t] = next
      /\ \A u \in Thread \ {t} : job'[u] = job[u]
  BY GotoGood DEF PoolInv
<1>2. Builder \in Thread
  BY DEF Thread
<1>3. JobInv'
  <2>1. job'[Builder].op = "replace" => draft # <<>>
    BY <1>1, <1>2 DEF PoolInv, JobInv
  <2> QED
    BY <1>1, <2>1 DEF PoolInv, JobInv, GoodJob
<1>4. CASE t = Builder
  <2>1. parent = <<>>
    BY <1>4 DEF PoolInv, ChainInv
  <2>2. ChainInv' /\ DraftInv'
    BY <1>1, <1>4, <2>1 DEF PoolInv, ChainInv, DraftInv
  <2> QED
    BY <1>3, <2>2 DEF PoolInv
<1>5. CASE t # Builder
  <2>1. job'[Builder] = job[Builder]
    BY <1>1, <1>2, <1>5
  <2>2. ChainInv'
    BY <2>1 DEF PoolInv, ChainInv
  <2>3. DraftInv'
    BY <2>1 DEF PoolInv, DraftInv, Accepted, Recorded
  <2> QED
    BY <1>3, <2>2, <2>3 DEF PoolInv
<1> QED
  BY <1>4, <1>5

\* A reading of the list, with the cleanup that it may leave to do.
LEMMA PeekGood ==
  ASSUME PoolInv, NEW t \in Thread, NEW next, GoodJob(next),
         next.op \notin {"lookup", "sequence", "put"}, Peek(t, next)
  PROVE  /\ gone' \in [Thread -> SUBSET Entries]
         /\ \E j : GoodJob(j) /\ Goto(t, j) /\ j.op \in {next.op, "clean"}
<1> DEFINE j == [next EXCEPT !.op = "clean"]
<1>1. GoodJob(j) /\ j.op = "clean"
  BY DEF GoodJob, Jobs, Ops
<1>2. Stale \in SUBSET Entries
  BY DEF PoolInv, StoreInv, Stale
<1>3. CASE Stale = {}
  BY <1>3 DEF Peek, PoolInv, StoreInv
<1>4. CASE Stale # {}
  <2>1. Goto(t, j) /\ gone' = [gone EXCEPT ![t] = Stale]
    BY <1>4 DEF Peek
  <2>2. gone' \in [Thread -> SUBSET Entries]
    BY <1>2, <2>1 DEF PoolInv, StoreInv
  <2> QED
    BY <1>1, <2>1, <2>2
<1> QED
  BY <1>3, <1>4

\* The steps of addToQueue and of the readings of the mempool.
LEMMA AddAndPeek ==
  ASSUME PoolInv, NEW t \in Thread,
         \/ AddLookup(t) \/ AddSequence(t) \/ AddPut(t) \/ PeekClean(t) \/ Show(t)
         \/ \E r \in Record : AddCheck(t, r)
         \/ \E s \in Wallet : SendNonce(t, s)
         \/ \E r \in Transfer : SendPeek(t, r)
  PROVE  PoolInv'
<1> USE DEF net, work, db
<1>1. job \in [Thread -> Jobs] /\ GoodJob(job[t])
  BY DEF PoolInv, JobInv, GoodJob
<1>2. /\ GoodJob(Return(t))
      /\ Return(t).op \in {"idle", "replace"}
      /\ t = Builder /\ Return(t).op = "replace" => draft # <<>>
  BY IdleIsGood DEF Return, GoodJob, Job, Jobs, Ops
<1>3. ASSUME AddSequence(t) PROVE PoolInv'
  <2> DEFINE j == Job("put", job[t].arg, nextSeq)
  <2>1. job[t].op = "sequence" /\ nextSeq \in 1..MaxSeq
    BY <1>3 DEF AddSequence, PoolInv, StoreInv
  <2>2. GoodJob(j) /\ j.op = "put"
    BY <1>1, <2>1 DEF GoodJob, Job, Jobs, Ops
  <2>3. Goto(t, j) /\ UNCHANGED <<db, net, gone, work>>
    BY <1>3 DEF AddSequence
  <2>4. StoreInv'
    BY <2>3 DEF PoolInv, StoreInv
  <2> HIDE DEF j
  <2> QED
    BY <2>1, <2>2, <2>3, <2>4, QueueStep DEF Drained
<1>4. ASSUME AddPut(t) PROVE PoolInv'
  <2>1. /\ job[t].op = "put"
        /\ pool' = pool \cup {<<job[t].num, job[t].arg>>}
        /\ hashKeys' = hashKeys \cup {job[t].arg}
        /\ nextSeq' = job[t].num + 1
        /\ Goto(t, Return(t))
        /\ UNCHANGED <<legacy, net, gone, work>>
    BY <1>4 DEF AddPut
  <2>2. job[t].num \in 1..MaxSeq /\ job[t].arg \in Record /\ MaxSeq \in Nat
    BY <1>1, <2>1, RecordAssumption DEF GoodJob
  <2>3. nextSeq' \in 1..(MaxSeq + 1)
    BY <2>1, <2>2
  <2>4. <<job[t].num, job[t].arg>> \in Entries
    BY <2>2 DEF Entries
  <2>5. StoreInv'
    BY <2>1, <2>2, <2>3, <2>4 DEF PoolInv, StoreInv
  <2> QED
    BY <1>2, <2>1, <2>5, QueueStep DEF Drained
<1>5. ASSUME PeekClean(t) PROVE PoolInv'
  <2> DEFINE j == IF job[t].arg # None THEN [job[t] EXCEPT !.op = "check"]
                  ELSE IF t = Builder /\ draft # <<>> THEN Job("prune", None, 0) ELSE Idle
  <2>1. /\ job[t].op = "clean"
        /\ pool' = pool \ gone[t]
        /\ hashKeys' = hashKeys \ {e[2] : e \in gone[t]}
        /\ gone' = [gone EXCEPT ![t] = {}]
        /\ Goto(t, j)
        /\ UNCHANGED <<nextSeq, legacy, net, work>>
    BY <1>5 DEF PeekClean
  <2>2. GoodJob(j) /\ j.op \in {"check", "prune", "idle"}
    BY <1>1, IdleIsGood DEF GoodJob, Job, Jobs, Ops
  <2>3. StoreInv'
    <3>1. gone' \in [Thread -> SUBSET Entries]
      BY <2>1 DEF PoolInv, StoreInv
    <3> QED
      BY <2>1, <3>1 DEF PoolInv, StoreInv
  <2> HIDE DEF j
  <2> QED
    BY <2>1, <2>2, <2>3, QueueStep DEF Drained
<1>6. ASSUME NEW j, GoodJob(j), j.op \notin {"lookup", "sequence", "put", "block", "replace"}, Peek(t, j),
             UNCHANGED <<db, net, work>>, t = Builder => job[t].op \notin {"parse"} \cup Drained
      PROVE  PoolInv'
  <2>1. gone' \in [Thread -> SUBSET Entries]
    BY <1>6, PeekGood
  <2>2. PICK j2 : GoodJob(j2) /\ Goto(t, j2) /\ j2.op \in {j.op, "clean"}
    BY <1>6, PeekGood
  <2>3. StoreInv'
    BY <1>6, <2>1 DEF PoolInv, StoreInv
  <2> QED
    BY <1>6, <2>2, <2>3, QueueStep
<1>7. ASSUME Show(t) PROVE PoolInv'
  BY <1>6, <1>7, IdleIsGood DEF Show, Drained
<1>8. ASSUME NEW r \in Record, AddCheck(t, r) PROVE PoolInv'
  <2> DEFINE j == IF r \in Accepted THEN Return(t) ELSE Job("lookup", r, 0)
  <2>1. GoodJob(j) /\ j.op \in {"idle", "replace", "lookup"} /\ (t = Builder /\ j.op = "replace" => draft # <<>>)
    BY <1>2 DEF GoodJob, Job, Jobs, Ops
  <2>2. Goto(t, j) /\ UNCHANGED <<db, net, gone, work>>
    BY <1>8 DEF AddCheck
  <2>3. StoreInv'
    BY <2>2 DEF PoolInv, StoreInv
  <2>4. t = Builder => job[t].op = "check"
    BY <1>8, RecordAssumption DEF AddCheck, Job
  <2> HIDE DEF j
  <2> QED
    BY <2>1, <2>2, <2>3, <2>4, QueueStep DEF Drained
<1>11. ASSUME AddLookup(t) PROVE PoolInv'
  <2> DEFINE j == IF job[t].arg \in hashKeys \cup legacy THEN Return(t)
                  ELSE Job("sequence", job[t].arg, 0)
  <2>1. job[t].op = "lookup" /\ job[t].arg \in Record
    BY <1>1, <1>11 DEF AddLookup, GoodJob
  <2>2. GoodJob(j) /\ j.op \in {"idle", "replace", "sequence"} /\ (t = Builder /\ j.op = "replace" => draft # <<>>)
    BY <1>2, <2>1 DEF GoodJob, Job, Jobs, Ops
  <2>3. Goto(t, j) /\ UNCHANGED <<db, net, gone, work>>
    BY <1>11 DEF AddLookup
  <2>4. StoreInv'
    BY <2>3 DEF PoolInv, StoreInv
  <2> HIDE DEF j
  <2> QED
    BY <2>1, <2>2, <2>3, <2>4, QueueStep DEF Drained
<1>9. ASSUME NEW s \in Wallet, SendNonce(t, s) PROVE PoolInv'
  <2> DEFINE j == Job("nonce", s, NonceAt(chain, s))
  <2>1. GoodJob(j) /\ j.op = "nonce"
    <3>1. NonceAt(chain, s) \in Nat
      <4>1. SentBy(s, Recorded(chain)) \in SUBSET Record
        BY RecordAssumption DEF SentBy
      <4> QED
        BY <4>1, RecordAssumption, FS_Subset, FS_CardinalityType DEF NonceAt
    <3> QED
      BY <3>1 DEF GoodJob, Job, Jobs, Ops
  <2>2. Goto(t, j) /\ UNCHANGED <<db, net, gone, work>> /\ t # Builder
    BY <1>9, RecordAssumption DEF SendNonce
  <2>3. StoreInv'
    BY <2>2 DEF PoolInv, StoreInv
  <2> HIDE DEF j
  <2> QED
    BY <2>1, <2>2, <2>3, QueueStep
<1>10. ASSUME NEW r \in Transfer, SendPeek(t, r) PROVE PoolInv'
  <2>1. GoodJob(Job("check", r, 0)) /\ Job("check", r, 0).op = "check"
    BY RecordAssumption DEF GoodJob, Job, Jobs, Ops
  <2>2. job[t].op = "nonce" /\ Peek(t, Job("check", r, 0)) /\ UNCHANGED <<db, net, work>>
    BY <1>10 DEF SendPeek
  <2> QED
    BY <1>6, <2>1, <2>2 DEF Drained
<1> QED
  BY <1>3, <1>4, <1>5, <1>7, <1>8, <1>9, <1>10, <1>11

LEMMA HeartbeatStep ==
  ASSUME PoolInv, NEW r \in Record, HeartbeatDue(r)
  PROVE  PoolInv'
<1> USE DEF net, work, db
<1> DEFINE j == Job("check", r, 0)
<1>1. GoodJob(j) /\ j.op = "check"
  BY DEF GoodJob, Job, Jobs, Ops
<1>2. Peek(Builder, j) /\ UNCHANGED <<db, net, work>> /\ job[Builder].op = "idle" /\ Builder \in Thread
  BY IdleIsGood DEF HeartbeatDue, Thread
<1> HIDE DEF j
<1>3. gone' \in [Thread -> SUBSET Entries]
  BY <1>1, <1>2, PeekGood
<1>4. PICK j2 : GoodJob(j2) /\ Goto(Builder, j2) /\ j2.op \in {j.op, "clean"}
  BY <1>1, <1>2, PeekGood
<1>5. StoreInv'
  BY <1>2, <1>3 DEF PoolInv, StoreInv
<1> QED
  BY <1>1, <1>2, <1>4, <1>5, QueueStep DEF Drained

\* The builder's steps that prune the queue, and those that rewrite it.
LEMMA RewriteStep ==
  ASSUME PoolInv, parent = <<>>, UNCHANGED <<chain, moved, reorgs, parent>>, StoreInv',
         draft' \in Seq(Record), NEW next, GoodJob(next), Goto(Builder, next),
         next.op # "block", next.op = "replace" => draft' # <<>>
  PROVE  PoolInv'
<1>0. Builder \in Thread
  BY DEF Thread
<1>1. /\ job' \in [Thread -> Jobs]
      /\ \A u \in Thread : GoodJob(job'[u])
      /\ job'[Builder] = next
  BY <1>0, GotoGood DEF PoolInv
<1>2. JobInv'
  BY <1>1 DEF JobInv, GoodJob
<1>3. ChainInv' /\ DraftInv'
  BY <1>1 DEF PoolInv, ChainInv, DraftInv
<1> QED
  BY <1>2, <1>3 DEF PoolInv

\* The builder's steps from the list to AddBlock.
LEMMA DrainStep ==
  ASSUME PoolInv, parent # <<>>, UNCHANGED <<chain, moved, reorgs, parent>>, StoreInv',
         draft' \in Seq(Record), NEW next, GoodJob(next), Goto(Builder, next), next.op \in Drained,
         ~moved => /\ Distinct(draft')
                   /\ \A i \in 1..Len(draft') : draft'[i] \in Legacy \/ draft'[i] \notin Accepted
  PROVE  PoolInv'
<1>0. Builder \in Thread
  BY DEF Thread
<1>1. /\ job' \in [Thread -> Jobs]
      /\ \A u \in Thread : GoodJob(job'[u])
      /\ job'[Builder] = next
  BY <1>0, GotoGood DEF PoolInv
<1>2. JobInv'
  BY <1>1 DEF JobInv, GoodJob, Drained
<1>3. ChainInv'
  BY <1>1 DEF PoolInv, ChainInv
<1>4. Accepted' = Accepted
  BY DEF Accepted, Recorded
<1>5. DraftInv'
  BY <1>4 DEF DraftInv, Distinct
<1> QED
  BY <1>2, <1>3, <1>5 DEF PoolInv

LEMMA PruneSteps ==
  ASSUME PoolInv, PruneBegin \/ PruneCheck \/ Replace
  PROVE  PoolInv'
<1> USE DEF net, work, db
<1>0. Builder \in Thread /\ draft \in Seq(Record) /\ \A op, num : Job(op, None, num).op = op
  BY DEF Thread, PoolInv, JobInv, Job
<1>1. parent = <<>>
  BY IdleIsGood DEF PruneBegin, PruneCheck, Replace, PoolInv, ChainInv, Drained
<1>2. \A op \in Ops \ {"lookup", "sequence", "put"} : GoodJob(Job(op, None, 0))
  BY DEF GoodJob, Job, Jobs
<1>3. CASE PruneBegin
  <2>1. GoodJob(Job("prune", None, 0))
    BY <1>2 DEF Ops
  <2>2. gone' \in [Thread -> SUBSET Entries]
    BY <1>0, <1>3, <2>1, PeekGood DEF PruneBegin
  <2>3. PICK j : GoodJob(j) /\ Goto(Builder, j) /\ j.op \in {"prune", "clean"}
    BY <1>0, <1>3, <2>1, PeekGood DEF PruneBegin
  <2>4. draft' \in Seq(Record)
    <3>1. pool \subseteq (1..MaxSeq) \X Record /\ legacy \subseteq Record
      BY RecordAssumption DEF PoolInv, StoreInv, Entries
    <3> QED
      BY <1>3, <3>1, ListedInOrder DEF PruneBegin
  <2>5. StoreInv' /\ UNCHANGED <<chain, moved, reorgs, parent>>
    BY <1>3, <2>2 DEF PruneBegin, PoolInv, StoreInv
  <2> QED
    BY <1>1, <2>3, <2>4, <2>5, RewriteStep
<1>4. CASE PruneCheck
  <2>1. StoreInv' /\ UNCHANGED <<chain, moved, reorgs, parent>>
    BY <1>4 DEF PruneCheck, PoolInv, StoreInv
  <2>2. \/ draft' = <<>> /\ Goto(Builder, Idle)
        \/ draft' = Kept(draft, Accepted) /\ Goto(Builder, Job("parse", None, 0))
    BY <1>4 DEF PruneCheck, Kept
  <2>3. Kept(draft, Accepted) \in Seq(Record)
    BY <1>0, KeptInOrder
  <2>4. GoodJob(Job("parse", None, 0))
    BY <1>2 DEF Ops
  <2>5. ASSUME draft' = <<>>, Goto(Builder, Idle) PROVE PoolInv'
    <3>1. draft' \in Seq(Record)
      BY <2>5
    <3> QED
      BY <1>1, <2>1, <2>5, <3>1, IdleIsGood, RewriteStep
  <2>6. ASSUME draft' = Kept(draft, Accepted), Goto(Builder, Job("parse", None, 0)) PROVE PoolInv'
    <3>1. draft' \in Seq(Record) /\ Job("parse", None, 0).op = "parse"
      BY <1>0, <2>3, <2>6
    <3> QED
      BY <1>1, <2>1, <2>4, <2>6, <3>1, RewriteStep
  <2> QED
    BY <2>2, <2>5, <2>6
<1>5. CASE Replace
  <2>1. StoreInv' /\ UNCHANGED <<chain, moved, reorgs, parent>>
    BY <1>5 DEF Replace, PoolInv, StoreInv
  <2>2. draft # <<>> /\ draft' = Tail(draft) /\ Goto(Builder, Job("check", Head(draft), 0))
    BY <1>5 DEF Replace, PoolInv, JobInv
  <2>3. draft' \in Seq(Record) /\ Head(draft) \in Record
    BY <1>0, <2>2
  <2>4. GoodJob(Job("check", Head(draft), 0)) /\ Job("check", Head(draft), 0).op = "check"
    BY <2>3 DEF GoodJob, Job, Jobs, Ops
  <2> QED
    BY <1>1, <2>1, <2>2, <2>3, <2>4, RewriteStep
<1> QED
  BY <1>3, <1>4, <1>5

LEMMA DrainSteps ==
  ASSUME PoolInv, ParseList \/ ClearKeys \/ ClearHashes \/ Clear
  PROVE  PoolInv'
<1> USE DEF net, work, db
<1>0. /\ Builder \in Thread
      /\ draft \in Seq(Record)
      /\ \A op, num : Job(op, None, num).op = op
      /\ \A op \in Ops \ {"lookup", "sequence", "put"} : GoodJob(Job(op, None, 0))
  BY DEF Thread, PoolInv, JobInv, GoodJob, Job, Jobs
<1>1. UNCHANGED <<chain, moved, reorgs, parent>>
  BY DEF ParseList, ClearKeys, ClearHashes, Clear
<1>2. StoreInv'
  BY DEF ParseList, ClearKeys, ClearHashes, Clear, PoolInv, StoreInv
<1>3. job[Builder].op \in Drained /\ parent # <<>> /\ ~moved =>
        /\ Distinct(draft)
        /\ \A i \in 1..Len(draft) : draft[i] \in Legacy \/ draft[i] \notin Accepted
  BY DEF PoolInv, DraftInv
<1>4. CASE ParseList
  <2>1. GoodJob(Job("keys", None, 0)) /\ Goto(Builder, Job("keys", None, 0)) /\ Job("keys", None, 0).op = "keys"
    BY <1>0, <1>4 DEF ParseList, Ops
  <2>2. CASE parent = <<>>
    BY <1>0, <1>1, <1>2, <1>4, <2>1, <2>2, RewriteStep DEF ParseList
  <2>3. CASE parent # <<>>
    <3>1. draft' = Listed
      BY <1>4, <2>3 DEF ParseList
    <3>2. /\ Listed \in Seq(Record)
          /\ \A i \in 1..Len(Listed) : Listed[i] \in Read
          /\ Distinct(Listed)
      BY RecordAssumption, ListedInOrder DEF PoolInv, StoreInv, Entries
    <3>3. \A r \in Read : r \in Legacy \/ r \notin Accepted
      BY DEF Read, Stale, PoolInv, StoreInv
    <3> HIDE DEF net, work, db
    <3> QED
      BY <1>1, <1>2, <2>1, <2>3, <3>1, <3>2, <3>3, DrainStep DEF Drained
  <2> QED
    BY <2>2, <2>3
<1>5. ASSUME NEW op \in {"hashes", "clear"}, Goto(Builder, Job(op, None, 0)), draft' = draft,
             job[Builder].op \in Drained
      PROVE  PoolInv'
  <2>1. GoodJob(Job(op, None, 0)) /\ Job(op, None, 0).op = op
    BY <1>0, <1>5 DEF Ops
  <2>2. CASE parent = <<>>
    BY <1>0, <1>1, <1>2, <1>5, <2>1, <2>2, RewriteStep
  <2>3. CASE parent # <<>>
    BY <1>0, <1>1, <1>2, <1>3, <1>5, <2>1, <2>3, DrainStep DEF Drained
  <2> QED
    BY <2>2, <2>3
<1>6. CASE ClearKeys
  BY <1>5, <1>6 DEF ClearKeys, Drained
<1>7. CASE ClearHashes
  BY <1>5, <1>7 DEF ClearHashes, Drained
<1>8. CASE Clear
  <2>1. draft' = draft /\ job[Builder].op \in Drained
    BY <1>8 DEF Clear, Drained
  <2>2. CASE parent = <<>>
    <3>1. Goto(Builder, Return(Builder))
      BY <1>8, <2>2 DEF Clear
    <3>2. /\ GoodJob(Return(Builder))
          /\ Return(Builder).op \in {"idle", "replace"}
          /\ Return(Builder).op = "replace" => draft # <<>>
      BY IdleIsGood DEF Return, GoodJob, Job, Jobs, Ops
    <3> QED
      BY <1>0, <1>1, <1>2, <2>1, <2>2, <3>1, <3>2, RewriteStep
  <2>3. CASE parent # <<>>
    <3>1. /\ Goto(Builder, Job("block", None, 0))
          /\ GoodJob(Job("block", None, 0))
          /\ Job("block", None, 0).op = "block"
      BY <1>0, <1>8, <2>3 DEF Clear, Ops
    <3> QED
      BY <1>0, <1>1, <1>2, <1>3, <2>1, <2>3, <3>1, DrainStep DEF Drained
  <2> QED
    BY <2>2, <2>3
<1> QED
  BY <1>4, <1>6, <1>7, <1>8

\* A block of records on top of a chain of them.
LEMMA BlockAppended ==
  ASSUME NEW c \in Seq(SUBSET Record), NEW records \in Seq(Record),
         NEW d, d = Append(c, ToSet(records))
  PROVE  d \in Seq(SUBSET Record) /\ Len(d) = Len(c) + 1
<1>1. ToSet(records) \in SUBSET Record
  BY DEF ToSet
<1> HIDE DEF ToSet
<1> QED
  BY <1>1

\* The steps that change the chain while the builder's work goes on.
LEMMA PeerSteps ==
  ASSUME PoolInv, NEW records \in Seq(Record), PeerBlock(records) \/ Reorg(records)
  PROVE  PoolInv'
<1> USE DEF net, work, db
<1>1. UNCHANGED <<db, job, gone, work>> /\ moved' = TRUE
  BY DEF PeerBlock, Reorg
<1>2. chain' \in Seq(SUBSET Record) /\ Len(chain') \in 1..MaxBlocks /\ reorgs' \in 0..MaxReorgs
  <2>1. chain \in Seq(SUBSET Record) /\ Len(chain) \in 1..MaxBlocks /\ reorgs \in 0..MaxReorgs
    BY DEF PoolInv, ChainInv
  <2>2. CASE PeerBlock(records)
    <3>1. chain' = Append(chain, ToSet(records)) /\ Len(chain) < MaxBlocks /\ reorgs' = reorgs
      BY <2>2 DEF PeerBlock
    <3>2. chain' \in Seq(SUBSET Record) /\ Len(chain') = Len(chain) + 1
      BY <2>1, <3>1, BlockAppended, Zenon
    <3>3. Len(chain') \in 1..MaxBlocks
      BY <2>1, <3>1, <3>2, RecordAssumption
    <3> QED
      BY <2>1, <3>1, <3>2, <3>3
  <2>3. CASE Reorg(records)
    <3>1. /\ chain' = Append(Front(chain), ToSet(records))
          /\ Len(chain) > 1
          /\ reorgs < MaxReorgs /\ reorgs' = reorgs + 1
      BY <2>3 DEF Reorg
    <3>2. Front(chain) \in Seq(SUBSET Record) /\ Len(Front(chain)) = Len(chain) - 1
      BY <2>1, <3>1 DEF Front
    <3>3. chain' \in Seq(SUBSET Record) /\ Len(chain') = Len(Front(chain)) + 1
      BY <3>1, <3>2, BlockAppended, Zenon
    <3>4. Len(chain') \in 1..MaxBlocks
      BY <2>1, <3>2, <3>3, RecordAssumption
    <3> QED
      BY <2>1, <3>1, <3>3, <3>4, RecordAssumption
  <2> QED
    BY <2>2, <2>3
<1>3. StoreInv' /\ JobInv'
  BY <1>1 DEF PoolInv, StoreInv, JobInv
<1>4. ChainInv' /\ DraftInv'
  BY <1>1, <1>2 DEF PoolInv, ChainInv, DraftInv
<1> QED
  BY <1>3, <1>4 DEF PoolInv

LEMMA BuildBeginStep ==
  ASSUME PoolInv, BuildBegin
  PROVE  PoolInv'
<1> USE DEF net, work, db
<1> DEFINE j == Job("parse", None, 0)
<1>1. GoodJob(j) /\ j.op = "parse" /\ Builder \in Thread
  BY DEF GoodJob, Job, Jobs, Ops, Thread
<1>2. /\ Len(chain) < MaxBlocks
      /\ parent' = chain /\ moved' = FALSE
      /\ Goto(Builder, j)
      /\ UNCHANGED <<db, chain, reorgs, gone, draft, keys, hashes>>
  BY DEF BuildBegin
<1> HIDE DEF j
<1>3. job' \in [Thread -> Jobs] /\ job'[Builder] = j /\ \A u \in Thread : GoodJob(job'[u])
  BY <1>1, <1>2, GotoGood DEF PoolInv
<1>4. StoreInv'
  BY <1>2 DEF PoolInv, StoreInv
<1>5. JobInv'
  BY <1>1, <1>2, <1>3 DEF PoolInv, JobInv, GoodJob
<1>6. ChainInv' /\ DraftInv'
  BY <1>1, <1>2, <1>3 DEF PoolInv, ChainInv, DraftInv, Drained
<1> QED
  BY <1>4, <1>5, <1>6 DEF PoolInv

LEMMA CrashStep ==
  ASSUME PoolInv, Crash
  PROVE  PoolInv'
<1> USE DEF net, work, db
<1>1. /\ job' = [t \in Thread |-> Idle] /\ gone' = [t \in Thread |-> {}]
      /\ draft' = <<>> /\ keys' = {} /\ hashes' = {} /\ parent' = <<>>
      /\ UNCHANGED <<db, chain, moved, reorgs>>
  BY DEF Crash
<1>2. StoreInv'
  BY <1>1 DEF PoolInv, StoreInv
<1>3. Builder \in Thread /\ job' \in [Thread -> Jobs] /\ \A t \in Thread : job'[t] = Idle
  BY <1>1, IdleIsGood DEF Thread, GoodJob
<1>4. draft' \in Seq(Record)
  BY <1>1
<1>5. JobInv'
  BY <1>3, <1>4, IdleIsGood DEF JobInv
<1>6. ChainInv' /\ DraftInv'
  BY <1>1, <1>3, IdleIsGood DEF PoolInv, ChainInv, DraftInv
<1> QED
  BY <1>2, <1>5, <1>6 DEF PoolInv

LEMMA InitPool == Init => PoolInv
<1> SUFFICES ASSUME Init PROVE PoolInv
  OBVIOUS
<1>1. Builder \in Thread /\ job \in [Thread -> Jobs] /\ \A t \in Thread : job[t] = Idle
  BY IdleIsGood DEF Init, Thread, GoodJob
<1>2. StoreInv
  BY RecordAssumption DEF Init, StoreInv
<1>3. draft \in Seq(Record)
  BY DEF Init
<1>4. JobInv
  BY <1>1, <1>3, IdleIsGood DEF JobInv
<1>5. chain \in Seq(SUBSET Record) /\ Len(chain) = 1
  BY DEF Init
<1>6. parent = <<>> /\ moved = FALSE /\ reorgs = 0 /\ job[Builder].op = "idle"
  BY <1>1, IdleIsGood DEF Init
<1>7. Len(chain) \in 1..MaxBlocks /\ reorgs \in 0..MaxReorgs
  BY <1>5, <1>6, RecordAssumption
<1>8. ChainInv /\ DraftInv
  BY <1>5, <1>6, <1>7 DEF ChainInv, DraftInv
<1> QED
  BY <1>2, <1>4, <1>8 DEF PoolInv

-----------------------------------------------------------------------------
(* The block that is made of the drained records.                          *)

\* The records of s come from the first n of the list, and each was next for its sender.
BlockUpTo(n, s, poor) ==
  /\ s \in Seq(Record)
  /\ \A j \in 1..Len(s) : \E k \in 1..n : s[j] = draft[k]
  /\ \A j \in 1..Len(s) : IncludePendingTransfer(s[j], {s[k] : k \in 1..(j - 1)}, poor)
  /\ Distinct(draft) => Distinct(s)

\* The list with one more record.
LEMMA BlockGrows ==
  ASSUME draft \in Seq(Record), NEW poor, NEW n \in 1..Len(draft), NEW s, BlockUpTo(n - 1, s, poor),
         NEW t, t = Append(s, draft[n]), IncludePendingTransfer(draft[n], ToSet(s), poor)
  PROVE  BlockUpTo(n, t, poor)
<1>1. draft[n] \in Record /\ s \in Seq(Record) /\ n \in Nat /\ n - 1 \in Nat
  BY DEF BlockUpTo
<1>2. /\ t \in Seq(Record) /\ Len(t) = Len(s) + 1 /\ t[Len(t)] = draft[n]
      /\ \A j \in 1..Len(s) : t[j] = s[j]
  BY <1>1
<1>3. Len(s) \in Nat /\ 1..Len(t) = 1..Len(s) \cup {Len(t)}
  BY <1>1, <1>2
<1>4. \A k \in 1..(n - 1) : k \in 1..n /\ k # n
  BY <1>1
<1>5. \A j \in 1..Len(s) : \E k \in 1..(n - 1) : s[j] = draft[k]
  BY DEF BlockUpTo
<1>6. \A j \in 1..Len(t) : \E k \in 1..n : t[j] = draft[k]
  BY <1>1, <1>2, <1>3, <1>4, <1>5
<1>7. \A j \in 1..Len(t) : IncludePendingTransfer(t[j], {t[k] : k \in 1..(j - 1)}, poor)
  <2>1. ASSUME NEW j \in 1..Len(t) PROVE {t[k] : k \in 1..(j - 1)} = {s[k] : k \in 1..(j - 1)}
    <3>1. \A k \in 1..(j - 1) : k \in 1..Len(s)
      BY <1>2, <1>3
    <3> QED
      BY <1>2, <3>1
  <2>2. ASSUME NEW j \in 1..Len(s) PROVE IncludePendingTransfer(t[j], {t[k] : k \in 1..(j - 1)}, poor)
    <3>1. {t[k] : k \in 1..(j - 1)} = {s[k] : k \in 1..(j - 1)} /\ t[j] = s[j]
      BY <1>2, <1>3, <2>1
    <3> QED
      BY <3>1 DEF BlockUpTo
  <2>3. IncludePendingTransfer(t[Len(t)], {t[k] : k \in 1..(Len(t) - 1)}, poor)
    <3>1. {t[k] : k \in 1..(Len(t) - 1)} = {s[k] : k \in 1..(Len(t) - 1)} /\ Len(t) - 1 = Len(s)
      BY <1>2, <1>3, <2>1
    <3>2. {t[k] : k \in 1..(Len(t) - 1)} = ToSet(s)
      BY <1>1, <3>1 DEF ToSet
    <3> QED
      BY <1>2, <3>2
  <2> QED
    BY <1>3, <2>2, <2>3
<1>8. ASSUME Distinct(draft) PROVE Distinct(t)
  <2>1. Distinct(s)
    BY <1>8 DEF BlockUpTo
  <2>2. \A j \in 1..Len(s) : t[j] # t[Len(t)]
    <3> TAKE j \in 1..Len(s)
    <3>1. PICK k \in 1..(n - 1) : s[j] = draft[k]
      BY <1>5
    <3>2. k \in 1..Len(draft) /\ k # n
      BY <1>1, <3>1
    <3>3. draft[k] # draft[n]
      BY <1>8, <3>2 DEF Distinct
    <3> QED
      BY <1>2, <3>1, <3>3
  <2>3. \A i, k \in 1..Len(s) : i # k => t[i] # t[k]
    BY <1>2, <2>1 DEF Distinct
  <2> QED
    BY <1>3, <2>2, <2>3 DEF Distinct
<1> QED
  BY <1>2, <1>6, <1>7, <1>8 DEF BlockUpTo

LEMMA BlockKept ==
  ASSUME NEW poor, NEW n \in Nat \ {0}, NEW s, BlockUpTo(n - 1, s, poor)
  PROVE  BlockUpTo(n, s, poor)
<1>1. \A k \in 1..(n - 1) : k \in 1..n
  OBVIOUS
<1> QED
  BY <1>1 DEF BlockUpTo

LEMMA BlockBuilt ==
  ASSUME draft \in Seq(Record), NEW poor
  PROVE  BlockUpTo(Len(draft), Block(poor), poor)
<1> DEFINE N == Len(draft)
           V == Seq(Record)
           After(n, s) == IF IncludePendingTransfer(draft[n], ToSet(s), poor) THEN Append(s, draft[n]) ELSE s
           step == [n \in 1..N |-> [s \in V |-> After(n, s)]]
<1>1. N \in Nat /\ <<>> \in V
  OBVIOUS
<1>2. IsStep(step, N, V)
  <2>1. \A n \in 1..N : \A s \in V : After(n, s) \in V
    OBVIOUS
  <2> HIDE DEF After, V
  <2> QED
    BY <2>1 DEF IsStep
<1>3. PICK f : IsRecursion(f, N, V, <<>>, step)
  <2> HIDE DEF step, V, N
  <2> QED
    BY <1>1, <1>2, RecursionUpTo
<1> DEFINE Is(g) == g = [n \in 0..N |-> IF n = 0 THEN <<>> ELSE After(n, g[n - 1])]
           upTo == CHOOSE g : Is(g)
<1>4. Is(f)
  <2> HIDE DEF After, V
  <2>1. \A n \in 0..N : f[n] = IF n = 0 THEN <<>> ELSE After(n, f[n - 1])
    <3> SUFFICES ASSUME NEW n \in 0..N, n # 0 PROVE f[n] = After(n, f[n - 1])
      BY <1>3 DEF IsRecursion
    <3>1. n \in 1..N /\ n - 1 \in 0..N
      BY <1>1
    <3> QED
      BY <1>3, <3>1 DEF IsRecursion
  <2> QED
    BY <1>3, <2>1 DEF IsRecursion
<1>5. Is(upTo)
  <2> HIDE DEF Is
  <2> QED
    BY <1>4
<1>6. Block(poor) = upTo[N]
  BY DEF Block
<1> HIDE DEF upTo
<1>7. \A n \in 0..N : upTo[n] = IF n = 0 THEN <<>> ELSE After(n, upTo[n - 1])
  <2> HIDE DEF After
  <2> QED
    BY <1>5
<1> DEFINE T == {n \in 0..N : BlockUpTo(n, upTo[n], poor)}
<1>8. 0 \in T
  <2>1. upTo[0] = <<>> /\ 0 \in 0..N
    BY <1>1, <1>7
  <2>2. BlockUpTo(0, <<>>, poor)
    BY DEF BlockUpTo, Distinct
  <2> QED
    BY <2>1, <2>2
<1>9. ASSUME NEW n \in 1..N, n - 1 \in T PROVE n \in T
  <2>1. n \in 0..N /\ n # 0 /\ n \in Nat \ {0} /\ n \in 1..Len(draft)
    BY <1>1
  <2>2. upTo[n] = After(n, upTo[n - 1]) /\ BlockUpTo(n - 1, upTo[n - 1], poor)
    BY <1>7, <1>9, <2>1
  <2>3. BlockUpTo(n, upTo[n], poor)
    BY <2>1, <2>2, BlockGrows, BlockKept
  <2> QED
    BY <2>1, <2>3
<1>10. T = 0..N
  <2>1. T \in SUBSET (0..N)
    OBVIOUS
  <2> HIDE DEF T
  <2> QED
    BY <1>1, <1>8, <1>9, <2>1, CountingUp
<1> QED
  BY <1>1, <1>6, <1>10

LEMMA AddBlockStep ==
  ASSUME PoolInv, NEW poor, NEW valid, AddBlock(poor, valid)
  PROVE  PoolInv'
<1> USE DEF net, work, db
<1>1. /\ draft' = <<>> /\ parent' = <<>> /\ Goto(Builder, Idle) /\ Builder \in Thread
      /\ chain' = chain \/ (chain = parent /\ chain' = Append(chain, ToSet(Block(poor))))
      /\ UNCHANGED <<db, moved, reorgs, gone, keys, hashes>>
  BY DEF AddBlock, Thread
<1>2. job' \in [Thread -> Jobs] /\ job'[Builder] = Idle /\ \A u \in Thread : GoodJob(job'[u])
  BY <1>1, IdleIsGood, GotoGood DEF PoolInv
<1>3. StoreInv'
  BY <1>1 DEF PoolInv, StoreInv
<1>4. draft' \in Seq(Record)
  BY <1>1
<1>5. JobInv'
  BY <1>2, <1>4, IdleIsGood DEF JobInv, GoodJob
<1>6. chain' \in Seq(SUBSET Record) /\ Len(chain') \in 1..MaxBlocks
  <2>1. chain \in Seq(SUBSET Record) /\ Len(chain) \in 1..MaxBlocks
    BY DEF PoolInv, ChainInv
  <2>2. CASE chain' = chain
    BY <2>1, <2>2
  <2>3. CASE chain = parent /\ chain' = Append(chain, ToSet(Block(poor)))
    <3>1. Block(poor) \in Seq(Record)
      BY BlockBuilt DEF PoolInv, JobInv, BlockUpTo
    <3>2. chain' \in Seq(SUBSET Record) /\ Len(chain') = Len(chain) + 1
      BY <2>1, <2>3, <3>1, BlockAppended, Zenon
    <3>3. Len(chain) < MaxBlocks
      BY <2>3 DEF AddBlock, PoolInv, ChainInv
    <3> QED
      BY <2>1, <3>2, <3>3, RecordAssumption
  <2> QED
    BY <1>1, <2>2, <2>3
<1>7. ChainInv' /\ DraftInv'
  BY <1>1, <1>2, <1>6, IdleIsGood DEF PoolInv, ChainInv, DraftInv
<1> QED
  BY <1>3, <1>5, <1>7 DEF PoolInv

LEMMA StepPool == PoolInv /\ [Next]_vars => PoolInv'
<1> SUFFICES ASSUME PoolInv, [Next]_vars PROVE PoolInv'
  OBVIOUS
<1>1. CASE UNCHANGED vars
  BY <1>1 DEF vars, net, work, db, PoolInv, StoreInv, JobInv, ChainInv, DraftInv, Accepted, Recorded
<1>2. ASSUME NEW records \in {<<>>} \cup {<<r>> : r \in Record}, PeerBlock(records) \/ Reorg(records)
      PROVE  PoolInv'
  <2>1. <<>> \in Seq(Record) /\ \A r \in Record : <<r>> \in Seq(Record)
    OBVIOUS
  <2>2. records \in Seq(Record)
    BY <2>1, Zenon
  <2> QED
    BY <1>2, <2>2, PeerSteps
<1> QED
  BY <1>1, <1>2, AddAndPeek, HeartbeatStep, PruneSteps, DrainSteps, BuildBeginStep, AddBlockStep, CrashStep
  DEF Next

LEMMA PoolInvAlways == Spec => []PoolInv
<1>1. Init => PoolInv
  BY InitPool
<1>2. PoolInv /\ [Next]_vars => PoolInv'
  BY StepPool
<1> QED
  BY <1>1, <1>2, PTL DEF Spec

\* Whatever the threads do in between, the keys of the mempool, the cleanup batches, the
\* builder's lists and the chain keep their types: a record is put under a sequence number
\* within its bound, and the chain that the builder extends stays within its own.
THEOREM PoolTypeCorrect == Spec => []TypeOK
<1>1. PoolInv => TypeOK
  <2> SUFFICES ASSUME PoolInv PROVE TypeOK
    OBVIOUS
  <2>1. /\ pool \subseteq (1..MaxSeq) \X Record /\ keys \subseteq (1..MaxSeq) \X Record
        /\ legacy \subseteq Record
        /\ \A t \in Thread : gone[t] \subseteq (1..MaxSeq) \X Record
    BY RecordAssumption DEF PoolInv, StoreInv, Entries
  <2>2. \A i \in 1..Len(chain) : chain[i] \subseteq Record
    BY DEF PoolInv, ChainInv
  <2>3. \A i \in 1..Len(draft) : draft[i] \in Record
    BY DEF PoolInv, JobInv
  <2>4. \A t \in Thread : job[t] \in [op : Ops, arg : Record \cup Wallet \cup {None}, num : Nat]
    BY DEF PoolInv, JobInv, Jobs
  <2> QED
    BY <2>1, <2>2, <2>3, <2>4 DEF TypeOK, PoolInv, StoreInv, ChainInv
<1> QED
  BY <1>1, PoolInvAlways, PTL

\* The records that the builder has drained are valid on the chain it read.
LEMMA DraftIsValid ==
  ASSUME PoolInv, job[Builder].op = "block", ~moved, Legacy \cap Accepted = {},
         NEW poor, Len(Block(poor)) <= MaxRecords,
         \A i \in 1..Len(Block(poor)) : GoodAlone(Block(poor)[i])
  PROVE  Verdicts(chain, Block(poor)) = {TRUE}
<1> DEFINE b == Block(poor)
<1>1. /\ parent # <<>> /\ chain = parent /\ draft \in Seq(Record)
      /\ Distinct(draft) /\ \A i \in 1..Len(draft) : draft[i] \in Legacy \/ draft[i] \notin Accepted
  BY DEF PoolInv, ChainInv, JobInv, DraftInv, Drained
<1>2. BlockUpTo(Len(draft), b, poor)
  BY <1>1, BlockBuilt
<1>3. Len(b) <= MaxRecords /\ \A i \in 1..Len(b) : GoodAlone(b[i])
  OBVIOUS
<1> HIDE DEF b
<1>4. b \in Seq(Record) /\ Distinct(b)
  BY <1>1, <1>2 DEF BlockUpTo
<1>5. \A i \in 1..Len(b) : b[i] \notin Accepted
  BY <1>1, <1>2 DEF BlockUpTo
<1>6. \A i \in 1..Len(b) : b[i] \in Transfer \/ (~Refused(chain, b[i], {}) /\ b[i] \notin Open)
  <2> SUFFICES ASSUME NEW r \in Record, r \notin Transfer, GoodAlone(r)
               PROVE  ~Refused(chain, r, {}) /\ r \notin Open
    BY <1>3, <1>4
  <2> DEFINE one == <<r>>
  <2>1. Verdicts(chain, one) = {TRUE}
    BY DEF GoodAlone
  <2>2. Len(one) = 1 /\ one[1] = r /\ 1 \in 1..Len(one)
    OBVIOUS
  <2>3. {one[k] : k \in 1..(1 - 1)} = {}
    OBVIOUS
  <2> HIDE DEF one
  <2>4. ASSUME Refused(chain, r, {}) PROVE FALSE
    <3>1. \E i \in 1..Len(one) : Refused(chain, one[i], {one[k] : k \in 1..(i - 1)})
      BY <2>2, <2>3, <2>4, Zenon
    <3>2. Verdicts(chain, one) = {FALSE}
      BY <3>1, Zenon DEF Verdicts
    <3> QED
      BY <2>1, <3>2
  <2>5. ASSUME r \in Open PROVE FALSE
    <3>1. \E i \in 1..Len(one) : one[i] \in Open
      BY <2>2, <2>5, Zenon
    <3>2. Verdicts(chain, one) = {FALSE} \/ Verdicts(chain, one) = BOOLEAN
      BY <3>1, Zenon DEF Verdicts
    <3> QED
      BY <2>1, <3>2
  <2> QED
    BY <2>4, <2>5
<1>7. ASSUME NEW i \in 1..Len(b) PROVE ~Refused(chain, b[i], {b[k] : k \in 1..(i - 1)})
  <2> DEFINE r == b[i]
             prev == {b[k] : k \in 1..(i - 1)}
  <2>1. \A k \in 1..(i - 1) : k \in 1..Len(b) /\ k # i
    BY <1>4
  <2>2. r \notin prev /\ prev \cap Recorded(chain) = {} /\ prev \in SUBSET Record
    BY <1>4, <1>5, <2>1 DEF Distinct, Accepted
  <2>3. r \in Record /\ r \notin Recorded(chain)
    BY <1>4, <1>5 DEF Accepted
  <2>4. IncludePendingTransfer(r, prev, poor) /\ GoodAlone(r)
    BY <1>2, <1>3 DEF BlockUpTo
  <2>5. r \in Transfer \/ (~Refused(chain, r, {}) /\ r \notin Open)
    BY <1>6
  <2> HIDE DEF r, prev
  <2>6. ASSUME r \notin Transfer PROVE ~Refused(chain, r, prev)
    BY <2>2, <2>3, <2>5, <2>6 DEF Refused
  <2>7. ASSUME r \in Transfer PROVE ~Refused(chain, r, prev)
    <3> DEFINE s == Sender[r]
               A == SentBy(s, Recorded(chain))
               B == SentBy(s, prev)
               C == SentBy(s, Recorded(chain) \cup prev)
    <3>1. Nonce[r] = Cardinality(A) + Cardinality(B) + 1
      BY <1>1, <2>4, <2>7 DEF IncludePendingTransfer, NonceAt
    <3>2. A \in SUBSET Record /\ B \in SUBSET Record /\ A \cap B = {} /\ C = A \cup B
      BY <2>2, RecordAssumption DEF SentBy
    <3>3. r \notin Malformed /\ r \notin Join /\ r \notin MemberOnly
      BY <2>4, <2>7, RecordAssumption DEF GoodAlone
    <3>4. Nonce[r] = Cardinality(C) + 1
      <4> HIDE DEF A, B, C
      <4>1. IsFiniteSet(A) /\ IsFiniteSet(B)
        BY <3>2, RecordAssumption, FS_Subset
      <4>2. Cardinality(A \cup B) = Cardinality(A) + Cardinality(B) - Cardinality({})
        BY <3>2, <4>1, FS_Union
      <4>3. Cardinality(A) \in Nat /\ Cardinality(B) \in Nat /\ Cardinality({}) = 0
        BY <4>1, FS_CardinalityType, FS_EmptySet
      <4> QED
        BY <3>1, <3>2, <4>2, <4>3
    <3>5. r \notin Recorded(chain) \cup prev
      BY <2>2, <2>3
    <3> QED
      BY <3>3, <3>4, <3>5, Zenon DEF Refused
  <2> QED
    BY <2>6, <2>7 DEF r, prev
<1>8. \A i \in 1..Len(b) : b[i] \notin Open
  BY <1>4, <1>6, RecordAssumption
<1>9. ~(Len(b) > MaxRecords)
  BY <1>3, <1>4, RecordAssumption
<1>10. Verdicts(chain, b) = {TRUE}
  BY <1>7, <1>8, <1>9, Zenon DEF Verdicts
<1> QED
  BY <1>10 DEF b

\* For any records, threads and interleaving: the records that a builder has drained for a
\* block on a chain that has not moved are valid together if each of them is on its own,
\* however they were queued twice, got the same nonce or were taken by a peer's block,
\* unless they are too many or queue.dat started with a record that the chain has now.
THEOREM BuilderKeepsItsBlock == Spec => []TogetherAsAlone
<1>1. PoolInv => TogetherAsAlone
  BY DraftIsValid DEF TogetherAsAlone
<1> QED
  BY <1>1, PoolInvAlways, PTL
=============================================================================
