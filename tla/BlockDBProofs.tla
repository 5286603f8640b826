--------------------------- MODULE BlockDBProofs ---------------------------
(***************************************************************************)
(* Proofs about BlockDB for every block tree, every number of threads and   *)
(* every depth limit.                                                       *)
(***************************************************************************)
EXTENDS BlockDB, BlockTreeProofs

\* The block maybeAdvanceValidatedCheckpoint reaches is on the branch it walks down.
LEMMA BuriedOnBranch ==
  ASSUME NEW h \in Hash
  PROVE  Buried(h) \in Branch[h]
<1> DEFINE reached == {a \in Branch[h] : Cardinality(Branch[h] \ Branch[a]) <= CheckpointDepth}
<1>1. h \in reached
  <2>1. h \in Branch[h]
    BY BranchAssumption
  <2>2. Cardinality(Branch[h] \ Branch[h]) = 0
    BY FS_EmptySet
  <2> QED
    BY <2>1, <2>2, BoundAssumption
<1>2. reached \subseteq Hash
  BY BranchAssumption
<1> DEFINE numbers == {Number[a] : a \in reached}
<1>3. numbers \in SUBSET Nat /\ numbers # {}
  <2> HIDE DEF reached
  <2>1. \A a \in reached : Number[a] \in Nat
    BY <1>2, HeaderAssumption
  <2>2. Number[h] \in numbers
    BY <1>1
  <2> QED
    BY <2>1, <2>2
<1>4. PICK x \in numbers : \A y \in numbers : x <= y
  <2> HIDE DEF numbers
  <2> QED
    BY <1>3, LeastNumber
<1>5. \E a \in reached : \A c \in reached : Number[a] <= Number[c]
  <2>1. PICK a \in reached : x = Number[a]
    BY <1>4
  <2>2. \A c \in reached : x <= Number[c]
    BY <1>4
  <2> QED
    BY <2>1, <2>2
<1> QED
  BY <1>5 DEF Buried

\* The checkpoint moves to a block of the branch it was asked for, or stays.
LEMMA CheckpointMoves ==
  ASSUME NEW h \in Hash
  PROVE  AdvancedCheckpoint(h) = checkpoint \/ AdvancedCheckpoint(h) \in Branch[h]
BY BuriedOnBranch DEF AdvancedCheckpoint

-----------------------------------------------------------------------------
(* Type correctness.                                                       *)

LEMMA GotoType ==
  ASSUME TypeOK, NEW t \in Thread, NEW b \in Hash,
         NEW op \in AddOps \cup LockedOps, Goto(t, op, b)
  PROVE  job' \in [Thread -> Job]
BY DEF TypeOK, Goto, Loop, Job

LEMMA IdleIsJob == Idle \in Job
BY DEF Job

LEMMA LoopType ==
  ASSUME TypeOK, NEW t \in Thread, NEW b \in Hash, NEW op \in AddOps \cup LockedOps,
         NEW todo \in SUBSET Hash, NEW ids \in SUBSET Slot, Loop(t, op, b, todo, ids)
  PROVE  job' \in [Thread -> Job]
BY DEF TypeOK, Loop, Job

LEMMA ReturnType ==
  ASSUME TypeOK, NEW t \in Thread, NEW b \in Hash, Return(t, b)
  PROVE  job' \in [Thread -> Job]
BY DEF TypeOK, Return, Goto, Loop, AddOps, Job

\* A thread that is at a named step of an operation works on a block.
LEMMA JobBlock ==
  ASSUME TypeOK, NEW t \in Thread, job[t].op # "idle"
  PROVE  job[t].block \in Hash /\ job[t].todo \in SUBSET Hash /\ job[t].ids \in SUBSET Slot
BY DEF TypeOK, Idle, Job

LEMMA CheckpointType ==
  ASSUME TypeOK, NEW h \in Hash
  PROVE  AdvancedCheckpoint(h) \in Hash \cup {None}
BY CheckpointMoves, BlockFacts DEF TypeOK

\* Parent ledgers are looked up only for a block with a stored parent.
LEMMA LedgerType ==
  ASSUME TypeOK, NEW b \in Hash, b # Genesis, ParentAcceptable(b)
  PROVE  /\ Parent[b] \in Hash
         /\ ParentLedger(b) \in CacheEntry
         /\ ParentCacheEntry(b) \in CacheEntry
BY DEF TypeOK, ParentAcceptable, ParentLedger, ParentCacheEntry, CacheEntry

LEMMA WriteChainType ==
  ASSUME TypeOK, NEW C \in SUBSET Hash, NEW links \in SUBSET Hash, WriteChain(C, links)
  PROVE  /\ canonical' \in [Slot -> Hash \cup {None}]
         /\ nextHash' \in [Hash -> Hash \cup {None}]
         /\ nextId' \in [Slot -> Slot \cup {None}]
<1>1. canonical' \in [Slot -> Hash \cup {None}]
  BY DEF TypeOK, WriteChain, PutCanonical, PutNextHash, PutNextId
<1>2. nextHash' \in [Hash -> Hash \cup {None}]
  BY DEF TypeOK, WriteChain, PutCanonical, PutNextHash, PutNextId
<1>3. nextId' \in [Slot -> Slot \cup {None}]
  <2>1. \A n \in Slot : (\E h \in links : PrevId[h] = n)
          => Number[CHOOSE h \in links : PrevId[h] = n] \in Slot
    BY BlockFacts
  <2> QED
    BY <2>1 DEF TypeOK, WriteChain, PutCanonical, PutNextHash, PutNextId
<1> QED
  BY <1>1, <1>2, <1>3

\* The loop that writes a chain writes one of its blocks and goes on, or to its last step.
LEMMA WriteLowestType ==
  ASSUME TypeOK, NEW t \in Thread, job[t].op \in LockedOps, NEW last \in LockedOps,
         WriteLowest(t, last)
  PROVE  /\ job' \in [Thread -> Job]
         /\ canonical' \in [Slot -> Hash \cup {None}]
         /\ nextHash' \in [Hash -> Hash \cup {None}]
         /\ nextId' \in [Slot -> Slot \cup {None}]
<1>1. job[t].block \in Hash /\ job[t].todo \in SUBSET Hash /\ Branch[job[t].block] \subseteq Hash
  BY JobBlock, BlockFacts DEF LockedOps, RebuildOps, AdoptOps
<1>2. PICK h \in job[t].todo :
        /\ WriteChain({h}, {c \in Branch[job[t].block] : Parent[c] = h})
        /\ \/ Goto(t, last, job[t].block)
           \/ Loop(t, job[t].op, job[t].block, job[t].todo \ {h}, {})
  BY DEF WriteLowest
<1>3. job' \in [Thread -> Job]
  <2>1. job[t].op \in AddOps \cup LockedOps /\ last \in AddOps \cup LockedOps
    OBVIOUS
  <2>2. job[t].todo \ {h} \in SUBSET Hash /\ {} \in SUBSET Slot
    BY <1>1
  <2>3. ASSUME Goto(t, last, job[t].block) PROVE job' \in [Thread -> Job]
    BY <1>1, <2>1, <2>3, GotoType
  <2>4. ASSUME Loop(t, job[t].op, job[t].block, job[t].todo \ {h}, {}) PROVE job' \in [Thread -> Job]
    BY <1>1, <2>1, <2>2, <2>4, LoopType
  <2> QED
    BY <1>2, <2>3, <2>4
<1> DEFINE links == {c \in Branch[job[t].block] : Parent[c] = h}
<1>4. {h} \in SUBSET Hash /\ links \in SUBSET Hash /\ WriteChain({h}, links)
  BY <1>1, <1>2
<1> HIDE DEF links
<1> QED
  BY <1>3, <1>4, WriteChainType

\* Every step of Next keeps TypeOK.
LEMMA TypeStep == TypeOK /\ [Next]_vars => TypeOK'
<1> SUFFICES ASSUME TypeOK, [Next]_vars PROVE TypeOK'
  OBVIOUS
<1> USE DEF disk, index, tip
<1>1. ASSUME NEW t \in Thread, NEW b \in Hash, AddBlockAccept(t, b) PROVE TypeOK'
  <2>1. cache' \in [Hash -> CacheEntry]
    <3>1. CASE b = Genesis
      BY <1>1, <3>1 DEF AddBlockAccept, TypeOK, CacheEntry
    <3>2. CASE b # Genesis
      <4>1. ParentAcceptable(b)
        BY <1>1, <3>2 DEF AddBlockAccept, AddBlockCandidate
      <4> QED
        BY <1>1, <3>2, <4>1, LedgerType DEF AddBlockAccept, TypeOK, CacheParent
    <3> QED
      BY <3>1, <3>2
  <2>2. job' \in [Thread -> Job]
    BY <1>1, GotoType DEF AddBlockAccept, AddOps
  <2> QED
    BY <1>1, <2>1, <2>2 DEF AddBlockAccept, TypeOK
<1>2. ASSUME NEW t \in Thread, NEW b \in Hash, AddBlockReject(t, b) PROVE TypeOK'
  <2>1. cache' \in [Hash -> CacheEntry]
    <3>1. b # Genesis => ParentAcceptable(b)
      BY <1>2 DEF AddBlockReject, AddBlockCandidate
    <3> QED
      BY <1>2, <3>1, LedgerType DEF AddBlockReject, TypeOK, CacheParent
  <2> QED
    BY <1>2, <2>1 DEF AddBlockReject, TypeOK
<1>3. ASSUME NEW t \in Thread, AddBlockPut(t) PROVE TypeOK'
  <2>1. job[t].block \in Hash
    BY <1>3, JobBlock DEF AddBlockPut
  <2>2. job' \in [Thread -> Job]
    BY <1>3, <2>1, GotoType DEF AddBlockPut, AddOps
  <2> QED
    BY <1>3, <2>1, <2>2 DEF AddBlockPut, TypeOK
<1>4. ASSUME NEW t \in Thread, AddBlockCanonical(t) PROVE TypeOK'
  <2>1. job[t].block \in Hash /\ Number[job[t].block] \in Slot
    BY <1>4, JobBlock, BlockFacts DEF AddBlockCanonical
  <2>2. job' \in [Thread -> Job]
    BY <1>4, <2>1, GotoType, ReturnType DEF AddBlockCanonical, AddOps
  <2> QED
    BY <1>4, <2>1, <2>2 DEF AddBlockCanonical, TypeOK
<1>5. ASSUME NEW t \in Thread, AddBlockNext(t) PROVE TypeOK'
  <2>1. job[t].block \in Hash /\ Number[job[t].block] \in Slot
    BY <1>5, JobBlock, BlockFacts DEF AddBlockNext
  <2>2. job' \in [Thread -> Job]
    BY <1>5, <2>1, GotoType DEF AddBlockNext, AddOps
  <2> QED
    BY <1>5, <2>1, <2>2 DEF AddBlockNext, TypeOK
<1>6. ASSUME NEW t \in Thread, AddBlockCheckTip(t) PROVE TypeOK'
  <2>1. job[t].block \in Hash
    BY <1>6, JobBlock DEF AddBlockCheckTip
  <2>2. job' \in [Thread -> Job]
    BY <1>6, <2>1, GotoType, ReturnType DEF AddBlockCheckTip, AddOps
  <2> QED
    BY <1>6, <2>2 DEF AddBlockCheckTip, TypeOK
<1>7. ASSUME NEW t \in Thread, AddBlockSetTip(t) PROVE TypeOK'
  <2>1. job[t].block \in Hash /\ Number[job[t].block] \in Slot
    BY <1>7, JobBlock, BlockFacts DEF AddBlockSetTip
  <2>2. job' \in [Thread -> Job]
    BY <1>7, <2>1, ReturnType DEF AddBlockSetTip
  <2>3. checkpoint' \in Hash \cup {None}
    BY <1>7, <2>1, CheckpointType DEF AddBlockSetTip, TypeOK
  <2> QED
    BY <1>7, <2>1, <2>2, <2>3 DEF AddBlockSetTip, SetLatestBlockId, TypeOK
<1>8. ASSUME NEW t \in Thread, SetFirstBlockId(t) PROVE TypeOK'
  <2>1. job[t].block \in Hash /\ Number[job[t].block] \in Slot
    BY <1>8, JobBlock, BlockFacts DEF SetFirstBlockId
  <2> QED
    BY <1>8, <2>1, IdleIsJob DEF SetFirstBlockId, TypeOK
<1>9. ASSUME NEW t \in Thread, RebuildFast(t) PROVE TypeOK'
  <2>1. GetBlock(latest) \in Hash
    BY <1>9 DEF RebuildFast, FastPathApplies, GetBlock, TypeOK
  <2>2. checkpoint' \in Hash \cup {None}
    BY <1>9, <2>1, CheckpointType DEF RebuildFast
  <2> QED
    BY <1>9, <2>2 DEF RebuildFast, TypeOK
<1>10. ASSUME NEW t \in Thread, RebuildBegin(t) PROVE TypeOK'
  <2>1. PICK h \in stored : Goto(t, "list", h)
    BY <1>10 DEF RebuildBegin
  <2>2. job' \in [Thread -> Job]
    BY <2>1, GotoType DEF LockedOps, RebuildOps, TypeOK
  <2> QED
    BY <1>10, <2>2 DEF RebuildBegin, TypeOK
<1>11. ASSUME NEW t \in Thread,
              RebuildList(t) \/ RebuildClearHash(t) \/ RebuildClearId(t) \/ RebuildCleared(t)
       PROVE  TypeOK'
  <2>1. /\ job[t].block \in Hash /\ Branch[job[t].block] \in SUBSET Hash
        /\ job[t].todo \in SUBSET Hash /\ job[t].ids \in SUBSET Slot
    BY <1>11, JobBlock, BlockFacts
       DEF RebuildList, RebuildClearHash, RebuildClearId, RebuildCleared
  <2>2. "clear" \in AddOps \cup LockedOps /\ "write" \in AddOps \cup LockedOps
    BY DEF LockedOps, RebuildOps
  <2>3. ASSUME RebuildList(t) PROVE TypeOK'
    <3>1. job' \in [Thread -> Job]
      BY <2>1, <2>2, <2>3, LoopType DEF RebuildList
    <3> QED
      BY <2>3, <3>1 DEF RebuildList, TypeOK
  <2>4. ASSUME RebuildClearHash(t) PROVE TypeOK'
    <3>1. job' \in [Thread -> Job]
      BY <2>1, <2>2, <2>4, LoopType DEF RebuildClearHash
    <3> QED
      BY <2>4, <3>1 DEF RebuildClearHash, TypeOK
  <2>5. ASSUME RebuildClearId(t) PROVE TypeOK'
    <3>1. job' \in [Thread -> Job]
      <4>1. PICK n \in job[t].ids : Loop(t, "clear", job[t].block, {}, job[t].ids \ {n})
        BY <2>5 DEF RebuildClearId
      <4>2. {} \in SUBSET Hash /\ job[t].ids \ {n} \in SUBSET Slot
        BY <2>1
      <4> QED
        BY <2>1, <2>2, <4>1, <4>2, LoopType
    <3> QED
      BY <2>5, <3>1 DEF RebuildClearId, TypeOK
  <2>6. ASSUME RebuildCleared(t) PROVE TypeOK'
    <3>1. job' \in [Thread -> Job]
      BY <2>1, <2>2, <2>6, LoopType DEF RebuildCleared
    <3> QED
      BY <2>6, <3>1 DEF RebuildCleared, TypeOK
  <2> QED
    BY <1>11, <2>3, <2>4, <2>5, <2>6
<1>12. ASSUME NEW t \in Thread, RebuildWrite(t) \/ AdoptWrite(t) PROVE TypeOK'
  <2>1. job[t].op \in LockedOps /\ \E last \in LockedOps : WriteLowest(t, last)
    BY <1>12 DEF RebuildWrite, AdoptWrite, LockedOps, RebuildOps, AdoptOps
  <2> QED
    BY <1>12, <2>1, WriteLowestType DEF RebuildWrite, AdoptWrite, TypeOK
<1>13. ASSUME NEW t \in Thread, RewriteFinish(t) PROVE TypeOK'
  <2>1. job[t].block \in Hash /\ Number[job[t].block] \in Slot
    BY <1>13, JobBlock, BlockFacts DEF RewriteFinish
  <2>2. checkpoint' \in Hash \cup {None}
    BY <1>13, <2>1, CheckpointType DEF RewriteFinish
  <2> QED
    BY <1>13, <2>1, <2>2, IdleIsJob DEF RewriteFinish, SetLatestBlockId, TypeOK
<1>14. ASSUME NEW t \in Thread, NEW h \in Hash, AdoptBegin(t, h) PROVE TypeOK'
  <2>1. job' \in [Thread -> Job]
    BY <1>14, GotoType DEF AdoptBegin, LockedOps, AdoptOps
  <2> QED
    BY <1>14, <2>1 DEF AdoptBegin, TypeOK
<1>15. ASSUME NEW t \in Thread, AdoptDiverge(t) PROVE TypeOK'
  <2>1. job[t].block \in Hash /\ Branch[job[t].block] \subseteq Hash
    BY <1>15, JobBlock, BlockFacts DEF AdoptDiverge
  <2>2. PICK rewrite \in SUBSET Hash : Loop(t, "rewrite", job[t].block, rewrite, {})
    BY <1>15, <2>1 DEF AdoptDiverge
  <2>3. job' \in [Thread -> Job]
    <3>1. {} \in SUBSET Slot /\ "rewrite" \in AddOps \cup LockedOps
      BY DEF LockedOps, AdoptOps
    <3> QED
      BY <2>1, <2>2, <3>1, LoopType
  <2> QED
    BY <1>15, <2>3 DEF AdoptDiverge, TypeOK
<1>16. ASSUME Crash PROVE TypeOK'
  BY <1>16 DEF Crash, TypeOK, CacheEntry, Job
<1>17. ASSUME DeleteAll PROVE TypeOK'
  BY <1>17, HashAssumption DEF DeleteAll, Wipe, TypeOK
<1>18. CASE UNCHANGED vars
  BY <1>18 DEF vars, TypeOK
<1> QED
  BY <1>1, <1>2, <1>3, <1>4, <1>5, <1>6, <1>7, <1>8, <1>9, <1>10, <1>11, <1>12, <1>13,
     <1>14, <1>15, <1>16, <1>17, <1>18
     DEF Next, NextRunning, AddBlock, Rebuild, Adopt

\* The variables keep their types whatever the threads do and wherever a crash falls.
THEOREM TypeCorrect == Spec => []TypeOK
<1>1. Init => TypeOK
  BY HashAssumption DEF Init, TypeOK, CacheEntry, Job
<1> QED
  BY <1>1, TypeStep, PTL DEF Spec

-----------------------------------------------------------------------------
(* The store and its indexes.                                              *)

\* Threads are independent: what one relies on survives another's step, as long as
\* blocks are only added and canonical slots only filled or overwritten.
LEMMA OtherThreads ==
  ASSUME StoreInv, NEW t \in Thread,
         stored \subseteq stored',
         \A n \in Slot : canonical[n] # None => canonical'[n] # None,
         \A s \in Thread \ {t} : job'[s] = job[s],
         ThreadSound(t)'
  PROVE  (\A s \in Thread : ThreadSound(s))'
<1> SUFFICES ASSUME NEW s \in Thread, s # t PROVE ThreadSound(s)'
  OBVIOUS
<1>1. job'[s] = job[s] /\ ThreadSound(s)
  BY DEF StoreInv
<1>2. job[s].op = "put" => job[s].block = Genesis \/ ParentAcceptable(job[s].block)'
  BY <1>1 DEF ThreadSound, ParentAcceptable
<1>3. job[s].op \notin {"idle", "put"} => job[s].block \in stored /\ Number[job[s].block] \in Slot
  BY <1>1, BlockFacts DEF ThreadSound, StoreInv, TypeOK
<1> QED
  BY <1>1, <1>2, <1>3 DEF ThreadSound

\* The same for a step that changes neither the blocks nor the canonical slots.
LEMMA QuietStore ==
  ASSUME StoreInv, UNCHANGED <<stored, canonical>>
  PROVE  LinkedStore' /\ RootedStore' /\ CanonicalSound'
BY DEF StoreInv, LinkedStore, RootedStore, IndexSound, CanonicalSound

\* The chain of a stored block is stored and linked.
LEMMA StoredChain ==
  ASSUME StoreInv, NEW h \in stored
  PROVE  /\ h \in Hash
         /\ Branch[h] \subseteq stored
         /\ \A g \in Branch[h] : g # Genesis =>
              Parent[g] \in stored /\ ChildConnectsToParent(g, Parent[g])
BY DEF StoreInv, TypeOK, RootedStore, LinkedStore

\* WriteChain keeps the indexes sound when the chain is stored and its links connect.
LEMMA WriteChainSound ==
  ASSUME StoreInv, UNCHANGED stored,
         NEW C \in SUBSET stored, NEW links \in SUBSET stored, Genesis \notin links,
         WriteChain(C, links)
  PROVE  /\ CanonicalSound'
         /\ NextSound'
         /\ \A n \in Slot : canonical[n] # None => canonical'[n] # None
         /\ \A h \in C : canonical'[Number[h]] # None
<1>1. C \subseteq Hash /\ links \subseteq Hash
  BY DEF StoreInv, TypeOK
<1>2. \A n \in Slot :
        IF \E h \in C : Number[h] = n
        THEN canonical'[n] \in C /\ Number[canonical'[n]] = n
        ELSE canonical'[n] = canonical[n]
  BY DEF WriteChain, PutCanonical, PutNextHash, PutNextId
<1>3. \A p \in Hash :
        IF \E h \in links : Parent[h] = p
        THEN nextHash'[p] \in links /\ Parent[nextHash'[p]] = p
        ELSE nextHash'[p] = nextHash[p]
  BY DEF WriteChain, PutCanonical, PutNextHash, PutNextId
<1>4. CanonicalSound'
  BY <1>2 DEF StoreInv, IndexSound, CanonicalSound
<1>5. NextSound'
  <2>1. \A g \in links : ChildConnectsToParent(g, Parent[g])
    BY DEF StoreInv, LinkedStore
  <2> QED
    BY <1>3, <2>1 DEF StoreInv, IndexSound, NextSound
<1>6. \A n \in Slot : canonical[n] # None => canonical'[n] # None
  BY <1>1, <1>2, BlockFacts
<1>7. \A h \in C : canonical'[Number[h]] # None
  BY <1>1, <1>2, BlockFacts
<1> QED
  BY <1>4, <1>5, <1>6, <1>7

LEMMA CheckpointStored ==
  ASSUME StoreInv, NEW h \in stored, checkpoint' = AdvancedCheckpoint(h), UNCHANGED stored
  PROVE  CheckpointSound'
BY CheckpointMoves, StoredChain DEF StoreInv, IndexSound, CheckpointSound

\* Writing the lowest block that is left keeps the store sound; the chain's end comes last.
LEMMA WriteLowestSound ==
  ASSUME StoreInv, TypeOK', NEW t \in Thread, job[t].op \in {"write", "rewrite"},
         NEW last \in {"finish", "adopted"}, WriteLowest(t, last),
         UNCHANGED <<stored, latest, checkpoint>>
  PROVE  StoreInv'
<1>0. PICK b : b = job[t].block
  OBVIOUS
<1>1. PICK h \in job[t].todo :
        /\ \A g \in job[t].todo : Number[h] <= Number[g]
        /\ WriteChain({h}, {c \in Branch[b] : Parent[c] = h})
        /\ IF job[t].todo = {h} THEN Goto(t, last, b)
           ELSE Loop(t, job[t].op, b, job[t].todo \ {h}, {})
  BY <1>0 DEF WriteLowest
<1>2. b \in stored /\ b \in job[t].todo /\ job[t].todo \subseteq Branch[b]
  BY <1>0 DEF StoreInv, ThreadSound
<1>3. b \in Hash /\ Branch[b] \subseteq stored /\ stored \in SUBSET Hash /\ Linked(stored)
  BY <1>2, StoredChain DEF StoreInv, TypeOK, LinkedStore, Linked
<1>4. job[t].todo # {h} => b # h
  <2> SUFFICES ASSUME b = h, NEW g \in job[t].todo PROVE g = h
    BY <1>1
  <2>1. g # b => Number[g] < Number[b]
    BY <1>2, <1>3, BranchFacts
  <2>2. Number[b] <= Number[g] /\ Number[b] \in Nat /\ Number[g] \in Nat
    BY <1>1, <1>2, <1>3, BlockFacts
  <2> QED
    BY <2>1, <2>2
<1> DEFINE C     == {h}
           links == {c \in Branch[b] : Parent[c] = h}
<1>5. /\ C \in SUBSET stored /\ links \in SUBSET stored /\ h \in C
      /\ Genesis \notin links
      /\ WriteChain(C, links)
  <2>1. h \in Hash /\ h # None
    BY <1>1, <1>2, <1>3, BlockFacts
  <2> QED
    BY <1>1, <1>2, <1>3, <2>1, HeaderAssumption
<1> HIDE DEF C, links
<1>6. /\ CanonicalSound'
      /\ NextSound'
      /\ \A n \in Slot : canonical[n] # None => canonical'[n] # None
      /\ canonical'[Number[h]] # None
  BY <1>5, WriteChainSound
<1>7. LinkedStore' /\ RootedStore'
  BY DEF StoreInv, LinkedStore, RootedStore
<1>8. TipSound' /\ CheckpointSound'
  BY <1>6 DEF StoreInv, IndexSound, TipSound, CheckpointSound, GetBlock
<1>9. ThreadSound(t)' /\ \A s \in Thread \ {t} : job'[s] = job[s]
  <2>1. CASE job[t].todo = {h}
    <3>1. b = h /\ Goto(t, last, b)
      BY <1>1, <1>2, <2>1
    <3>2. job' = [job EXCEPT ![t] = [op |-> last, block |-> b, todo |-> {}, ids |-> {}]]
      BY <3>1 DEF Goto, Loop
    <3> QED
      BY <1>2, <1>6, <3>1, <3>2 DEF ThreadSound, StoreInv, TypeOK
  <2>2. CASE job[t].todo # {h}
    <3>1. Loop(t, job[t].op, b, job[t].todo \ {h}, {})
      BY <1>1, <2>2
    <3>2. job' = [job EXCEPT ![t] = [op |-> job[t].op, block |-> b, todo |-> job[t].todo \ {h},
                                     ids |-> {}]]
      BY <3>1 DEF Loop
    <3>3. b \in job[t].todo \ {h}
      BY <1>2, <1>4, <2>2
    <3> QED
      BY <1>2, <3>2, <3>3 DEF ThreadSound, StoreInv, TypeOK
  <2> QED
    BY <2>1, <2>2
<1>10. (\A s \in Thread : ThreadSound(s))'
  BY <1>6, <1>9, OtherThreads
<1> QED
  BY <1>6, <1>7, <1>8, <1>10 DEF StoreInv, IndexSound

\* Every step of Next keeps StoreInv.
LEMMA StoreStep == StoreInv /\ [Next]_vars => StoreInv'
<1> SUFFICES ASSUME StoreInv, [Next]_vars PROVE StoreInv'
  OBVIOUS
<1> USE DEF disk, index, tip
<1>0. TypeOK /\ TypeOK'
  BY TypeStep DEF StoreInv
<1>1. ASSUME NEW t \in Thread, NEW b \in Hash, AddBlockAccept(t, b) PROVE StoreInv'
  <2>1. ThreadSound(t)'
    BY <1>0, <1>1 DEF AddBlockAccept, AddBlockCandidate, Goto, Loop, ThreadSound, ParentAcceptable, TypeOK
  <2>2. (\A s \in Thread : ThreadSound(s))'
    BY <1>0, <1>1, <2>1, OtherThreads DEF AddBlockAccept, Goto, Loop, TypeOK
  <2> QED
    BY <1>0, <1>1, <2>2, QuietStore
       DEF AddBlockAccept, StoreInv, IndexSound, NextSound, TipSound, CheckpointSound, GetBlock
<1>2. ASSUME NEW t \in Thread, NEW b \in Hash, AddBlockReject(t, b) PROVE StoreInv'
  <2>1. (\A s \in Thread : ThreadSound(s))'
    BY <1>2 DEF AddBlockReject, StoreInv, ThreadSound, ParentAcceptable
  <2> QED
    BY <1>0, <1>2, <2>1, QuietStore
       DEF AddBlockReject, StoreInv, IndexSound, NextSound, TipSound, CheckpointSound, GetBlock
<1>3. ASSUME NEW t \in Thread, AddBlockPut(t) PROVE StoreInv'
  <2> DEFINE b == job[t].block
  <2>1. b \in Hash /\ stored' = stored \cup {b} /\ (b = Genesis \/ ParentAcceptable(b))
    BY <1>0, <1>3, JobBlock DEF AddBlockPut, StoreInv, ThreadSound
  <2>2. LinkedStore'
    BY <2>1 DEF StoreInv, LinkedStore, ParentAcceptable, ChildConnectsToParent
  <2>3. RootedStore'
    <3>1. Branch[b] \subseteq stored' /\ Genesis \in Branch[b]
      <4>1. CASE b = Genesis
        BY <2>1, <4>1, BranchAssumption, HeaderAssumption
      <4>2. CASE b # Genesis
        <5>1. Parent[b] \in stored /\ Parent[b] # None
          BY <1>0, <2>1, <4>2, HashAssumption DEF ParentAcceptable, TypeOK
        <5>2. Branch[b] = {b} \cup Branch[Parent[b]]
          BY <2>1, <5>1, BranchAssumption
        <5> QED
          BY <2>1, <5>1, <5>2 DEF StoreInv, RootedStore
      <4> QED
        BY <4>1, <4>2
    <3> QED
      BY <2>1, <3>1 DEF StoreInv, RootedStore
  <2>4. IndexSound'
    BY <1>3, <2>1
       DEF AddBlockPut, StoreInv, IndexSound, CanonicalSound, NextSound, TipSound,
           CheckpointSound, GetBlock
  <2>5. ThreadSound(t)'
    BY <1>0, <1>3, <2>1 DEF AddBlockPut, Goto, Loop, ThreadSound, TypeOK
  <2>6. (\A s \in Thread : ThreadSound(s))'
    BY <1>0, <1>3, <2>1, <2>5, OtherThreads DEF AddBlockPut, Goto, Loop, TypeOK
  <2> QED
    BY <1>0, <2>2, <2>3, <2>4, <2>6 DEF StoreInv
<1>4. ASSUME NEW t \in Thread, AddBlockCanonical(t) PROVE StoreInv'
  <2> DEFINE b == job[t].block
  <2>1. b \in stored /\ b \in Hash /\ Number[b] \in Slot /\ b # None /\ UNCHANGED stored
    BY <1>0, <1>4, JobBlock, BlockFacts DEF AddBlockCanonical, StoreInv, ThreadSound
  <2>2. \/ canonical' = [canonical EXCEPT ![Number[b]] = b]
        \/ canonical' = canonical /\ canonical[Number[b]] # None
    BY <1>4 DEF AddBlockCanonical
  <2>3. /\ canonical'[Number[b]] # None
        /\ \A n \in Slot : canonical[n] # None => canonical'[n] # None
    BY <1>0, <2>1, <2>2 DEF TypeOK
  <2>4. CanonicalSound'
    BY <1>0, <2>1, <2>2 DEF StoreInv, IndexSound, CanonicalSound, TypeOK
  <2>5. LinkedStore' /\ RootedStore'
    BY <2>1 DEF StoreInv, LinkedStore, RootedStore
  <2>6. NextSound' /\ TipSound' /\ CheckpointSound'
    BY <1>4, <2>1, <2>3
       DEF AddBlockCanonical, StoreInv, IndexSound, NextSound, TipSound, CheckpointSound, GetBlock
  <2>7. ThreadSound(t)' /\ \A s \in Thread \ {t} : job'[s] = job[s]
    BY <1>0, <1>4, <2>1, <2>3 DEF AddBlockCanonical, Goto, Loop, Return, Idle, ThreadSound, TypeOK
  <2>8. (\A s \in Thread : ThreadSound(s))'
    BY <2>1, <2>3, <2>7, OtherThreads
  <2> QED
    BY <1>0, <2>4, <2>5, <2>6, <2>8 DEF StoreInv, IndexSound
<1>5. ASSUME NEW t \in Thread, AddBlockNext(t) PROVE StoreInv'
  <2> DEFINE b == job[t].block
  <2>1. b \in stored /\ b \in Hash /\ canonical[Number[b]] # None
    BY <1>0, <1>5, JobBlock DEF AddBlockNext, StoreInv, ThreadSound
  <2>2. NextSound'
    BY <1>0, <1>5, <2>1
       DEF AddBlockNext, StoreInv, LinkedStore, IndexSound, NextSound, TypeOK
  <2>3. ThreadSound(t)' /\ \A s \in Thread \ {t} : job'[s] = job[s]
    BY <1>0, <1>5, <2>1 DEF AddBlockNext, Goto, Loop, ThreadSound, TypeOK
  <2>4. (\A s \in Thread : ThreadSound(s))'
    BY <1>5, <2>3, OtherThreads DEF AddBlockNext
  <2> QED
    BY <1>0, <1>5, <2>2, <2>4, QuietStore
       DEF AddBlockNext, StoreInv, IndexSound, TipSound, CheckpointSound, GetBlock
<1>6. ASSUME NEW t \in Thread, AddBlockCheckTip(t) PROVE StoreInv'
  <2>1. job[t].block \in stored /\ canonical[Number[job[t].block]] # None
    BY <1>6 DEF AddBlockCheckTip, StoreInv, ThreadSound
  <2>2. ThreadSound(t)' /\ \A s \in Thread \ {t} : job'[s] = job[s]
    BY <1>0, <1>6, <2>1 DEF AddBlockCheckTip, Goto, Loop, Return, Idle, ThreadSound, TypeOK
  <2>3. (\A s \in Thread : ThreadSound(s))'
    BY <1>6, <2>2, OtherThreads DEF AddBlockCheckTip
  <2> QED
    BY <1>0, <1>6, <2>3, QuietStore
       DEF AddBlockCheckTip, StoreInv, IndexSound, NextSound, TipSound, CheckpointSound, GetBlock
<1>7. ASSUME NEW t \in Thread, AddBlockSetTip(t) PROVE StoreInv'
  <2> DEFINE b == job[t].block
  <2>1. b \in stored /\ Number[b] \in Slot /\ canonical[Number[b]] # None
    BY <1>0, <1>7, JobBlock, BlockFacts DEF AddBlockSetTip, StoreInv, ThreadSound
  <2>2. TipSound'
    BY <1>7, <2>1 DEF AddBlockSetTip, SetLatestBlockId, TipSound, GetBlock
  <2>3. CheckpointSound'
    BY <1>7, <2>1, CheckpointStored DEF AddBlockSetTip, StoreInv, IndexSound, CheckpointSound
  <2>4. ThreadSound(t)' /\ \A s \in Thread \ {t} : job'[s] = job[s]
    BY <1>0, <1>7, <2>1 DEF AddBlockSetTip, Goto, Loop, Return, Idle, ThreadSound, TypeOK
  <2>5. (\A s \in Thread : ThreadSound(s))'
    BY <1>7, <2>4, OtherThreads DEF AddBlockSetTip
  <2> QED
    BY <1>0, <1>7, <2>2, <2>3, <2>5, QuietStore DEF AddBlockSetTip, StoreInv, IndexSound, NextSound
<1>8. ASSUME NEW t \in Thread, SetFirstBlockId(t) PROVE StoreInv'
  <2>1. ThreadSound(t)' /\ \A s \in Thread \ {t} : job'[s] = job[s]
    BY <1>0, <1>8 DEF SetFirstBlockId, Idle, ThreadSound, TypeOK
  <2>2. (\A s \in Thread : ThreadSound(s))'
    BY <1>8, <2>1, OtherThreads DEF SetFirstBlockId
  <2> QED
    BY <1>0, <1>8, <2>2, QuietStore
       DEF SetFirstBlockId, StoreInv, IndexSound, NextSound, TipSound, CheckpointSound, GetBlock
<1>9. ASSUME NEW t \in Thread, RebuildFast(t) PROVE StoreInv'
  <2>1. GetBlock(latest) \in stored
    BY <1>9 DEF RebuildFast, FastPathApplies, GetBlock, StoreInv, IndexSound, CanonicalSound
  <2>2. CheckpointSound'
    BY <1>9, <2>1, CheckpointStored DEF RebuildFast
  <2>3. (\A s \in Thread : ThreadSound(s))'
    BY <1>9 DEF RebuildFast, StoreInv, ThreadSound, ParentAcceptable
  <2> QED
    BY <1>0, <1>9, <2>2, <2>3, QuietStore
       DEF RebuildFast, StoreInv, IndexSound, NextSound, TipSound, GetBlock
<1>10. ASSUME NEW t \in Thread, RebuildBegin(t) PROVE StoreInv'
  <2>1. PICK h \in stored : Goto(t, "list", h)
    BY <1>10 DEF RebuildBegin
  <2>2. ThreadSound(t)' /\ \A s \in Thread \ {t} : job'[s] = job[s]
    BY <1>0, <1>10, <2>1 DEF RebuildBegin, Goto, Loop, ThreadSound, TypeOK
  <2>3. (\A s \in Thread : ThreadSound(s))'
    BY <1>10, <2>2, OtherThreads DEF RebuildBegin
  <2> QED
    BY <1>0, <1>10, <2>3, QuietStore
       DEF RebuildBegin, StoreInv, IndexSound, NextSound, TipSound, CheckpointSound, GetBlock
<1>11. ASSUME NEW t \in Thread,
              RebuildList(t) \/ RebuildClearHash(t) \/ RebuildClearId(t) \/ RebuildCleared(t)
       PROVE  StoreInv'
  <2>1. UNCHANGED <<stored, canonical, latest, checkpoint>>
    BY <1>11 DEF RebuildList, RebuildClearHash, RebuildClearId, RebuildCleared
  <2>2. NextSound'
    <3>1. nextHash' = nextHash \/ \E h \in job[t].todo : nextHash' = [nextHash EXCEPT ![h] = None]
      BY <1>11 DEF RebuildList, RebuildClearHash, RebuildClearId, RebuildCleared
    <3>2. \A p \in Hash : nextHash'[p] # None => nextHash'[p] = nextHash[p]
      BY <1>0, <3>1 DEF TypeOK
    <3> QED
      BY <2>1, <3>2 DEF StoreInv, IndexSound, NextSound
  <2>3. job[t].block \in stored /\ job[t].block \in Branch[job[t].block]
    BY <1>0, <1>11, JobBlock, BlockFacts
       DEF RebuildList, RebuildClearHash, RebuildClearId, RebuildCleared, StoreInv, ThreadSound
  <2>4. \/ \E todo, ids : Loop(t, "clear", job[t].block, todo, ids)
        \/ Loop(t, "write", job[t].block, Branch[job[t].block], {})
    BY <1>11 DEF RebuildList, RebuildClearHash, RebuildClearId, RebuildCleared
  <2>5. ThreadSound(t)' /\ \A s \in Thread \ {t} : job'[s] = job[s]
    BY <1>0, <2>1, <2>3, <2>4 DEF Loop, ThreadSound, TypeOK
  <2>6. (\A s \in Thread : ThreadSound(s))'
    BY <2>1, <2>5, OtherThreads
  <2> QED
    BY <1>0, <2>1, <2>2, <2>6, QuietStore
       DEF StoreInv, IndexSound, TipSound, CheckpointSound, GetBlock
<1>12. ASSUME NEW t \in Thread, RebuildWrite(t) \/ AdoptWrite(t) PROVE StoreInv'
  BY <1>0, <1>12, WriteLowestSound DEF RebuildWrite, AdoptWrite
<1>13. ASSUME NEW t \in Thread, RewriteFinish(t) PROVE StoreInv'
  <2> DEFINE b == job[t].block
  <2>1. b \in stored /\ Number[b] \in Slot /\ canonical[Number[b]] # None
    BY <1>0, <1>13, JobBlock, BlockFacts DEF RewriteFinish, StoreInv, ThreadSound
  <2>2. TipSound'
    BY <1>13, <2>1 DEF RewriteFinish, SetLatestBlockId, TipSound, GetBlock
  <2>3. CheckpointSound'
    BY <1>13, <2>1, CheckpointStored DEF RewriteFinish
  <2>4. ThreadSound(t)' /\ \A s \in Thread \ {t} : job'[s] = job[s]
    BY <1>0, <1>13 DEF RewriteFinish, Idle, ThreadSound, TypeOK
  <2>5. (\A s \in Thread : ThreadSound(s))'
    BY <1>13, <2>4, OtherThreads DEF RewriteFinish
  <2> QED
    BY <1>0, <1>13, <2>2, <2>3, <2>5, QuietStore DEF RewriteFinish, StoreInv, IndexSound, NextSound
<1>14. ASSUME NEW t \in Thread, NEW h \in Hash, AdoptBegin(t, h) PROVE StoreInv'
  <2>1. ThreadSound(t)' /\ \A s \in Thread \ {t} : job'[s] = job[s]
    BY <1>0, <1>14 DEF AdoptBegin, Goto, Loop, ThreadSound, TypeOK
  <2>2. (\A s \in Thread : ThreadSound(s))'
    BY <1>14, <2>1, OtherThreads DEF AdoptBegin
  <2> QED
    BY <1>0, <1>14, <2>2, QuietStore
       DEF AdoptBegin, StoreInv, IndexSound, NextSound, TipSound, CheckpointSound, GetBlock
<1>15. ASSUME NEW t \in Thread, AdoptDiverge(t) PROVE StoreInv'
  <2>0. PICK b : b = job[t].block
    OBVIOUS
  <2> DEFINE C       == Branch[b]
             agrees  == {h \in C : \A g \in C : Number[g] <= Number[h] => canonical[Number[g]] = g}
             rewrite == {h \in C : \A g \in agrees : Number[g] <= Number[h]}
  <2>1. b \in stored /\ b \in Hash /\ Loop(t, "rewrite", b, rewrite, {})
    BY <1>0, <1>15, <2>0, JobBlock DEF AdoptDiverge, StoreInv, ThreadSound
  <2>2. stored \in SUBSET Hash /\ Linked(stored)
    BY DEF StoreInv, TypeOK, LinkedStore, Linked
  <2>3. b \in rewrite
    <3>1. b \in C /\ C \subseteq Hash
      BY <2>1, BlockFacts
    <3>2. \A g \in C : g = b \/ Number[g] < Number[b]
      BY <2>1, <2>2, BranchFacts
    <3>3. \A g \in C : Number[g] \in Nat
      BY <3>1, BlockFacts
    <3> HIDE DEF C
    <3>4. \A g \in C : Number[g] <= Number[b]
      BY <3>1, <3>2, <3>3
    <3> QED
      BY <3>1, <3>4
  <2>4. rewrite \subseteq C
    OBVIOUS
  <2> HIDE DEF rewrite
  <2>5. ThreadSound(t)' /\ \A s \in Thread \ {t} : job'[s] = job[s]
    BY <1>0, <1>15, <2>1, <2>3, <2>4 DEF AdoptDiverge, Loop, ThreadSound, TypeOK
  <2>6. (\A s \in Thread : ThreadSound(s))'
    BY <1>15, <2>5, OtherThreads DEF AdoptDiverge
  <2> QED
    BY <1>0, <1>15, <2>6, QuietStore
       DEF AdoptDiverge, StoreInv, IndexSound, NextSound, TipSound, CheckpointSound, GetBlock
<1>16. ASSUME Crash PROVE StoreInv'
  <2>1. (\A s \in Thread : ThreadSound(s))'
    BY <1>16 DEF Crash, Idle, ThreadSound
  <2> QED
    BY <1>0, <1>16, <2>1, QuietStore
       DEF Crash, StoreInv, IndexSound, NextSound, TipSound, CheckpointSound, GetBlock
<1>17. ASSUME DeleteAll PROVE StoreInv'
  <2>1. (\A s \in Thread : ThreadSound(s))'
    BY <1>17 DEF DeleteAll, ThreadSound, Idle
  <2> QED
    BY <1>0, <1>17, <2>1
       DEF DeleteAll, Wipe, StoreInv, LinkedStore, RootedStore, IndexSound, CanonicalSound, NextSound,
           TipSound, CheckpointSound
<1>18. CASE UNCHANGED vars
  <2>1. (\A s \in Thread : ThreadSound(s))'
    BY <1>18 DEF vars, StoreInv, ThreadSound, ParentAcceptable
  <2> QED
    BY <1>0, <1>18, <2>1, QuietStore
       DEF vars, StoreInv, IndexSound, NextSound, TipSound, CheckpointSound, GetBlock
<1> QED
  BY <1>1, <1>2, <1>3, <1>4, <1>5, <1>6, <1>7, <1>8, <1>9, <1>10, <1>11, <1>12, <1>13,
     <1>14, <1>15, <1>16, <1>17, <1>18
     DEF Next, NextRunning, AddBlock, Rebuild, Adopt

LEMMA StoreInit == Init => StoreInv
<1> SUFFICES ASSUME Init PROVE StoreInv
  OBVIOUS
<1>1. TypeOK
  BY HashAssumption DEF Init, TypeOK, CacheEntry, Job
<1>2. \A t \in Thread : ThreadSound(t)
  BY DEF Init, Idle, ThreadSound
<1> QED
  BY <1>1, <1>2
     DEF Init, StoreInv, LinkedStore, RootedStore, IndexSound, CanonicalSound, NextSound,
         TipSound, CheckpointSound

LEMMA StoreInvariant == Spec => []StoreInv
BY StoreInit, StoreStep, PTL DEF Spec

\* The store never has a hole: with any number of threads in AddBlock, rebuild and
\* adopt, and a crash between any two of their Puts, every stored block has its whole
\* ancestry stored, down to the pinned genesis.
THEOREM StoreRooted == Spec => []RootedStore
BY StoreInvariant, PTL DEF StoreInv

\* No canonical:<n>, next:<hash>, chain:latest_block or checkpoint key ever dangles.
THEOREM IndexesSound == Spec => []IndexSound
BY StoreInvariant, PTL DEF StoreInv

\* The chain end that rebuildBestChainIndex starts from is preferred to every other stored
\* block and none is preferred to it, so it does not depend on the order of the comparisons.
THEOREM BestEndDecided ==
  Spec => [](stored # {} =>
               /\ BestEnd \in stored
               /\ \A k \in stored \ {BestEnd} : PreferChain(BestEnd, k) /\ ~PreferChain(k, BestEnd))
<1>1. StoreInv => (stored # {} =>
                     /\ BestEnd \in stored
                     /\ \A k \in stored \ {BestEnd} :
                          PreferChain(BestEnd, k) /\ ~PreferChain(k, BestEnd))
  <2> SUFFICES ASSUME StoreInv, stored # {}
               PROVE  /\ BestEnd \in stored
                      /\ \A k \in stored \ {BestEnd} :
                           PreferChain(BestEnd, k) /\ ~PreferChain(k, BestEnd)
    OBVIOUS
  <2>1. stored \in SUBSET Hash /\ Linked(stored)
    BY DEF StoreInv, TypeOK, LinkedStore, Linked
  <2>2. \E h \in stored : \A k \in stored \ {h} : PreferChain(h, k)
    BY <2>1, ForkChoiceDecides
  <2>3. BestEnd \in stored /\ \A k \in stored \ {BestEnd} : PreferChain(BestEnd, k)
    BY <2>2 DEF BestEnd
  <2> QED
    BY <2>1, <2>3, ChainOrder
<1> QED
  BY <1>1, StoreInvariant, PTL

-----------------------------------------------------------------------------
(* The store implements ChainStore.                                        *)

\* Only AddBlockPut and the wipe change the set of blocks, only SetFirstBlockId changes the
\* first block, and no step but the wipe unsets the tip.
LEMMA StepShape ==
  ASSUME [Next]_vars, TypeOK
  PROVE  \/ UNCHANGED <<stored, first>> /\ (UNCHANGED latest \/ latest' # None)
         \/ \E t \in Thread : AddBlockPut(t) \/ SetFirstBlockId(t)
         \/ DeleteAll
<1> USE DEF disk, index, tip
<1>1. ASSUME NEW t \in Thread, AddBlock(t), ~AddBlockPut(t), ~SetFirstBlockId(t)
      PROVE  UNCHANGED <<stored, first>> /\ (UNCHANGED latest \/ latest' # None)
  <2>1. ASSUME AddBlockSetTip(t) PROVE UNCHANGED <<stored, first>> /\ latest' # None
    <3>1. job[t].block \in Hash
      BY <2>1, JobBlock DEF AddBlockSetTip
    <3> QED
      BY <2>1, <3>1, HeaderAssumption DEF AddBlockSetTip, SetLatestBlockId
  <2> QED
    BY <1>1, <2>1
       DEF AddBlock, AddBlockAccept, AddBlockReject, AddBlockCanonical, AddBlockNext,
           AddBlockCheckTip
<1>2. ASSUME NEW t \in Thread, Rebuild(t) \/ Adopt(t)
      PROVE  UNCHANGED <<stored, first, latest>>
  BY <1>2
     DEF Rebuild, RebuildFast, RebuildBegin, RebuildList, RebuildClearHash, RebuildClearId,
         RebuildCleared, RebuildWrite, Adopt, AdoptBegin, AdoptDiverge, AdoptWrite
<1>3. ASSUME NEW t \in Thread, RewriteFinish(t) PROVE UNCHANGED <<stored, first>> /\ latest' # None
  <2>1. job[t].block \in Hash
    BY <1>3, JobBlock DEF RewriteFinish
  <2> QED
    BY <1>3, <2>1, HeaderAssumption DEF RewriteFinish, SetLatestBlockId
<1>4. ASSUME Crash \/ UNCHANGED vars PROVE UNCHANGED <<stored, first, latest>>
  BY <1>4 DEF Crash, vars
<1> QED
  BY <1>1, <1>2, <1>3, <1>4 DEF Next, NextRunning

\* Before there is a tip, getBlock(-1) finds nothing; afterwards it finds a stored block.
LEMMA HeadStored ==
  ASSUME StoreInv
  PROVE  IF latest = None THEN GetBlock(latest) = None ELSE GetBlock(latest) \in stored
<1>1. None \notin Slot
  BY HeaderAssumption DEF Slot
<1> QED
  BY <1>1 DEF StoreInv, TypeOK, IndexSound, CanonicalSound, TipSound, GetBlock

\* Refinement: every step of the threads, every crash and the wipe is a step of ChainStore,
\* or leaves what the readers see alone.
THEOREM StoreImplementsChainStore == Spec => ImplementsChainStore
<1>0. None \notin Slot
  BY HeaderAssumption DEF Slot
<1>1. Init => Abstract!Init
  BY <1>0 DEF Init, Abstract!Init, GetBlock
<1>2. StoreInv /\ StoreInv' /\ [Next]_vars =>
        [Abstract!Next]_<<stored, GetBlock(latest), first # None>>
  <2> SUFFICES ASSUME StoreInv, StoreInv', [Next]_vars
               PROVE  [Abstract!Next]_<<stored, GetBlock(latest), first # None>>
    OBVIOUS
  <2>1. ASSUME NEW t \in Thread, AddBlockPut(t) PROVE Abstract!Next
    <3>1. job[t].block \in Hash
      BY <2>1, JobBlock DEF AddBlockPut, StoreInv
    <3>2. job[t].block = Genesis \/ Parent[job[t].block] \in stored
      BY <2>1 DEF AddBlockPut, StoreInv, ThreadSound, ParentAcceptable
    <3>3. UNCHANGED <<GetBlock(latest), first>>
      BY <2>1 DEF AddBlockPut, GetBlock, index, tip
    <3>4. Abstract!Learn(job[t].block)
      BY <2>1, <3>2, <3>3 DEF AddBlockPut, Abstract!Learn
    <3> QED
      BY <3>1, <3>4 DEF Abstract!Next
  <2>2. ASSUME NEW t \in Thread, SetFirstBlockId(t) PROVE Abstract!Next
    <3>1. job[t].block \in stored /\ job[t].block \in Hash
      BY <2>2 DEF SetFirstBlockId, StoreInv, ThreadSound, TypeOK
    <3>2. Genesis \in stored /\ first' # None
      BY <2>2, <3>1, BlockFacts DEF SetFirstBlockId, StoreInv, RootedStore
    <3>3. UNCHANGED <<stored, GetBlock(latest)>>
      BY <2>2 DEF SetFirstBlockId, GetBlock, index, tip
    <3> QED
      BY <3>2, <3>3 DEF Abstract!Next, Abstract!Open
  <2>3. ASSUME DeleteAll PROVE Abstract!Next
    <3>1. stored' = {} /\ GetBlock(latest)' = None /\ first = None /\ UNCHANGED first
      BY <1>0, <2>3 DEF DeleteAll, Wipe, GetBlock
    <3> QED
      BY <3>1 DEF Abstract!Next, Abstract!Reset
  <2>4. ASSUME UNCHANGED <<stored, first>>, latest' # None PROVE Abstract!Next
    <3>1. GetBlock(latest)' \in stored
      BY <2>4, HeadStored DEF StoreInv, TypeOK, IndexSound, CanonicalSound, TipSound, GetBlock
    <3> QED
      BY <2>4, <3>1 DEF Abstract!Next, Abstract!ChooseHead
  <2>5. ASSUME UNCHANGED <<stored, first, latest>>, latest' = None
        PROVE  UNCHANGED <<stored, GetBlock(latest), first # None>>
    BY <1>0, <2>5 DEF GetBlock
  <2> QED
    BY <2>1, <2>2, <2>3, <2>4, <2>5, StepShape DEF StoreInv
<1> QED
  BY <1>1, <1>2, StoreInvariant, PTL DEF Spec, ImplementsChainStore, Abstract!Spec

-----------------------------------------------------------------------------
(* The walk from genesis.                                                  *)

\* next_block_<n> is the number of a stored block that names n as its parent's number.
NextIdSound ==
  \A n \in Slot : nextId[n] # None =>
    \E b \in stored \ {Genesis} : PrevId[b] = n /\ Number[b] = nextId[n]

\* chain:first_block is genesis' number and its slot is filled, before the key is set too.
FirstSound ==
  /\ first # None => first = Number[Genesis]
  /\ first # None \/ (\E t \in Thread : job[t].op = "first") => canonical[Number[Genesis]] # None
  /\ \A t \in Thread : job[t].op = "first" => job[t].block = Genesis

\* Unless the store is wiped, blocks are only added, and canonical slots only filled or
\* overwritten.
LEMMA StoreGrows ==
  ASSUME StoreInv, [Next]_vars, ~DeleteAll
  PROVE  stored \subseteq stored' /\ \A n \in Slot : canonical[n] # None => canonical'[n] # None
<1> USE DEF disk, index, tip
<1>1. ASSUME NEW t \in Thread, AddBlockCanonical(t)
      PROVE  \A n \in Slot : canonical[n] # None => canonical'[n] # None
  <2>1. job[t].block \in Hash /\ job[t].block # None
    BY <1>1, JobBlock, BlockFacts DEF AddBlockCanonical, StoreInv
  <2> QED
    BY <1>1, <2>1 DEF AddBlockCanonical, StoreInv, TypeOK
<1>2. ASSUME NEW C \in SUBSET Hash, NEW links, WriteChain(C, links)
      PROVE  \A n \in Slot : canonical[n] # None => canonical'[n] # None
  <2>1. \A n \in Slot : canonical'[n] \in C \/ canonical'[n] = canonical[n]
    BY <1>2 DEF WriteChain, PutCanonical
  <2> QED
    BY <2>1, BlockFacts
<1>3. ASSUME NEW t \in Thread, RebuildWrite(t) \/ AdoptWrite(t)
      PROVE  \A n \in Slot : canonical[n] # None => canonical'[n] # None
  <2>1. job[t].todo \in SUBSET Hash
    BY <1>3, JobBlock DEF RebuildWrite, AdoptWrite, StoreInv
  <2>2. \E h \in job[t].todo : \E links : WriteChain({h}, links)
    BY <1>3 DEF RebuildWrite, AdoptWrite, WriteLowest
  <2> QED
    BY <1>2, <2>1, <2>2
<1>5. \/ \E t \in Thread : AddBlockCanonical(t) \/ RebuildWrite(t) \/ AdoptWrite(t)
      \/ canonical' = canonical
  BY DEF vars, Next, NextRunning, AddBlock, Rebuild, Adopt, AddBlockAccept, AddBlockReject,
         AddBlockPut, AddBlockNext, AddBlockCheckTip, AddBlockSetTip, SetFirstBlockId, RebuildFast,
         RebuildBegin, RebuildList, RebuildClearHash, RebuildClearId, RebuildCleared, AdoptBegin,
         AdoptDiverge, RewriteFinish, Crash
<1>6. stored \subseteq stored'
  BY StepShape DEF StoreInv, AddBlockPut, SetFirstBlockId
<1> QED
  BY <1>1, <1>3, <1>5, <1>6

\* A chain's links put sound next_block_<n> entries.
LEMMA WriteChainNextId ==
  ASSUME NextIdSound, UNCHANGED stored, NEW C, NEW links \in SUBSET stored, Genesis \notin links,
         WriteChain(C, links)
  PROVE  NextIdSound'
<1>1. \A n \in Slot : IF \E h \in links : PrevId[h] = n
                      THEN \E h \in links : PrevId[h] = n /\ nextId'[n] = Number[h]
                      ELSE nextId'[n] = nextId[n]
  BY DEF WriteChain, PutNextId
<1> QED
  BY <1>1 DEF NextIdSound

LEMMA NextIdStep == StoreInv /\ NextIdSound /\ [Next]_vars => NextIdSound'
<1> SUFFICES ASSUME StoreInv, NextIdSound, [Next]_vars PROVE NextIdSound'
  OBVIOUS
<1> USE DEF disk, index, tip
<1>1. ASSUME NEW t \in Thread, AddBlockNext(t) PROVE NextIdSound'
  <2>1. job[t].block \in stored /\ UNCHANGED stored
    BY <1>1 DEF AddBlockNext, StoreInv, ThreadSound
  <2> QED
    BY <1>1, <2>1 DEF AddBlockNext, NextIdSound, StoreInv, TypeOK
<1>2. ASSUME NEW t \in Thread, RebuildClearId(t) PROVE NextIdSound'
  BY <1>2 DEF RebuildClearId, NextIdSound, StoreInv, TypeOK
<1>3. ASSUME NEW t \in Thread, RebuildWrite(t) \/ AdoptWrite(t) PROVE NextIdSound'
  <2>0. PICK b : b = job[t].block
    OBVIOUS
  <2>1. b \in stored /\ UNCHANGED stored /\ job[t].todo \subseteq Branch[b]
    BY <1>3, <2>0 DEF RebuildWrite, AdoptWrite, StoreInv, ThreadSound
  <2>2. Branch[b] \subseteq stored
    BY <2>1, StoredChain
  <2>3. PICK h \in job[t].todo : WriteChain({h}, {c \in Branch[b] : Parent[c] = h})
    BY <1>3, <2>0 DEF RebuildWrite, AdoptWrite, WriteLowest
  <2> DEFINE links == {c \in Branch[b] : Parent[c] = h}
  <2>4. links \in SUBSET stored /\ Genesis \notin links /\ WriteChain({h}, links)
    <3>1. h # None
      BY <2>1, <2>2, <2>3, HashAssumption DEF StoreInv, TypeOK
    <3> QED
      BY <2>2, <2>3, <3>1, HeaderAssumption
  <2> HIDE DEF links
  <2> QED
    BY <2>1, <2>4, WriteChainNextId
<1>4. ASSUME DeleteAll PROVE NextIdSound'
  BY <1>4 DEF DeleteAll, Wipe, NextIdSound
<1>5. \/ \E t \in Thread : AddBlockNext(t) \/ RebuildClearId(t) \/ RebuildWrite(t) \/ AdoptWrite(t)
      \/ DeleteAll
      \/ nextId' = nextId
  BY DEF vars, Next, NextRunning, AddBlock, Rebuild, Adopt, AddBlockAccept, AddBlockReject,
         AddBlockPut, AddBlockCanonical, AddBlockCheckTip, AddBlockSetTip, SetFirstBlockId,
         RebuildFast, RebuildBegin, RebuildList, RebuildClearHash, RebuildCleared, AdoptBegin,
         AdoptDiverge, RewriteFinish, Crash
<1>6. ASSUME nextId' = nextId, ~DeleteAll PROVE NextIdSound'
  BY <1>6, StoreGrows DEF NextIdSound
<1> QED
  BY <1>1, <1>2, <1>3, <1>4, <1>5, <1>6

LEMMA FirstStep == StoreInv /\ FirstSound /\ [Next]_vars => FirstSound'
<1> SUFFICES ASSUME StoreInv, FirstSound, [Next]_vars, ~DeleteAll PROVE FirstSound'
  BY DEF DeleteAll, Wipe, FirstSound, Idle
<1> USE DEF disk, index, tip
<1>0. TypeOK /\ Number[Genesis] \in Slot
  BY HashAssumption, BlockFacts DEF StoreInv
<1>1. canonical[Number[Genesis]] # None => canonical'[Number[Genesis]] # None
  BY <1>0, StoreGrows
<1>2. ASSUME NEW t \in Thread, SetFirstBlockId(t) PROVE FirstSound'
  BY <1>0, <1>1, <1>2 DEF SetFirstBlockId, FirstSound, Idle, TypeOK
<1>3. ASSUME NEW t \in Thread, UNCHANGED first, job'[t].op # "first",
             \A s \in Thread \ {t} : job'[s] = job[s]
      PROVE  FirstSound'
  BY <1>1, <1>3 DEF FirstSound
<1>4. ASSUME NEW t \in Thread, NEW b \in Hash, UNCHANGED first, canonical'[Number[b]] # None, Return(t, b)
      PROVE  FirstSound'
  <2>1. \A s \in Thread \ {t} : job'[s] = job[s]
    BY <1>0, <1>4 DEF Return, Goto, Loop, TypeOK
  <2>2. job'[t].op = "first" => b = Genesis /\ job'[t].block = b
    BY <1>0, <1>4 DEF Return, Goto, Loop, Idle, TypeOK
  <2> QED
    BY <1>1, <1>4, <2>1, <2>2 DEF FirstSound
<1>5. ASSUME NEW t \in Thread, NEW b, NEW op, op # "first", UNCHANGED first, Goto(t, op, b)
      PROVE  FirstSound'
  <2>1. job'[t].op # "first" /\ \A s \in Thread \ {t} : job'[s] = job[s]
    BY <1>0, <1>5 DEF Goto, Loop, TypeOK
  <2> QED
    BY <1>3, <1>5, <2>1
<1>5a. ASSUME NEW t \in Thread, NEW b, NEW op, NEW todo, NEW ids, op # "first", UNCHANGED first,
              Loop(t, op, b, todo, ids)
       PROVE  FirstSound'
  <2>1. job'[t].op # "first" /\ \A s \in Thread \ {t} : job'[s] = job[s]
    BY <1>0, <1>5a DEF Loop, TypeOK
  <2> QED
    BY <1>3, <1>5a, <2>1
<1>5b. ASSUME NEW t \in Thread, RebuildWrite(t) \/ AdoptWrite(t) PROVE FirstSound'
  <2>1. UNCHANGED first /\ job[t].op \in {"write", "rewrite"}
    BY <1>5b DEF RebuildWrite, AdoptWrite
  <2>2. \/ \E last \in {"finish", "adopted"} : Goto(t, last, job[t].block)
        \/ \E h : Loop(t, job[t].op, job[t].block, job[t].todo \ {h}, {})
    BY <1>5b DEF RebuildWrite, AdoptWrite, WriteLowest
  <2> QED
    BY <1>5, <1>5a, <2>1, <2>2
<1>6. ASSUME UNCHANGED <<first, job>> PROVE FirstSound'
  BY <1>1, <1>6 DEF FirstSound
<1>7. ASSUME NEW t \in Thread, AddBlock(t) PROVE FirstSound'
  <2>1. ASSUME AddBlockCanonical(t) PROVE FirstSound'
    <3>1. job[t].block \in Hash /\ Number[job[t].block] \in Slot
      BY <1>0, <2>1, JobBlock, BlockFacts DEF AddBlockCanonical
    <3>2. CASE Goto(t, "next", job[t].block)
      BY <1>5, <2>1, <3>2 DEF AddBlockCanonical
    <3>3. CASE Return(t, job[t].block) /\ canonical[Number[job[t].block]] # None
      <4>1. canonical'[Number[job[t].block]] # None
        BY <3>1, <3>3, StoreGrows
      <4> QED
        BY <1>4, <2>1, <3>1, <3>3, <4>1 DEF AddBlockCanonical
    <3> QED
      BY <2>1, <3>2, <3>3 DEF AddBlockCanonical
  <2>2. ASSUME AddBlockCheckTip(t) \/ AddBlockSetTip(t) PROVE FirstSound'
    <3>1. job[t].block \in Hash /\ canonical'[Number[job[t].block]] # None /\ UNCHANGED first
      BY <1>0, <2>2, JobBlock DEF AddBlockCheckTip, AddBlockSetTip, StoreInv, ThreadSound
    <3>2. Goto(t, "tip", job[t].block) \/ Return(t, job[t].block)
      BY <2>2 DEF AddBlockCheckTip, AddBlockSetTip
    <3> QED
      BY <1>4, <1>5, <3>1, <3>2
  <2>3. ASSUME NEW b \in Hash, AddBlockAccept(t, b) PROVE FirstSound'
    BY <1>5, <2>3 DEF AddBlockAccept
  <2>4. ASSUME NEW b \in Hash, AddBlockReject(t, b) PROVE FirstSound'
    BY <1>6, <2>4 DEF AddBlockReject
  <2>5. ASSUME AddBlockPut(t) PROVE FirstSound'
    BY <1>5, <2>5 DEF AddBlockPut
  <2>6. ASSUME AddBlockNext(t) PROVE FirstSound'
    BY <1>5, <2>6 DEF AddBlockNext
  <2> QED
    BY <1>2, <1>7, <2>1, <2>2, <2>3, <2>4, <2>5, <2>6 DEF AddBlock
<1>8. ASSUME NEW t \in Thread, Rebuild(t) PROVE FirstSound'
  <2>1. ASSUME RebuildFast(t) PROVE FirstSound'
    BY <1>6, <2>1 DEF RebuildFast
  <2>2. ASSUME RebuildBegin(t) PROVE FirstSound'
    <3>1. PICK h \in stored : Goto(t, "list", h)
      BY <2>2 DEF RebuildBegin
    <3> QED
      BY <1>5, <2>2, <3>1 DEF RebuildBegin
  <2>3. ASSUME RebuildList(t) \/ RebuildClearHash(t) \/ RebuildClearId(t) \/ RebuildCleared(t)
        PROVE  FirstSound'
    <3>1. UNCHANGED first
      BY <2>3 DEF RebuildList, RebuildClearHash, RebuildClearId, RebuildCleared
    <3>2. \E op \in {"clear", "write"} : \E todo, ids : Loop(t, op, job[t].block, todo, ids)
      BY <2>3 DEF RebuildList, RebuildClearHash, RebuildClearId, RebuildCleared
    <3> QED
      BY <1>5a, <3>1, <3>2
  <2> QED
    BY <1>5b, <1>8, <2>1, <2>2, <2>3 DEF Rebuild
<1>9. ASSUME NEW t \in Thread, Adopt(t) PROVE FirstSound'
  <2>1. ASSUME NEW h, AdoptBegin(t, h) PROVE FirstSound'
    BY <1>5, <2>1 DEF AdoptBegin
  <2>2. ASSUME AdoptDiverge(t) PROVE FirstSound'
    <3>1. UNCHANGED first /\ \E todo : Loop(t, "rewrite", job[t].block, todo, {})
      BY <2>2 DEF AdoptDiverge
    <3> QED
      BY <1>5a, <3>1
  <2> QED
    BY <1>5b, <1>9, <2>1, <2>2 DEF Adopt
<1>10. ASSUME NEW t \in Thread, RewriteFinish(t) PROVE FirstSound'
  BY <1>0, <1>3, <1>10 DEF RewriteFinish, Idle, TypeOK
<1>11. ASSUME Crash PROVE FirstSound'
  BY <1>1, <1>11 DEF Crash, FirstSound, Idle
<1>12. CASE UNCHANGED vars
  BY <1>6, <1>12 DEF vars
<1> QED
  BY <1>7, <1>8, <1>9, <1>10, <1>11, <1>12 DEF Next, NextRunning

\* What the walk rests on.
WalkInv == StoreInv /\ NextIdSound /\ FirstSound

LEMMA WalkInit == Init => WalkInv
<1>1. Init => NextIdSound /\ FirstSound
  BY DEF Init, NextIdSound, FirstSound, Idle
<1> QED
  BY <1>1, StoreInit DEF WalkInv

LEMMA WalkStep == WalkInv /\ [Next]_vars => WalkInv'
BY StoreStep, NextIdStep, FirstStep DEF WalkInv

\* The walk starts at genesis.
LEMMA WalkStart ==
  ASSUME WalkInv, first # None
  PROVE  GetBlock(first) = Genesis
<1>1. Number[Genesis] \in Slot /\ stored \in SUBSET Hash /\ Linked(stored)
  BY HashAssumption, BlockFacts DEF WalkInv, StoreInv, TypeOK, LinkedStore, Linked
<1> DEFINE g == canonical[Number[Genesis]]
<1>2. g \in stored /\ Number[g] = Number[Genesis] /\ first = Number[Genesis]
  BY <1>1 DEF WalkInv, FirstSound, StoreInv, IndexSound, CanonicalSound
<1>3. Genesis \in Branch[g]
  BY <1>2 DEF WalkInv, StoreInv, RootedStore
<1>4. g = Genesis
  <2>1. Genesis # g => Number[Genesis] < Number[g]
    BY <1>1, <1>2, <1>3, BranchFacts
  <2> QED
    BY <1>2, <2>1, HashAssumption, BlockFacts
<1> QED
  BY <1>1, <1>2, <1>4 DEF GetBlock

\* getNextBlock finds a stored block or none.
LEMMA NextStored ==
  ASSUME StoreInv, NEW g \in Hash
  PROVE  GetNextBlock(g) \in stored \cup {None}
<1> DEFINE legacy == GetBlock(nextId[Number[g]])
           pool   == {c \in stored : ChildConnectsToParent(c, g)} \cup ({legacy} \ {None})
<1>1. legacy # None => legacy \in stored
  BY DEF GetBlock, StoreInv, IndexSound, CanonicalSound
<1>2. pool \in SUBSET stored /\ stored \in SUBSET Hash
  BY <1>1 DEF StoreInv, TypeOK
<1>3. pool # {} => MostPreferred(pool) \in pool
  <2> HIDE DEF pool
  <2> QED
    BY <1>2, PreferredOf
<1>4. nextHash[g] # None => nextHash[g] \in stored
  BY DEF StoreInv, IndexSound, NextSound
<1>5. \/ GetNextBlock(g) = nextHash[g] /\ nextHash[g] # None
      \/ GetNextBlock(g) = legacy /\ legacy # None
      \/ GetNextBlock(g) = None
      \/ pool # {} /\ GetNextBlock(g) = MostPreferred(pool)
  BY DEF GetNextBlock
<1> HIDE DEF pool
<1> QED
  BY <1>1, <1>2, <1>3, <1>4, <1>5

\* When getNextBlock stays on the branch of h, the walk to h's number reads that branch.
LEMMA WalkFollows ==
  WalkInv /\ first # None =>
    \A h \in stored :
      (\A g \in Branch[h] \ {h} :
         GetNextBlock(g) \in Branch[h] \ {Genesis} /\ Parent[GetNextBlock(g)] = g)
      => WalkIsBranchOf(h)
<1> SUFFICES ASSUME WalkInv, first # None, NEW h \in stored,
                    \A g \in Branch[h] \ {h} :
                      GetNextBlock(g) \in Branch[h] \ {Genesis} /\ Parent[GetNextBlock(g)] = g
             PROVE  WalkIsBranchOf(h)
  OBVIOUS
<1> DEFINE next == [g \in Hash |-> GetNextBlock(g)]
           from == CHOOSE f : f = [g \in Hash |->
                     IF Number[g] > Number[h] THEN {}
                     ELSE IF Number[g] = Number[h] \/ GetNextBlock(g) = None THEN {g}
                     ELSE {g} \cup f[GetNextBlock(g)]]
<1>1. stored \in SUBSET Hash /\ Linked(stored) /\ StoreInv
  BY DEF WalkInv, StoreInv, TypeOK, LinkedStore, Linked
<1>2. next \in [Hash -> Hash \cup {None}]
  BY <1>1, NextStored
<1>3. PICK f : IsWalk(f, next, Number[h])
  <2> HIDE DEF next
  <2> QED
    BY <1>1, <1>2, BlockFacts, WalkExists
<1>4. f = [g \in Hash |-> IF Number[g] > Number[h] THEN {}
                          ELSE IF Number[g] = Number[h] \/ GetNextBlock(g) = None THEN {g}
                          ELSE {g} \cup f[GetNextBlock(g)]]
  BY <1>3 DEF IsWalk
<1>5. from = [g \in Hash |-> IF Number[g] > Number[h] THEN {}
                             ELSE IF Number[g] = Number[h] \/ GetNextBlock(g) = None THEN {g}
                             ELSE {g} \cup from[GetNextBlock(g)]]
  BY <1>4
<1> HIDE DEF from
<1>6. IsWalk(from, next, Number[h])
  BY <1>5 DEF IsWalk
<1>7. \A g \in Branch[h] \ {h} : next[g] \in Branch[h] \ {Genesis} /\ Parent[next[g]] = g
  BY <1>1, BlockFacts
<1>8. from[Genesis] = Branch[h]
  <2> HIDE DEF next
  <2> QED
    BY <1>1, <1>6, <1>7, WalkAlong
<1>9. GetBlock(first) = Genesis /\ Genesis # None
  BY WalkStart, HashAssumption
<1>10. Walk(Number[h]) = from[Genesis]
  BY <1>9 DEF Walk, from
<1> QED
  BY <1>8, <1>10 DEF WalkIsBranchOf

\* With one chain in the store, getNextBlock finds the one child there is: through next:<hash>,
\* through next_block_<n>, or by the scan.
LEMMA UnforkedNext ==
  ASSUME WalkInv, \A h, k \in stored : h \in Branch[k] \/ k \in Branch[h],
         NEW c \in stored \ {Genesis}
  PROVE  GetNextBlock(Parent[c]) = c
<1> DEFINE g      == Parent[c]
           legacy == GetBlock(nextId[Number[g]])
           kids   == {d \in stored : ChildConnectsToParent(d, g)}
           pool   == kids \cup ({legacy} \ {None})
<1>1. stored \in SUBSET Hash /\ Linked(stored) /\ StoreInv
  BY DEF WalkInv, StoreInv, TypeOK, LinkedStore, Linked
<1>2. /\ g \in stored /\ g \in Hash /\ Number[g] \in Slot /\ c # None
      /\ ChildConnectsToParent(c, g)
  BY <1>1, BlockFacts DEF Linked
<1>3. ASSUME NEW d \in stored, ChildConnectsToParent(d, g) PROVE d = c
  <2>1. d # Genesis /\ Parent[d] = g
    BY <1>2, <1>3, HeaderAssumption, HashAssumption DEF ChildConnectsToParent
  <2> QED
    BY <1>1, <2>1, OneChild
<1>4. ASSUME NEW d \in stored, NEW e \in stored, Number[d] = Number[e] PROVE d = e
  <2>1. d \in Branch[d] /\ e \in Branch[e]
    BY <1>1, BlockFacts
  <2> QED
    BY <1>1, <1>4, <2>1, BranchNumbers
<1>5. legacy = None \/ legacy = c
  <2> SUFFICES ASSUME legacy # None PROVE legacy = c
    OBVIOUS
  <2> DEFINE n == nextId[Number[g]]
  <2>1. n \in Slot /\ legacy = canonical[n]
    BY DEF GetBlock
  <2>2. n # None
    BY <2>1, HeaderAssumption DEF Slot
  <2>3. legacy \in stored /\ Number[legacy] = n
    BY <1>1, <2>1 DEF StoreInv, IndexSound, CanonicalSound
  <2>4. PICK b \in stored \ {Genesis} : PrevId[b] = Number[g] /\ Number[b] = n
    BY <1>2, <2>2 DEF WalkInv, NextIdSound
  <2>5. Parent[b] \in stored /\ ChildConnectsToParent(b, Parent[b])
    BY <1>1 DEF Linked
  <2>6. Parent[b] = g
    BY <1>2, <1>4, <2>4, <2>5 DEF ChildConnectsToParent
  <2>7. b = c
    BY <1>3, <2>5, <2>6
  <2> QED
    BY <1>4, <2>3, <2>4, <2>7
<1>6. nextHash[g] # None => nextHash[g] = c
  BY <1>1, <1>2, <1>3 DEF StoreInv, IndexSound, NextSound
<1>7. pool = {c}
  <2>1. kids = {c}
    BY <1>2, <1>3
  <2> QED
    BY <1>5, <2>1
<1>8. MostPreferred(pool) = c
  <2>1. pool \in SUBSET Hash /\ pool # {}
    BY <1>1, <1>7
  <2>2. MostPreferred(pool) \in pool
    <3> HIDE DEF pool
    <3> QED
      BY <2>1, PreferredOf
  <2> QED
    BY <1>7, <2>2
<1>9. \/ GetNextBlock(g) = nextHash[g] /\ nextHash[g] # None
      \/ GetNextBlock(g) = legacy /\ legacy # None
      \/ GetNextBlock(g) = MostPreferred(pool)
  <2>1. pool # {}
    BY <1>7
  <2> QED
    BY <2>1 DEF GetNextBlock
<1> QED
  BY <1>5, <1>6, <1>8, <1>9

LEMMA WalkReadsBranch == WalkInv => UnforkedWalk
<1> SUFFICES ASSUME WalkInv, first # None,
                    \A h, k \in stored : h \in Branch[k] \/ k \in Branch[h],
                    NEW h \in stored
             PROVE  WalkIsBranchOf(h)
  BY DEF UnforkedWalk
<1>1. stored \in SUBSET Hash /\ Linked(stored)
  BY DEF WalkInv, StoreInv, TypeOK, LinkedStore, Linked
<1>2. ASSUME NEW g \in Branch[h] \ {h}
      PROVE  GetNextBlock(g) \in Branch[h] \ {Genesis} /\ Parent[GetNextBlock(g)] = g
  <2>1. PICK c \in Branch[h] : c # Genesis /\ Parent[c] = g
    BY <1>1, ChildOnBranch
  <2>2. c \in stored
    BY <1>1, BranchFacts
  <2>3. GetNextBlock(g) = c
    BY <2>1, <2>2, UnforkedNext
  <2> QED
    BY <2>1, <2>3
<1> QED
  BY <1>2, WalkFollows

\* As long as no fork is stored, a node reads the ledger of every block from that block's own
\* branch, whatever its threads have half written to the indexes and wherever it crashed, and
\* after a wipe too.
THEOREM UnforkedChainWalked == Spec => []UnforkedWalk
BY WalkInit, WalkStep, WalkReadsBranch, PTL DEF Spec

-----------------------------------------------------------------------------
(* One thread at a time: the rebuild.                                      *)

\* The tip a rebuild chooses from the blocks S: what IsRebuildTip says of the stored ones.
TipFrom(S, h) ==
  LET best == CHOOSE k \in S : \A l \in S \ {k} : PreferChain(k, l)
      ends == {k \in S : /\ k \in Branch[best]
                         /\ ChainLength(k) <= MaxRebuildDepth
                         /\ Branch[k] \subseteq ChainOK}
  IN  h \in ends /\ \A g \in ends : Number[g] <= Number[h]

LEMMA TipFromStored == \A h : IsRebuildTip(h) <=> TipFrom(stored, h)
BY DEF IsRebuildTip, ValidPrefixEnds, BestEnd, TipFrom

\* Both indexes hold the branch of b.
ChainWritten(b) ==
  \A g \in Branch[b] : canonical[Number[g]] = g /\ (g # Genesis => nextHash[Parent[g]] = g)

\* The same for the blocks of the branch that are not left to do.
WrittenBut(b, todo) ==
  \A g \in Branch[b] :
    /\ g \notin todo => canonical[Number[g]] = g
    /\ g # Genesis /\ Parent[g] \notin todo => nextHash[Parent[g]] = g

\* Between the steps of a rebuild: its tip is still the one to choose, and what it has
\* written of its chain stays written.
RebuildSound(t) ==
  job[t].op \in RebuildOps =>
    /\ TipFrom(stored, job[t].block)
    /\ first # None
    /\ job[t].op = "write" => WrittenBut(job[t].block, job[t].todo)
    /\ job[t].op = "finish" => ChainWritten(job[t].block)

\* One block of the chain is put into both indexes, and the others stay in them.
LEMMA RebuildWrites ==
  ASSUME StoreInv, NEW b \in stored, NEW todo \in SUBSET Branch[b], NEW h \in todo,
         WrittenBut(b, todo), WriteChain({h}, {c \in Branch[b] : Parent[c] = h})
  PROVE  WrittenBut(b, todo \ {h})'
<1>1. stored \in SUBSET Hash /\ Linked(stored)
  BY DEF StoreInv, TypeOK, LinkedStore, Linked
<1> SUFFICES ASSUME NEW g \in Branch[b]
             PROVE  /\ g \notin todo \ {h} => canonical'[Number[g]] = g
                    /\ g # Genesis /\ Parent[g] \notin todo \ {h} => nextHash'[Parent[g]] = g
  BY DEF WrittenBut
<1> DEFINE C     == {h}
           links == {c \in Branch[b] : Parent[c] = h}
<1>2. g \in Hash /\ g \in stored /\ Number[g] \in Slot /\ h \in Branch[b]
  BY <1>1, BranchFacts, BlockFacts
<1>3. ASSUME g \notin todo \ {h} PROVE canonical'[Number[g]] = g
  <2>1. Number[h] = Number[g] => h = g
    BY <1>1, <1>2, BranchNumbers
  <2>2. canonical'[Number[g]] = IF \E k \in C : Number[k] = Number[g]
                                THEN CHOOSE k \in C : Number[k] = Number[g]
                                ELSE canonical[Number[g]]
    BY <1>2 DEF WriteChain, PutCanonical
  <2>3. CASE g = h
    BY <2>2, <2>3
  <2>4. CASE g # h
    BY <1>3, <2>1, <2>2, <2>4 DEF WrittenBut
  <2> QED
    BY <2>3, <2>4
<1>4. ASSUME g # Genesis, Parent[g] \notin todo \ {h} PROVE nextHash'[Parent[g]] = g
  <2>1. Parent[g] \in Hash
    BY <1>1, <1>2, <1>4, BranchStep
  <2>2. nextHash'[Parent[g]] =
          IF \E k \in links : Parent[k] = Parent[g]
          THEN CHOOSE k \in links : Parent[k] = Parent[g] ELSE nextHash[Parent[g]]
    BY <2>1 DEF WriteChain, PutNextHash
  <2>3. CASE Parent[g] # h
    <3>1. ~\E k \in links : Parent[k] = Parent[g]
      BY <2>3
    <3> HIDE DEF links
    <3>2. nextHash'[Parent[g]] = nextHash[Parent[g]]
      BY <2>2, <3>1
    <3> QED
      BY <1>4, <2>3, <3>2 DEF WrittenBut
  <2>4. CASE Parent[g] = h
    <3>1. g \in links
      BY <2>4
    <3>2. \A k \in links : Parent[k] = Parent[g] => k = g
      <4> SUFFICES ASSUME NEW k \in links, Parent[k] = Parent[g] PROVE k = g
        OBVIOUS
      <4>1. k \in stored /\ k \in Hash /\ k # Genesis
        BY <1>1, <2>1, BranchFacts, BlockFacts, HeaderAssumption, HashAssumption
      <4>2. Number[k] \in Nat /\ Number[g] \in Nat
        BY <1>2, <4>1, BlockFacts
      <4>3. k \in Branch[g] \/ g \in Branch[k]
        BY <1>1, <4>2, BranchIsChain
      <4> QED
        BY <1>1, <1>2, <1>4, <4>1, <4>3, OneChild
    <3> HIDE DEF links
    <3> QED
      BY <2>2, <3>1, <3>2
  <2> QED
    BY <2>3, <2>4
<1> QED
  BY <1>3, <1>4

RebuildInv == WalkInv /\ \A t \in Thread : RebuildSound(t)

LEMMA RebuildStep ==
  ASSUME \A s, t \in Thread : s = t
  PROVE  RebuildInv /\ [Next]_vars => RebuildInv'
<1> SUFFICES ASSUME RebuildInv, [Next]_vars PROVE (\A t \in Thread : RebuildSound(t))'
  BY WalkStep DEF RebuildInv
<1> USE DEF disk, index, tip
<1>0. TypeOK /\ StoreInv
  BY DEF RebuildInv, WalkInv, StoreInv
<1>1. ASSUME NEW t \in Thread, job'[t].op \notin RebuildOps
      PROVE  (\A s \in Thread : RebuildSound(s))'
  BY <1>1 DEF RebuildSound
<1>2. ASSUME NEW t \in Thread, RebuildSound(t)' PROVE (\A s \in Thread : RebuildSound(s))'
  BY <1>2
<1>3. ASSUME NEW t \in Thread, RebuildBegin(t) PROVE (\A s \in Thread : RebuildSound(s))'
  <2>1. PICK h \in stored : IsRebuildTip(h) /\ Goto(t, "list", h)
    BY <1>3 DEF RebuildBegin
  <2>2. TipFrom(stored', h) /\ first' # None
    BY <1>3, <2>1, TipFromStored DEF RebuildBegin
  <2>3. job'[t].op = "list" /\ job'[t].block = h
    BY <1>0, <2>1 DEF Goto, Loop, TypeOK
  <2>4. RebuildSound(t)'
    BY <2>2, <2>3 DEF RebuildSound
  <2> QED
    BY <1>2, <2>4
<1>4. ASSUME NEW t \in Thread,
             RebuildList(t) \/ RebuildClearHash(t) \/ RebuildClearId(t) \/ RebuildCleared(t)
      PROVE  (\A s \in Thread : RebuildSound(s))'
  <2>0. PICK b : b = job[t].block
    OBVIOUS
  <2>1. TipFrom(stored, b) /\ first # None /\ UNCHANGED <<stored, first>>
    BY <1>4, <2>0
       DEF RebuildList, RebuildClearHash, RebuildClearId, RebuildCleared, RebuildInv, RebuildSound,
           RebuildOps
  <2>2. \/ \E todo, ids : Loop(t, "clear", b, todo, ids)
        \/ Loop(t, "write", b, Branch[b], {})
    BY <1>4, <2>0 DEF RebuildList, RebuildClearHash, RebuildClearId, RebuildCleared
  <2>3. CASE \E todo, ids : Loop(t, "clear", b, todo, ids)
    <3>1. job'[t].op = "clear" /\ job'[t].block = b
      BY <1>0, <2>3 DEF Loop, TypeOK
    <3>2. RebuildSound(t)'
      BY <2>1, <3>1 DEF RebuildSound
    <3> QED
      BY <1>2, <3>2
  <2>4. CASE Loop(t, "write", b, Branch[b], {})
    <3>1. job'[t].op = "write" /\ job'[t].block = b /\ job'[t].todo = Branch[b]
      BY <1>0, <2>4 DEF Loop, TypeOK
    <3>2. b \in stored /\ stored \in SUBSET Hash /\ Linked(stored)
      BY <1>0, <1>4, <2>0
         DEF RebuildList, RebuildClearHash, RebuildClearId, RebuildCleared, StoreInv, ThreadSound,
             TypeOK, LinkedStore, Linked
    <3>3. \A g \in Branch[b] : g # Genesis => Parent[g] \in Branch[b]
      <4> SUFFICES ASSUME NEW g \in Branch[b], g # Genesis PROVE Parent[g] \in Branch[b]
        OBVIOUS
      <4>1. g \in stored /\ Branch[g] \subseteq Branch[b]
        BY <3>2, BranchFacts
      <4>2. Parent[g] \in Hash /\ Branch[g] = {g} \cup Branch[Parent[g]]
        BY <3>2, <4>1, BranchStep
      <4> QED
        BY <4>1, <4>2, BlockFacts
    <3>4. WrittenBut(b, Branch[b])'
      BY <3>3 DEF WrittenBut
    <3>5. RebuildSound(t)'
      BY <2>1, <3>1, <3>4 DEF RebuildSound, WrittenBut
    <3> QED
      BY <1>2, <3>5
  <2> QED
    BY <2>2, <2>3, <2>4
<1>5. ASSUME NEW t \in Thread, RebuildWrite(t) PROVE (\A s \in Thread : RebuildSound(s))'
  <2>0. PICK b, todo : b = job[t].block /\ todo = job[t].todo
    OBVIOUS
  <2>1. b \in stored /\ todo \in SUBSET Branch[b]
    BY <1>0, <1>5, <2>0 DEF RebuildWrite, StoreInv, ThreadSound
  <2>2. /\ TipFrom(stored, b) /\ first # None /\ WrittenBut(b, todo)
        /\ UNCHANGED <<stored, first>>
    BY <1>5, <2>0 DEF RebuildWrite, RebuildInv, RebuildSound, RebuildOps
  <2>3. PICK h \in todo :
          /\ WriteChain({h}, {c \in Branch[b] : Parent[c] = h})
          /\ IF todo = {h} THEN Goto(t, "finish", b) ELSE Loop(t, "write", b, todo \ {h}, {})
    BY <1>5, <2>0 DEF RebuildWrite, WriteLowest
  <2>4. WrittenBut(b, todo \ {h})'
    BY <1>0, <2>1, <2>2, <2>3, RebuildWrites
  <2>5. CASE todo = {h}
    <3>1. job'[t].op = "finish" /\ job'[t].block = b
      BY <1>0, <2>3, <2>5 DEF Goto, Loop, TypeOK
    <3>2. ChainWritten(b)'
      BY <2>4, <2>5 DEF WrittenBut, ChainWritten
    <3>3. RebuildSound(t)'
      BY <2>2, <3>1, <3>2 DEF RebuildSound, ChainWritten
    <3> QED
      BY <1>2, <3>3
  <2>6. CASE todo # {h}
    <3>1. job'[t].op = "write" /\ job'[t].block = b /\ job'[t].todo = todo \ {h}
      BY <1>0, <2>3, <2>6 DEF Loop, TypeOK
    <3>2. RebuildSound(t)'
      BY <2>2, <2>4, <3>1 DEF RebuildSound, WrittenBut
    <3> QED
      BY <1>2, <3>2
  <2> QED
    BY <2>5, <2>6
<1>6. ASSUME NEW t \in Thread, NEW b, NEW op, NEW todo, NEW ids, op \notin RebuildOps,
             Loop(t, op, b, todo, ids)
      PROVE  (\A s \in Thread : RebuildSound(s))'
  <2>1. job'[t].op = op
    BY <1>0, <1>6 DEF Loop, TypeOK
  <2> QED
    BY <1>1, <1>6, <2>1
<1>7. ASSUME NEW t \in Thread, job'[t] = Idle PROVE (\A s \in Thread : RebuildSound(s))'
  BY <1>1, <1>7 DEF Idle, RebuildOps
<1>8. ASSUME NEW t \in Thread, NEW b, Return(t, b) PROVE (\A s \in Thread : RebuildSound(s))'
  <2>1. Loop(t, "first", b, {}, {}) \/ job'[t] = Idle
    BY <1>0, <1>8 DEF Return, Goto, Loop, TypeOK
  <2> QED
    BY <1>6, <1>7, <2>1 DEF RebuildOps
<1>9. ASSUME NEW t \in Thread, AddBlock(t) PROVE (\A s \in Thread : RebuildSound(s))'
  <2>1. \/ \E b \in Hash : Goto(t, "put", b)
        \/ job'[t] = Idle
        \/ Return(t, job[t].block)
        \/ \E op \in {"canonical", "next", "check", "tip"} : Goto(t, op, job[t].block)
    BY <1>0, <1>9
       DEF AddBlock, AddBlockAccept, AddBlockReject, AddBlockCandidate, AddBlockPut,
           AddBlockCanonical, AddBlockNext, AddBlockCheckTip, AddBlockSetTip, SetFirstBlockId, TypeOK
  <2> QED
    BY <1>6, <1>7, <1>8, <2>1 DEF RebuildOps, Goto, Loop
<1>10. ASSUME NEW t \in Thread, RebuildFast(t) \/ RewriteFinish(t)
       PROVE  (\A s \in Thread : RebuildSound(s))'
  <2>1. job'[t] = Idle
    BY <1>0, <1>10 DEF RebuildFast, RewriteFinish, TypeOK
  <2> QED
    BY <1>7, <2>1
<1>11. ASSUME NEW t \in Thread, Adopt(t) PROVE (\A s \in Thread : RebuildSound(s))'
  <2>1. \E op \in {"adopt", "rewrite", "adopted"} : \E b, todo, ids : Loop(t, op, b, todo, ids)
    <3>1. ASSUME NEW h, AdoptBegin(t, h) PROVE Loop(t, "adopt", h, {}, {})
      BY <3>1 DEF AdoptBegin, Goto, Loop
    <3>2. ASSUME AdoptDiverge(t) PROVE \E todo : Loop(t, "rewrite", job[t].block, todo, {})
      BY <3>2 DEF AdoptDiverge
    <3>3. ASSUME AdoptWrite(t)
          PROVE  \/ Loop(t, "adopted", job[t].block, {}, {})
                 \/ \E h : Loop(t, "rewrite", job[t].block, job[t].todo \ {h}, {})
      BY <3>3 DEF AdoptWrite, WriteLowest, Goto, Loop
    <3> QED
      BY <1>11, <3>1, <3>2, <3>3 DEF Adopt
  <2> QED
    BY <1>6, <2>1 DEF RebuildOps
<1>12. ASSUME Crash \/ DeleteAll PROVE (\A s \in Thread : RebuildSound(s))'
  <2>1. \A s \in Thread : job'[s] = Idle
    BY <1>12 DEF Crash, DeleteAll
  <2> QED
    BY <2>1 DEF RebuildSound, Idle, RebuildOps
<1>13. CASE UNCHANGED vars
  BY <1>13 DEF vars, RebuildInv, RebuildSound, ChainWritten, WrittenBut
<1> QED
  BY <1>3, <1>4, <1>5, <1>9, <1>10, <1>11, <1>12, <1>13 DEF Next, NextRunning, Rebuild

LEMMA RebuildInvariant ==
  ASSUME \A s, t \in Thread : s = t
  PROVE  Spec => []RebuildInv
<1>1. Init => RebuildInv
  BY WalkInit DEF Init, RebuildInv, RebuildSound, RebuildOps, Idle
<1> QED
  BY <1>1, RebuildStep, PTL DEF Spec

\* Where both indexes hold the branch of b, the walk to b's number reads it.
WrittenIsRead ==
  WalkInv /\ first # None => \A h \in stored : ChainWritten(h) => WalkIsBranchOf(h)

LEMMA WrittenWalk == WrittenIsRead
<1> SUFFICES ASSUME WalkInv, first # None, NEW b \in stored, ChainWritten(b)
             PROVE  WalkIsBranchOf(b)
  BY DEF WrittenIsRead
<1>1. stored \in SUBSET Hash /\ Linked(stored)
  BY DEF WalkInv, StoreInv, TypeOK, LinkedStore, Linked
<1>2. ASSUME NEW g \in Branch[b] \ {b}
      PROVE  GetNextBlock(g) \in Branch[b] \ {Genesis} /\ Parent[GetNextBlock(g)] = g
  <2>1. PICK c \in Branch[b] : c # Genesis /\ Parent[c] = g
    BY <1>1, ChildOnBranch
  <2>2. c \in stored /\ c # None
    BY <1>1, BranchFacts, BlockFacts
  <2>3. nextHash[g] = c /\ ChildConnectsToParent(c, g)
    BY <1>1, <2>1, <2>2 DEF ChainWritten, Linked
  <2>4. GetNextBlock(g) = c
    BY <2>2, <2>3 DEF GetNextBlock
  <2> QED
    BY <2>1, <2>4
<1> QED
  BY <1>2, WalkFollows

\* What the last step of a rebuild finds and what it leaves.
LEMMA RebuildEnds ==
  ASSUME RebuildInv, RebuildInv', NEW t \in Thread, RewriteFinish(t), job[t].op = "finish"
  PROVE  /\ IndexFollowsTip'
         /\ (Branch[GetBlock(latest)] \subseteq ChainOK)'
         /\ IsRebuildTip(GetBlock(latest))'
<1>0. PICK b : b = job[t].block
  OBVIOUS
<1> USE DEF index
<1>1. b \in stored /\ b \in Hash /\ Number[b] \in Slot /\ b \in Branch[b] /\ b # None
  BY <1>0, BlockFacts DEF RebuildInv, WalkInv, StoreInv, ThreadSound, TypeOK
<1>2. TipFrom(stored, b) /\ first # None /\ ChainWritten(b)
  BY <1>0 DEF RebuildInv, RebuildSound, RebuildOps
<1>3. canonical[Number[b]] = b
  BY <1>1, <1>2 DEF ChainWritten
<1>4. latest' = Number[b] /\ latestHash' = b /\ UNCHANGED <<stored, canonical, nextHash, nextId, first>>
  BY <1>0, <1>1, <1>3 DEF RewriteFinish, SetLatestBlockId
<1>5. GetBlock(latest)' = b
  BY <1>1, <1>3, <1>4 DEF GetBlock
<1>6. ChainWritten(b)'
  BY <1>2, <1>4 DEF ChainWritten
<1>7. WalkIsBranchOf(b)'
  <2>1. WrittenIsRead'
    BY WrittenWalk, PTL
  <2>2. WalkInv' /\ first' # None /\ b \in stored'
    BY <1>1, <1>2, <1>4 DEF RebuildInv
  <2> QED
    BY <1>6, <2>1, <2>2 DEF WrittenIsRead
<1>8. Walk(latest)' = Branch[b]
  BY <1>4, <1>7 DEF WalkIsBranchOf
<1>9. IndexFollowsTip'
  BY <1>4, <1>5, <1>6, <1>8 DEF IndexFollowsTip, ChainWritten
<1>10. Branch[b] \subseteq ChainOK
  BY <1>2 DEF TipFrom
<1>11. IsRebuildTip(b)'
  <2>1. (\A h : IsRebuildTip(h) <=> TipFrom(stored, h))'
    BY TipFromStored, PTL
  <2> QED
    BY <1>2, <1>4, <2>1
<1> QED
  BY <1>5, <1>9, <1>10, <1>11

\* A full rebuild leaves indexes that agree with the tip and a chain that validates, for a
\* node whose callers take turns: whatever crashes and half-done operations came before.
THEOREM RebuildRepairs ==
  ASSUME \A s, t \in Thread : s = t
  PROVE  Spec => RebuildRepairsIndex
<1>1. RebuildInv /\ RebuildInv' /\ [Next]_vars =>
        [\A t \in Thread : RewriteFinish(t) /\ job[t].op = "finish" =>
           IndexFollowsTip' /\ (Branch[GetBlock(latest)] \subseteq ChainOK)']_vars
  BY RebuildEnds
<1> QED
  BY <1>1, RebuildInvariant, PTL DEF Spec, RebuildRepairsIndex

\* And the tip it leaves is the one the stored blocks alone determine.
THEOREM RebuildIsDetermined ==
  ASSUME \A s, t \in Thread : s = t
  PROVE  Spec => RebuildReachesBest
<1>1. RebuildInv /\ RebuildInv' /\ [Next]_vars =>
        [\A t \in Thread : RewriteFinish(t) /\ job[t].op = "finish" =>
           IsRebuildTip(GetBlock(latest))']_vars
  BY RebuildEnds
<1> QED
  BY <1>1, RebuildInvariant, PTL DEF Spec, RebuildReachesBest
=============================================================================
