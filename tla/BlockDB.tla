------------------------------ MODULE BlockDB ------------------------------
(***************************************************************************)
(* The block store of one node: blockdb.cpp (AddBlock, rebuildBestChain-    *)
(* Index, adoptStoredChainEndingAtHash, DeleteAll) with the part of         *)
(* chainvalidator.cpp that decides whether a block may be stored.           *)
(*                                                                         *)
(* The LevelDB keys are the variables; the blocks are those of BlockTree.   *)
(*                                                                         *)
(* AddBlock takes no lock and is called by the builder, the sync thread     *)
(* and the HTTP thread; its writes are separate LevelDB Puts.  Each thread  *)
(* therefore runs an operation as a sequence of steps, job[t] is the next   *)
(* one, and Crash may fall between any two of them.  The loops of a rebuild *)
(* and of an adoption take one key or one block a step.                     *)
(*                                                                         *)
(* Genesis is pinned, as it is in the safire.conf that the repository       *)
(* ships: no other block without a parent is stored.                        *)
(***************************************************************************)
EXTENDS BlockTree

CONSTANTS
  Thread,          \* builder, sync and HTTP threads of the node
  StateOK,         \* passes validateBlockForStorage's state rules on its own branch
  ChainOK,         \* passes validateConnectedChain's rules on its own branch
  MaxRebuildDepth, \* MAX_REBUILD_CHAIN_DEPTH
  CheckpointDepth  \* VALIDATED_CHECKPOINT_DEPTH

ASSUME BoundAssumption ==
  /\ StateOK \subseteq Hash
  /\ ChainOK \subseteq Hash
  /\ MaxRebuildDepth \in Nat
  /\ CheckpointDepth \in Nat

VARIABLES
  stored,      \* block:<hash> and slot:<n>:<hash> keys
  canonical,   \* canonical:<n> and b_<n>
  nextHash,    \* next:<hash>
  nextId,      \* next_block_<n>
  first,       \* chain:first_block
  latest,      \* chain:latest_block
  latestHash,  \* chain:latest_hash
  checkpoint,  \* chain:validated_checkpoint_block and _hash
  forkLatest,  \* fork_variant_latest_block; unset while fork_variant_count is 0
  cache,       \* validationStateByBlockHash: what the cached ledger state sums up
  job          \* what each thread does next, and for which block

index == <<canonical, nextHash, nextId>>
tip   == <<latest, latestHash>>
disk  == <<stored, index, first, tip, checkpoint, forkLatest>>
vars  == <<disk, cache, job>>

Idle == [op |-> "idle", block |-> None, todo |-> {}, ids |-> {}]

AddOps     == {"put", "canonical", "next", "check", "tip", "first"}
RebuildOps == {"list", "clear", "write", "finish"}
AdoptOps   == {"adopt", "rewrite", "adopted"}
LockedOps  == RebuildOps \cup AdoptOps

\* todo and ids are what a loop still has to do: the next:<hash> and next_block_<n>
\* keys to delete, or the blocks to write.
Job ==
  [op : AddOps \cup LockedOps, block : Hash, todo : SUBSET Hash, ids : SUBSET Slot] \cup {Idle}

\* "branch": the cached ledger is the one of the block's own branch;
\* "other": it sums up a block outside that branch.
CacheEntry == {"none", "branch", "other"}

TypeOK ==
  /\ stored \subseteq Hash
  /\ canonical \in [Slot -> Hash \cup {None}]
  /\ nextHash \in [Hash -> Hash \cup {None}]
  /\ nextId \in [Slot -> Slot \cup {None}]
  /\ first \in Slot \cup {None}
  /\ latest \in Slot \cup {None}
  /\ latestHash \in Hash \cup {None}
  /\ checkpoint \in Hash \cup {None}
  /\ forkLatest \in Slot \cup {None}
  /\ cache \in [Hash -> CacheEntry]
  /\ job \in [Thread -> Job]

Init ==
  /\ stored = {}
  /\ canonical = [n \in Slot |-> None]
  /\ nextHash = [h \in Hash |-> None]
  /\ nextId = [n \in Slot |-> None]
  /\ first = None
  /\ latest = None
  /\ latestHash = None
  /\ checkpoint = None
  /\ forkLatest = None
  /\ cache = [h \in Hash |-> "none"]
  /\ job = [t \in Thread |-> Idle]

-----------------------------------------------------------------------------
(* Reading the store.                                                      *)

\* getBlock: the canonical block of a slot, None when the slot is empty.
GetBlock(n) == IF n \in Slot THEN canonical[n] ELSE None

\* Mutant: no scan of the stored blocks when the indexes are empty.
GetNextBlock_Unscanned(h) ==
  IF nextHash[h] # None THEN nextHash[h] ELSE GetBlock(nextId[Number[h]])

\* getNextBlock.  The last case is the scan over all stored blocks: it starts
\* from the legacy next_block_<n> block, which need not be a child of h.
GetNextBlock(h) ==
  LET byHash   == nextHash[h]
      legacy   == GetBlock(nextId[Number[h]])
      children == {c \in stored : ChildConnectsToParent(c, h)}
      pool     == children \cup ({legacy} \ {None})
  IN  IF byHash # None /\ ChildConnectsToParent(byHash, h) THEN byHash
      ELSE IF legacy # None /\ ChildConnectsToParent(legacy, h) THEN legacy
      ELSE IF pool = {} THEN None
      ELSE MostPreferred(pool)

\* The blocks visited from genesis up to block number stop: the walk of
\* CLedgerState::build and recordExistsInChain.
Walk(stop) ==
  LET from[h \in Hash] ==
        IF Number[h] > stop THEN {}
        ELSE IF Number[h] = stop \/ GetNextBlock(h) = None THEN {h}
        ELSE {h} \cup from[GetNextBlock(h)]
  IN  IF GetBlock(first) = None THEN {} ELSE from[GetBlock(first)]

-----------------------------------------------------------------------------
(* validateBlockForStorage.                                                *)

\* Mutant: the parent is not looked up.
ParentAcceptable_Unlooked(b) == PrevId[b] < Number[b]

ParentAcceptable(b) ==
  /\ Parent[b] \in stored
  /\ Number[Parent[b]] = PrevId[b]
  /\ PrevId[b] < Number[b]

\* enforceStateRules for a block with a parent.
EnforceStateRules(b) ==
  /\ GetBlock(PrevId[b]) = Parent[b]
  /\ GetBlock(Number[b]) \in {None, b}
  /\ latest = PrevId[b]

WalkIsBranchOf(h) == Walk(Number[h]) = Branch[h]

\* Which ledger parentState is: the cached one, else one built by walking the index.
ParentLedger(b) ==
  IF cache[Parent[b]] # "none" THEN cache[Parent[b]]
  ELSE IF WalkIsBranchOf(Parent[b]) THEN "branch" ELSE "other"

\* A state built for a parent that the walk missed is cached under the parent's
\* hash but never found again: cachedLedgerStateForBlock compares latest_block.
ParentCacheEntry(b) ==
  IF cache[Parent[b]] = "none" /\ Parent[b] \notin Walk(PrevId[b]) THEN "none"
  ELSE ParentLedger(b)

\* The verdicts on the records and the creator.  The rules are evaluated on the
\* walked ledger and the walked selection checkpoint: when these are not the
\* block's own branch, the outcome is not determined by the block.
Verdicts(b) ==
  IF b = Genesis THEN {b \in StateOK}
  ELSE IF EnforceStateRules(b) THEN
         IF ParentLedger(b) = "branch" /\ WalkIsBranchOf(Parent[b])
         THEN {b \in StateOK} ELSE BOOLEAN
  ELSE {Records[b] \cap UNION {Records[h] : h \in Walk(PrevId[b])} = {}}

-----------------------------------------------------------------------------
(* AddBlock, and the caller's setFirstBlockId for the first genesis.       *)

Loop(t, op, b, todo, ids) ==
  job' = [job EXCEPT ![t] = [op |-> op, block |-> b, todo |-> todo, ids |-> ids]]

Goto(t, op, b) == Loop(t, op, b, {}, {})

\* AddBlock returns to its caller.
Return(t, b) ==
  IF b = Genesis /\ first = None THEN Goto(t, "first", b)
  ELSE job' = [job EXCEPT ![t] = Idle]

AddBlockCandidate(t, b) ==
  /\ job[t] = Idle
  /\ b \notin stored
  /\ b = Genesis \/ ParentAcceptable(b)

CacheParent(b) ==
  IF b # Genesis /\ EnforceStateRules(b)
  THEN [cache EXCEPT ![Parent[b]] = ParentCacheEntry(b)]
  ELSE cache

\* Mutant: the indexes are written before the block.
AddBlockAccept_IndexFirst(t, b) ==
  /\ AddBlockCandidate(t, b)
  /\ Goto(t, "canonical", b)
  /\ UNCHANGED <<disk, cache>>

AddBlockAccept(t, b) ==
  /\ AddBlockCandidate(t, b)
  /\ TRUE \in Verdicts(b)
  /\ cache' = IF b = Genesis THEN [cache EXCEPT ![b] = "branch"]
              ELSE IF EnforceStateRules(b)
                   THEN [CacheParent(b) EXCEPT ![b] = ParentLedger(b)]
              ELSE cache
  /\ Goto(t, "put", b)
  /\ UNCHANGED disk

AddBlockReject(t, b) ==
  /\ AddBlockCandidate(t, b)
  /\ FALSE \in Verdicts(b)
  /\ cache' = CacheParent(b)
  /\ UNCHANGED <<disk, job>>

\* Mutant: the tip is considered before the canonical entry is written.
AddBlockPut_TipFirst(t) ==
  /\ job[t].op = "put"
  /\ stored' = stored \cup {job[t].block}
  /\ Goto(t, "check", job[t].block)
  /\ UNCHANGED <<index, first, tip, checkpoint, forkLatest, cache>>

AddBlockPut(t) ==
  /\ job[t].op = "put"
  /\ stored' = stored \cup {job[t].block}
  /\ Goto(t, "canonical", job[t].block)
  /\ UNCHANGED <<index, first, tip, checkpoint, forkLatest, cache>>

\* The canonical entry of the slot goes to the preferred variant at once.
AddBlockCanonical(t) ==
  LET b       == job[t].block
      current == canonical[Number[b]]
      write   == current = None \/ PreferBlockVariant(b, current)
  IN  /\ job[t].op = "canonical"
      /\ canonical' = IF write THEN [canonical EXCEPT ![Number[b]] = b] ELSE canonical
      /\ forkLatest' = IF current # None /\ Number[b] > forkLatest
                       THEN Number[b] ELSE forkLatest
      /\ IF write THEN Goto(t, "next", b) ELSE Return(t, b)
      /\ UNCHANGED <<stored, nextHash, nextId, first, tip, checkpoint, cache>>

\* A next index is written when it is missing or stale.
AddBlockNext(t) ==
  LET b == job[t].block
      p == Parent[b]
  IN  /\ job[t].op = "next"
      /\ IF b = Genesis THEN UNCHANGED <<nextHash, nextId>>
         ELSE /\ nextId' =
                   IF GetBlock(nextId[PrevId[b]]) = None
                   THEN [nextId EXCEPT ![PrevId[b]] = Number[b]] ELSE nextId
              /\ nextHash' =
                   IF nextHash[p] = None \/ ~ChildConnectsToParent(nextHash[p], p)
                   THEN [nextHash EXCEPT ![p] = b] ELSE nextHash
      /\ Goto(t, "check", b)
      /\ UNCHANGED <<stored, canonical, first, tip, checkpoint, forkLatest, cache>>

\* Mutant: the parent's number is compared and not its hash.
ExtendsTip_ByNumber(b) ==
  IF b = Genesis THEN latest = None ELSE latest # None /\ PrevId[b] = latest

\* Whether b extends the tip, as AddBlock reads it.
ExtendsTip(b) ==
  IF b = Genesis THEN latest = None
  ELSE /\ latest # None
       /\ PrevId[b] = latest
       /\ GetBlock(latest) = Parent[b]

AddBlockCheckTip(t) ==
  /\ job[t].op = "check"
  /\ IF ExtendsTip(job[t].block) THEN Goto(t, "tip", job[t].block)
     ELSE Return(t, job[t].block)
  /\ UNCHANGED <<disk, cache>>

\* The block CheckpointDepth parent links below h, or genesis.
Buried(h) ==
  LET reached == {a \in Branch[h] : Cardinality(Branch[h] \ Branch[a]) <= CheckpointDepth}
  IN  CHOOSE a \in reached : \A c \in reached : Number[a] <= Number[c]

\* maybeAdvanceValidatedCheckpoint
AdvancedCheckpoint(h) ==
  IF checkpoint = None THEN Buried(h)
  ELSE IF Number[h] - Number[checkpoint] < 2 * CheckpointDepth THEN checkpoint
  ELSE IF Number[Buried(h)] <= Number[checkpoint] THEN checkpoint
  ELSE Buried(h)

\* Mutant: the next number instead of the block's own.
SetLatestBlockId_OffByOne(h) ==
  /\ latest' = Number[h] + 1
  /\ latestHash' = h

SetLatestBlockId(h) ==
  /\ latest' = Number[h]
  /\ latestHash' = IF canonical[Number[h]] # None THEN canonical[Number[h]] ELSE latestHash

AddBlockSetTip(t) ==
  LET b == job[t].block
  IN  /\ job[t].op = "tip"
      /\ SetLatestBlockId(b)
      /\ checkpoint' = IF b = Genesis THEN checkpoint ELSE AdvancedCheckpoint(b)
      /\ Return(t, b)
      /\ UNCHANGED <<stored, index, first, forkLatest, cache>>

SetFirstBlockId(t) ==
  /\ job[t].op = "first"
  /\ first' = Number[job[t].block]
  /\ job' = [job EXCEPT ![t] = Idle]
  /\ UNCHANGED <<stored, index, tip, checkpoint, forkLatest, cache>>

AddBlock(t) ==
  \/ \E b \in Hash : AddBlockAccept(t, b) \/ AddBlockReject(t, b)
  \/ AddBlockPut(t)
  \/ AddBlockCanonical(t)
  \/ AddBlockNext(t)
  \/ AddBlockCheckTip(t)
  \/ AddBlockSetTip(t)
  \/ SetFirstBlockId(t)

-----------------------------------------------------------------------------
(* rebuildBestChainIndex, under g_bestChainRebuildMutex.                   *)

MutexFree == \A t \in Thread : job[t].op \notin LockedOps

BestEnd == CHOOSE h \in stored : \A k \in stored \ {h} : PreferChain(h, k)

\* Mutant: the chosen chain is installed unvalidated.
ValidPrefixEnds_Unvalidated ==
  {h \in stored : h \in Branch[BestEnd] /\ ChainLength(h) <= MaxRebuildDepth}

\* The best chain cut at the depth limit, then popped until it validates.
ValidPrefixEnds ==
  {h \in stored : /\ h \in Branch[BestEnd]
                  /\ ChainLength(h) <= MaxRebuildDepth
                  /\ Branch[h] \subseteq ChainOK}

IsRebuildTip(h) == h \in ValidPrefixEnds /\ \A g \in ValidPrefixEnds : Number[g] <= Number[h]

HasForkVariantAtOrAfter(n) ==
  \E h, k \in stored : h # k /\ Number[h] = Number[k] /\ Number[h] >= n

\* Every block above the checkpoint on the way to the canonical tip is reached
\* through next:<hash>.
NextIndexReachesTip ==
  \A h \in Branch[GetBlock(latest)] :
    Number[h] > Number[checkpoint] => nextHash[Parent[h]] = h

\* tryValidatedCheckpointFastPath
FastPathApplies ==
  /\ latest # None
  /\ checkpoint # None
  /\ latest >= Number[checkpoint]
  /\ \A h \in stored : Number[h] <= latest
  /\ GetBlock(Number[checkpoint]) = checkpoint
  /\ ~(forkLatest >= Number[checkpoint] /\ HasForkVariantAtOrAfter(Number[checkpoint]))
  /\ GetBlock(latest) # None
  /\ checkpoint \in Branch[GetBlock(latest)]
  /\ NextIndexReachesTip

RebuildFast(t) ==
  /\ job[t] = Idle
  /\ MutexFree
  /\ first # None
  /\ FastPathApplies
  /\ checkpoint' = AdvancedCheckpoint(GetBlock(latest))
  /\ UNCHANGED <<stored, index, first, tip, forkLatest, cache, job>>

RebuildBegin(t) ==
  /\ job[t] = Idle
  /\ MutexFree
  /\ first # None
  /\ stored # {}
  /\ ~FastPathApplies
  /\ \E h \in stored : IsRebuildTip(h) /\ Goto(t, "list", h)
  /\ UNCHANGED <<disk, cache>>

\* The iterator over the keys: the next indexes as they are at this moment.
RebuildList(t) ==
  /\ job[t].op = "list"
  /\ Loop(t, "clear", job[t].block, {h \in Hash : nextHash[h] # None},
                                   {n \in Slot : nextId[n] # None})
  /\ UNCHANGED <<disk, cache>>

\* One listed key is deleted at a time; next:<hash> sorts before next_block_<n>.
RebuildClearHash(t) ==
  \E h \in job[t].todo :
    /\ job[t].op = "clear"
    /\ \A g \in job[t].todo : h <= g
    /\ nextHash' = [nextHash EXCEPT ![h] = None]
    /\ Loop(t, "clear", job[t].block, job[t].todo \ {h}, job[t].ids)
    /\ UNCHANGED <<stored, canonical, nextId, first, tip, checkpoint, forkLatest, cache>>

RebuildClearId(t) ==
  \E n \in job[t].ids :
    /\ job[t].op = "clear"
    /\ job[t].todo = {}
    /\ \A m \in job[t].ids : n <= m
    /\ nextId' = [nextId EXCEPT ![n] = None]
    /\ Loop(t, "clear", job[t].block, {}, job[t].ids \ {n})
    /\ UNCHANGED <<stored, canonical, nextHash, first, tip, checkpoint, forkLatest, cache>>

RebuildCleared(t) ==
  /\ job[t].op = "clear"
  /\ job[t].todo = {}
  /\ job[t].ids = {}
  /\ Loop(t, "write", job[t].block, Branch[job[t].block], {})
  /\ UNCHANGED <<disk, cache>>

\* canonical:<n> of the blocks of C and the next indexes of the parents of links.
WriteChain(C, links) ==
  /\ canonical' = PutCanonical(canonical, C)
  /\ nextHash' = PutNextHash(nextHash, links)
  /\ nextId' = PutNextId(nextId, links)

\* The lowest block still to be written, with its link to the next block of the chain.
WriteLowest(t, last) ==
  \E h \in job[t].todo :
    /\ \A g \in job[t].todo : Number[h] <= Number[g]
    /\ WriteChain({h}, {c \in Branch[job[t].block] : Parent[c] = h})
    /\ IF job[t].todo = {h} THEN Goto(t, last, job[t].block)
       ELSE Loop(t, job[t].op, job[t].block, job[t].todo \ {h}, {})

\* Slots that are not on the best chain keep the entry they had.
RebuildWrite(t) ==
  /\ job[t].op = "write"
  /\ WriteLowest(t, "finish")
  /\ UNCHANGED <<stored, first, tip, checkpoint, forkLatest, cache>>

\* Mutant: the tip number is never lowered.
RewriteFinish_ForwardOnly(t) ==
  /\ job[t].op \in {"finish", "adopted"}
  /\ IF Number[job[t].block] > latest THEN SetLatestBlockId(job[t].block) ELSE UNCHANGED tip
  /\ checkpoint' = AdvancedCheckpoint(job[t].block)
  /\ job' = [job EXCEPT ![t] = Idle]
  /\ UNCHANGED <<stored, index, first, forkLatest, cache>>

RewriteFinish(t) ==
  /\ job[t].op \in {"finish", "adopted"}
  /\ SetLatestBlockId(job[t].block)
  /\ checkpoint' = AdvancedCheckpoint(job[t].block)
  /\ job' = [job EXCEPT ![t] = Idle]
  /\ UNCHANGED <<stored, index, first, forkLatest, cache>>

Rebuild(t) ==
  \/ RebuildFast(t)
  \/ RebuildBegin(t)
  \/ RebuildList(t)
  \/ RebuildClearHash(t)
  \/ RebuildClearId(t)
  \/ RebuildCleared(t)
  \/ RebuildWrite(t)

-----------------------------------------------------------------------------
(* adoptStoredChainEndingAtHash: the sync thread takes over the chain that  *)
(* ends at a peer's tip.  Same mutex, same last step as the rebuild.        *)

AdoptBegin(t, h) ==
  /\ job[t] = Idle
  /\ MutexFree
  /\ first # None
  /\ h \in stored
  /\ Branch[h] \subseteq stored
  /\ Genesis \in Branch[h]
  /\ Number[Genesis] = first
  /\ ~(latest >= Number[h] /\ GetBlock(latest) = h)
  /\ Goto(t, "adopt", h)
  /\ UNCHANGED <<disk, cache>>

\* Blocks from the last one that agrees with the canonical index upward will be
\* rewritten; the next indexes below it are left as they are.
AdoptDiverge(t) ==
  LET C       == Branch[job[t].block]
      agrees  == {h \in C : \A g \in C : Number[g] <= Number[h] => canonical[Number[g]] = g}
      rewrite == {h \in C : \A g \in agrees : Number[g] <= Number[h]}
  IN  /\ job[t].op = "adopt"
      /\ Loop(t, "rewrite", job[t].block, rewrite, {})
      /\ UNCHANGED <<disk, cache>>

AdoptWrite(t) ==
  /\ job[t].op = "rewrite"
  /\ WriteLowest(t, "adopted")
  /\ UNCHANGED <<stored, first, tip, checkpoint, forkLatest, cache>>

Adopt(t) == (\E h \in Hash : AdoptBegin(t, h)) \/ AdoptDiverge(t) \/ AdoptWrite(t)

-----------------------------------------------------------------------------
(* Restart and wipe.                                                       *)

\* The process dies: what was Put stays, everything in memory is gone.
Crash ==
  /\ cache' = [h \in Hash |-> "none"]
  /\ job' = [t \in Thread |-> Idle]
  /\ UNCHANGED disk

Wipe ==
  /\ stored' = {}
  /\ canonical' = [n \in Slot |-> None]
  /\ nextHash' = [h \in Hash |-> None]
  /\ nextId' = [n \in Slot |-> None]
  /\ latest' = None
  /\ latestHash' = None
  /\ checkpoint' = None
  /\ forkLatest' = None
  /\ first' = None

\* Mutant: a store whose first block is set is wiped too.
DeleteAll_Open ==
  /\ \A t \in Thread : job[t] = Idle
  /\ latest # None
  /\ Wipe
  /\ UNCHANGED <<cache, job>>

\* syncFromPeer wipes a store that has a tip but no first block, which is what a
\* crash between the two leaves.  The wipe is one step and finds no call under way.
DeleteAll ==
  /\ \A t \in Thread : job[t] = Idle
  /\ first = None
  /\ latest # None
  /\ Wipe
  /\ UNCHANGED <<cache, job>>

\* The node runs without a restart.
NextRunning == \E t \in Thread : AddBlock(t) \/ Rebuild(t) \/ Adopt(t) \/ RewriteFinish(t)

SpecRunning == Init /\ [][NextRunning]_vars

Next == NextRunning \/ Crash \/ DeleteAll

Spec == Init /\ [][Next]_vars

-----------------------------------------------------------------------------
(* Properties.                                                             *)

\* Every stored block has its whole ancestry in the store, down to the genesis
\* block safire.conf pins: AddBlock stores a block only after its parent, and
\* neither a crash between two Puts nor another thread can leave a hole.
RootedStore == \A h \in stored : Branch[h] \subseteq stored /\ Genesis \in Branch[h]

CanonicalSound ==
  \A n \in Slot : canonical[n] # None => canonical[n] \in stored /\ Number[canonical[n]] = n

NextSound ==
  \A p \in Hash : nextHash[p] # None =>
    nextHash[p] \in stored /\ ChildConnectsToParent(nextHash[p], p)

TipSound == latest # None => GetBlock(latest) # None

CheckpointSound == checkpoint # None => checkpoint \in stored

\* An index entry never points at a block that is missing or in the wrong place,
\* in whatever order the threads' Puts and deletes fall: canonical:<n> names a
\* stored block of slot n, next:<hash> a stored child, the tip's slot is filled and
\* the checkpoint is stored.
IndexSound == CanonicalSound /\ NextSound /\ TipSound /\ CheckpointSound

\* Every stored block is genesis or is linked to a stored parent.
LinkedStore ==
  \A h \in stored :
    h = Genesis \/ (Parent[h] \in stored /\ ChildConnectsToParent(h, Parent[h]))

\* What a thread relies on between two steps of an operation, although other
\* threads write in between.
ThreadSound(t) ==
  /\ job[t].op = "put" => job[t].block = Genesis \/ ParentAcceptable(job[t].block)
  /\ job[t].op \notin {"idle", "put"} => job[t].block \in stored
  /\ job[t].op \in {"write", "rewrite"} =>
       job[t].block \in job[t].todo /\ job[t].todo \subseteq Branch[job[t].block]
  /\ job[t].op \in {"next", "check", "tip", "finish", "adopted"} =>
       canonical[Number[job[t].block]] # None

\* The inductive invariant behind RootedStore and IndexSound: besides them, every
\* thread's unfinished AddBlock, rebuild or adoption still finds what it read.
StoreInv ==
  /\ TypeOK
  /\ LinkedStore
  /\ RootedStore
  /\ IndexSound
  /\ \A t \in Thread : ThreadSound(t)

\* The store as its readers see it: getBlockByHash, getBlock(getLatestBlockId()) and
\* whether getFirstBlockId finds a block.
Abstract ==
  INSTANCE ChainStore WITH known <- stored, head <- GetBlock(latest), open <- first # None

\* With the threads' Puts, rebuilds and adoptions interleaved, with crashes in between
\* and the wipe that may follow one, the store keeps ChainStore's promise: parents
\* first, and once chain:first_block is set nothing is forgotten and a head stays.
ImplementsChainStore == Abstract!Spec

\* The canonical index and the next index both describe the branch of the tip.
IndexFollowsTip ==
  /\ Walk(latest) = Branch[GetBlock(latest)]
  /\ \A h \in Branch[GetBlock(latest)] : canonical[Number[h]] = h
  /\ latestHash = GetBlock(latest)

\* Whatever mixture of half-done AddBlocks, overwritten variants and crashes came
\* before, a full rebuildBestChainIndex leaves indexes that agree with the tip and
\* a chain that validateConnectedChain accepts.
RebuildRepairsIndex ==
  [][\A t \in Thread : RewriteFinish(t) /\ job[t].op = "finish" =>
       IndexFollowsTip' /\ (Branch[GetBlock(latest)] \subseteq ChainOK)']_vars

\* The tip a full rebuild installs depends on the set of stored blocks alone, not
\* on the order in which they came or on what the index held before.
RebuildReachesBest ==
  [][\A t \in Thread : RewriteFinish(t) /\ job[t].op = "finish" =>
       IsRebuildTip(GetBlock(latest))']_vars

\* While the stored blocks are one chain, the walk to a stored block, from which its ledger
\* is built, reads the block's branch and nothing else, whatever a crash, a half-done
\* AddBlock or a half-done rebuild has left of the indexes.
UnforkedWalk ==
  (first # None /\ \A h, k \in stored : h \in Branch[k] \/ k \in Branch[h]) =>
    \A h \in stored : WalkIsBranchOf(h)

\* "The chain tip is advanced above only when this block directly extends the
\* current canonical tip" (blockdb.cpp, end of AddBlock): a tip that AddBlock
\* replaces by another block is that block's parent.
TipAdvancesByExtension ==
  [][\A t \in Thread :
       AddBlockSetTip(t) /\ job[t].block \notin {Genesis, GetBlock(latest)} =>
         ExtendsTip(job[t].block)]_vars

\* The block every reader takes for the tip is on a branch that satisfies the
\* consensus rules, once no AddBlock or rebuild is under way.
AcceptedTipValid ==
  (latest # None /\ \A t \in Thread : job[t] = Idle) => Branch[GetBlock(latest)] \subseteq ChainOK
=============================================================================
