------------------------------ MODULE PeerSync ------------------------------
(***************************************************************************)
(* Nodes that keep one chain between them: localpeerclient.cpp (sync        *)
(* thread, pulls, push, backoff, canCreateBlocks, block gossip) against the *)
(* HTTP handlers of request_handler.cpp and, on each node, a block store.   *)
(*                                                                         *)
(* A node's store is a record of BlockDB's variables.  AddBlock, rebuild-   *)
(* BestChainIndex and adoptStoredChainEndingAtHash are here functions on    *)
(* that record, done in one step: BlockDB has their interleavings.  Blocks  *)
(* carry a creator's reward and nothing the ledger could refuse.            *)
(*                                                                         *)
(* syncFromPeer is cut into stages, each a step: the status request, the    *)
(* repair that follows, every turn of the pull loop, the fork repair, the   *)
(* push.  Peers move between the stages, not within one; a request that is  *)
(* repeated in another form, or a tip that is adopted again, is done once.  *)
(* Chains are far shorter than a reply (250 blocks) and a push (200), and   *)
(* peers are configured, so never skipped for their score.                  *)
(***************************************************************************)
EXTENDS BlockTree

CONSTANTS
  Node,
  Creator,          \* the node whose builder makes a block
  Topology,         \* the peer lists that setPeers may be given
  Empty,            \* the nodes that may start without a chain
  CheckpointDepth,  \* VALIDATED_CHECKPOINT_DEPTH
  PushLookback,     \* forkRepairLookbackBlocks
  RequiredChecks,   \* REQUIRED_STABLE_TIP_CHECKS
  MaxFaults         \* bound on lost requests and restarts

ASSUME NodeAssumption ==
  /\ Creator \in [Hash -> Node]
  /\ Topology \subseteq [Node -> SUBSET Node]
  /\ Empty \subseteq Node
  /\ {CheckpointDepth, PushLookback, MaxFaults} \subseteq Nat
  /\ RequiredChecks \in Nat \ {0}

VARIABLES
  peers,    \* the configured peers of a node
  store,    \* its block database
  sync,     \* the sync thread: syncFromPeer, then pushToPeer
  backoff,  \* g_peerSyncBackoffUntilEpoch is in the future
  seen,     \* peerStatuses: the tip each peer last reported, None when unreachable
  stable,   \* g_lastStablePeerBlockHash and g_stablePeerTipChecks
  pass,     \* the builder's pass through its loop
  built,    \* lastLocalBuiltBlockId
  gossip,   \* block announcements under way: <<from, to, block>>
  slot,     \* the time slot
  faults    \* lost requests and restarts so far

net  == <<peers, slot>>
vars == <<peers, store, sync, backoff, seen, stable, pass, built, gossip, slot, faults>>

-----------------------------------------------------------------------------
(* The block store, one operation a step.                                  *)

DB(s) ==
  INSTANCE BlockDB WITH
    stored <- s.stored, canonical <- s.canonical, nextHash <- s.nextHash, nextId <- s.nextId,
    first <- s.first, latest <- s.latest, latestHash <- s.latestHash,
    checkpoint <- s.checkpoint, forkLatest <- s.forkLatest, cache <- <<>>, job <- <<>>,
    Thread <- {}, StateOK <- Hash, ChainOK <- Hash, MaxRebuildDepth <- Cardinality(Hash)

EmptyStore ==
  [stored |-> {}, canonical |-> [n \in Slot |-> None], nextHash |-> [h \in Hash |-> None],
   nextId |-> [n \in Slot |-> None], first |-> None, latest |-> None, latestHash |-> None,
   checkpoint |-> None, forkLatest |-> None]

\* The canonical block of a slot, and the tip that /api/status reports.
BlockAt(s, n) == DB(s)!GetBlock(n)
HeadOf(s) == BlockAt(s, s.latest)
Head(n) == HeadOf(store[n])

\* Op(v), with v bound to a variable so that TLC computes it once.
Once(v, Op(_)) == CHOOSE r \in {Op(x) : x \in {v}} : TRUE

SetTip(store0, h) ==
  Once(store0, LAMBDA s :
    [s EXCEPT !.latest = Number[h], !.latestHash = h,
              !.checkpoint = IF h = Genesis THEN @ ELSE DB(s)!AdvancedCheckpoint(h)])

\* AddBlock and, for genesis, the caller's setFirstBlockId.
Added(s, b) ==
  LET n       == Number[b]
      p       == Parent[b]
      current == s.canonical[n]
      put     == [s EXCEPT !.stored = @ \cup {b},
                           !.forkLatest = IF current # None /\ n > @ THEN n ELSE @]
      written == [put EXCEPT !.canonical[n] = b]
      linked  == IF b = Genesis THEN [written EXCEPT !.first = n]
                 ELSE [written EXCEPT
                   !.nextId[PrevId[b]] = IF BlockAt(written, @) = None THEN n ELSE @,
                   !.nextHash[p] = IF @ = None \/ ~ChildConnectsToParent(@, p) THEN b ELSE @]
  IN  IF b \in s.stored \/ ~(b = Genesis \/ DB(s)!ParentAcceptable(b)) THEN s
      ELSE IF current # None /\ ~PreferBlockVariant(b, current) THEN put
      ELSE Once(linked, LAMBDA t : IF DB(t)!ExtendsTip(b) THEN SetTip(t, b) ELSE t)

AddBlock(store0, b) == Once(store0, LAMBDA s : Added(s, b))

Rewrite(s, h, blocks, links) ==
  SetTip([s EXCEPT !.canonical = PutCanonical(@, blocks),
                   !.nextHash = PutNextHash(@, links),
                   !.nextId = PutNextId(@, links)], h)

\* rebuildBestChainIndex.  Every stored chain validates, so the best one is installed.
Rebuilt(s) ==
  LET cleared == [s EXCEPT !.nextHash = EmptyStore.nextHash, !.nextId = EmptyStore.nextId]
  IN  IF s.first = None THEN s
      ELSE IF DB(s)!FastPathApplies
           THEN [s EXCEPT !.checkpoint = DB(s)!AdvancedCheckpoint(HeadOf(s))]
      ELSE Once(DB(s)!BestEnd, LAMBDA h : Rewrite(cleared, h, Branch[h], Branch[h] \ {Genesis}))

Rebuild(store0) == Once(store0, Rebuilt)

\* Mutant: the adopted chain must not be shorter than the one in place.
AdoptStoredChain_Longer(s, h) ==
  IF ChainLength(h) <= ChainLength(HeadOf(s)) THEN s ELSE Rewrite(s, h, Branch[h], Branch[h] \ {Genesis})

\* adoptStoredChainEndingAtHash: whatever the tip was, the chain that ends at h becomes
\* the canonical one.
AdoptStoredChain(s, h) ==
  LET C       == Branch[h]
      agrees  == {g \in C : \A f \in C : Number[f] <= Number[g] => s.canonical[Number[f]] = f}
      rewrite == {g \in C : \A f \in agrees : Number[f] <= Number[g]}
  IN  IF s.latest >= Number[h] /\ HeadOf(s) = h THEN s
      ELSE Rewrite(s, h, rewrite, {g \in C : Parent[g] \in rewrite})

\* adoptStoredPeerTip: the new store, the result and whether `changed' was set.
AdoptStoredPeerTip(store0, h) ==
  LET adopt(s) ==
        IF h \notin s.stored \/ s.first = None
        THEN [store |-> s, ok |-> FALSE, changed |-> FALSE]
        ELSE Once(AdoptStoredChain(s, h), LAMBDA t :
               [store |-> t, changed |-> Number[h] > s.latest,
                ok |-> Number[h] > s.latest \/ (Number[h] = s.latest /\ t.latestHash = h)])
  IN  Once(store0, adopt)

\* storeParsedBlocks for blocks of different slots, lowest first.
StoreParsedBlocks(s, blocks) ==
  LET upTo[n \in 0..Max(Slot)] ==
        IF n = 0 THEN s
        ELSE IF \E b \in blocks : Number[b] = n
             THEN AddBlock(upTo[n - 1], CHOOSE b \in blocks : Number[b] = n)
        ELSE upTo[n - 1]
  IN  upTo[Max(Slot)]

StoreBlocks(s, parsed) == Once(parsed, LAMBDA blocks : StoreParsedBlocks(s, blocks))

-----------------------------------------------------------------------------
(* What a peer answers.                                                    *)

\* /api/blocks/batch-after-hash: the blocks that getNextBlockByHash leads to.
BatchAfter(s, h) ==
  LET from[g \in Hash] ==
        UNION {{next} \cup from[next] : next \in {DB(s)!GetNextBlock(g)} \ {None}}
  IN  IF h \in s.stored THEN from[h] ELSE {}

\* /api/blocks/after/<n>
BlockAfter(s, n) ==
  IF BlockAt(s, n) = None THEN {} ELSE {DB(s)!GetNextBlock(BlockAt(s, n))} \ {None}

\* The blocks that pullPeerCanonicalChainFromBlock asks for, from block number n up.
ChainFrom(s, n, want) ==
  LET start == BlockAt(s, n)
  IN  IF start = None THEN {}
      ELSE {start} \cup (IF n < Number[want] THEN BatchAfter(s, start) ELSE {})

\* The blocks that pullPeerBlocksByNumberRange asks for.
RangeTo(s, want) == {BlockAt(s, n) : n \in {k \in Slot : k <= Number[want]}} \ {None}

\* /api/blocks/submit, sent by POST and, unless it was accepted, again by GET.  The reply
\* is read before the repair, so the second one may differ.
Submit(s, b) ==
  LET accepts(x) == BlockAt(x, Number[b]) = b /\ x.latest >= Number[b]
      answer(added, repaired) ==
        [store |-> repaired, accepted |-> accepts(added) \/ accepts(repaired),
         relay |-> added # s /\ accepts(added)]
  IN  Once(AddBlock(s, b), LAMBDA a :
        Once(IF a # s /\ a.latest < Number[b] THEN Rebuild(a) ELSE a, LAMBDA r : answer(a, r)))

-----------------------------------------------------------------------------
(* syncFromPeer, which a mutex lets one thread run at a time, and the push  *)
(* that the sync thread makes after it.                                    *)

Idle == [phase |-> "idle", peer |-> None, want |-> None, local |-> None, changed |-> FALSE]

\* A pass: previous_block, the block made, and whether the tip that canCreateBlocks
\* judged was previous_block (which the code does not look at).
NoPass == [phase |-> "idle", prev |-> None, judged |-> FALSE, block |-> None]

TypeOK ==
  /\ peers \in [Node -> SUBSET Node]
  /\ \A n \in Node :
       /\ store[n].stored \subseteq Hash
       /\ store[n].first \in Slot \cup {None}
       /\ store[n].latest \in Slot \cup {None}
       /\ store[n].checkpoint \in Hash \cup {None}
       /\ sync[n] \in [phase : {"idle", "repair", "first", "pull", "fork", "mismatch", "push"},
                      peer : Node \cup {None}, want : Hash \cup {None},
                      local : Slot \cup {None}, changed : BOOLEAN]
       /\ stable[n].tip \in Hash \cup {None}
       /\ stable[n].checks \in 0..RequiredChecks
  /\ backoff \in [Node -> BOOLEAN]
  /\ seen \in [Node -> [Node -> Hash \cup {None}]]
  /\ pass \in [Node -> [phase : {"idle", "top", "judged", "add"}, prev : Hash \cup {None},
                        judged : BOOLEAN, block : Hash \cup {None}]]
  /\ built \in [Node -> Slot \cup {None}]
  /\ gossip \subseteq Node \X Node \X Hash
  /\ slot \in Slot
  /\ faults \in 0..MaxFaults

Unstable == [tip |-> None, checks |-> 0]

Init ==
  /\ peers \in Topology
  /\ store \in [Node -> {EmptyStore, AddBlock(EmptyStore, Genesis)}]
  /\ \A n \in Node \ Empty : store[n] # EmptyStore
  /\ sync = [n \in Node |-> Idle]
  /\ backoff = [n \in Node |-> FALSE]
  /\ seen = [n \in Node |-> [p \in Node |-> None]]
  /\ stable = [n \in Node |-> Unstable]
  /\ pass = [n \in Node |-> NoPass]
  /\ built = [n \in Node |-> None]
  /\ gossip = {}
  /\ slot = Number[Genesis]
  /\ faults = 0

Fault == faults < MaxFaults /\ faults' = faults + 1

\* notePeerSyncProgress and notePeerSyncStall
Progress(n) == backoff' = [backoff EXCEPT ![n] = FALSE]
Stall(n) == backoff' = [backoff EXCEPT ![n] = TRUE]

Saw(n, p, tip) == seen' = [seen EXCEPT ![n][p] = tip]

\* The thread's new state, once its store is s.
Goto(n, s, next) ==
  /\ store' = [store EXCEPT ![n] = s]
  /\ sync' = [sync EXCEPT ![n] = next]

\* syncFromPeer returns and pushToPeer begins.
ToPush(p) == [Idle EXCEPT !.phase = "push", !.peer = p]

\* The head of the while loop, with j.local its latestBlockId.  Past the loop the peer's
\* tip is adopted once more; an unchanged store below the peer's tip is a stall.
Loop(n, s, j) ==
  IF j.local # None /\ j.local < Number[j.want]
  THEN /\ Goto(n, s, [j EXCEPT !.phase = "pull"])
       /\ IF j.changed THEN Progress(n) ELSE UNCHANGED backoff
  ELSE \E a \in {AdoptStoredPeerTip(s, j.want)} :
         /\ Goto(n, a.store, ToPush(j.peer))
         /\ IF j.changed \/ a.changed THEN Progress(n)
            ELSE IF a.store.latest < Number[j.want] THEN Stall(n)
            ELSE UNCHANGED backoff

\* The loop is left without having reached the peer's tip.
Break(n, s, j) == Loop(n, s, [j EXCEPT !.local = Number[j.want]])

\* The status request.
SyncBegin(n, p) ==
  /\ sync[n].phase = "idle"
  /\ p \in peers[n]
  /\ ~backoff[n]
  /\ Saw(n, p, Head(p))
  /\ IF Head(p) = None
     THEN /\ Goto(n, store[n], ToPush(p))
          /\ Stall(n)
     ELSE /\ Goto(n, store[n], [Idle EXCEPT !.phase = "repair", !.peer = p, !.want = Head(p),
                                           !.local = store[n].latest])
          /\ UNCHANGED backoff
  /\ UNCHANGED <<net, stable, pass, built, gossip, faults>>

SyncBeginLost(n, p) ==
  /\ sync[n].phase = "idle"
  /\ p \in peers[n]
  /\ ~backoff[n]
  /\ Fault
  /\ Saw(n, p, None)
  /\ Stall(n)
  /\ Goto(n, store[n], ToPush(p))
  /\ UNCHANGED <<net, stable, pass, built, gossip>>

\* The peer's tip is adopted when it is stored here, otherwise the best chain is rebuilt.
\* When neither raised the tip, latestBlockId keeps the value read at the start.
SyncRepair(n) ==
  LET j == sync[n]
      after(a, s) ==
        LET next == [j EXCEPT !.local = IF a.ok \/ s.latest > @ THEN s.latest ELSE @,
                              !.changed = IF a.ok THEN a.changed ELSE s.latest > j.local]
        IN  IF next.local < Number[j.want]
            THEN /\ Goto(n, s, [next EXCEPT !.phase = IF s.first = None THEN "first" ELSE "pull"])
                 /\ UNCHANGED backoff
            ELSE IF BlockAt(s, next.local) # j.want
            THEN Goto(n, s, [next EXCEPT !.phase = "mismatch"]) /\ UNCHANGED backoff
            ELSE Goto(n, s, ToPush(j.peer)) /\ Progress(n)
  IN  /\ j.phase = "repair"
      /\ UNCHANGED <<net, seen, stable, pass, built, gossip, faults>>
      /\ \E a \in {AdoptStoredPeerTip(store[n], j.want)} :
         \E s \in {IF a.ok THEN a.store ELSE Rebuild(a.store)} : after(a, s)

\* An empty store asks for the peer's first block.
SyncFirst(n, lost) ==
  LET j     == sync[n]
      p     == store[j.peer]
      reply == IF lost THEN {} ELSE {BlockAt(p, p.first)} \ {None}
  IN  /\ j.phase = "first"
      /\ UNCHANGED <<net, seen, stable, pass, built, gossip>>
      /\ IF lost THEN Fault ELSE UNCHANGED faults
      /\ \E s \in {StoreBlocks(store[n], reply)} :
           Loop(n, s, [j EXCEPT !.changed = @ \/ s.stored # store[n].stored, !.local = s.latest])

\* One turn of the while loop: the blocks after the local tip or, when the peer does not
\* know it, the block after its slot; then a rebuild if the tip did not move.
SyncPull(n, lost) ==
  LET j      == sync[n]
      p      == store[j.peer]
      batch  == BatchAfter(p, BlockAt(store[n], j.local))
      blocks == IF lost THEN {} ELSE IF batch # {} THEN batch ELSE BlockAfter(p, j.local)
  IN  /\ j.phase = "pull"
      /\ UNCHANGED <<net, seen, stable, pass, built, gossip>>
      /\ IF lost THEN Fault ELSE UNCHANGED faults
      /\ \E kept \in {StoreBlocks(store[n], blocks)} :
         \E s \in {IF kept.latest > j.local THEN kept ELSE Rebuild(kept)} :
           LET next == [j EXCEPT !.changed = @ \/ kept.stored # store[n].stored
                                              \/ s.latest > kept.latest]
           IN  IF s.latest > j.local THEN Loop(n, s, [next EXCEPT !.local = s.latest])
               ELSE Goto(n, s, [next EXCEPT !.phase = "fork"]) /\ UNCHANGED backoff

\* The blocks of pullPeerForkRepairWindow and pullPeerCanonicalChain: from the parent of
\* the local tip and, unless that raised the tip, from the first block.  When the peer's
\* chain does not come, blocks are asked for by number.
ForkRepair(n, lost) ==
  LET j      == sync[n]
      p      == store[j.peer]
      tip    == BlockAt(store[n], j.local)
      parent == IF tip \in {None, Genesis} THEN {} ELSE ChainFrom(p, PrevId[tip], j.want)
      rest(s) == IF s.latest > store[n].latest THEN s
                 ELSE IF lost THEN Rebuild(StoreBlocks(s, RangeTo(p, j.want)))
                 ELSE Rebuild(StoreBlocks(s, ChainFrom(p, s.first, j.want)))
  IN  Once(IF parent = {} THEN store[n] ELSE Rebuild(StoreBlocks(store[n], parent)), rest)

Changed(n, s) == s.stored # store[n].stored \/ s.latest > store[n].latest

\* The pull loop made no headway: fork repair, then the peer's tip if that did not help.
SyncFork(n, lost) ==
  LET j == sync[n]
  IN  /\ j.phase = "fork"
      /\ UNCHANGED <<net, seen, stable, pass, built, gossip>>
      /\ IF lost THEN Fault ELSE UNCHANGED faults
      /\ \E r \in {ForkRepair(n, lost)} :
         \E a \in {AdoptStoredPeerTip(r, j.want)} :
         \E s \in {IF r.latest > j.local THEN r ELSE a.store} :
           LET next == [j EXCEPT !.changed = @ \/ Changed(n, s)]
           IN  IF s.latest > j.local THEN Loop(n, s, [next EXCEPT !.local = s.latest])
               ELSE Break(n, s, next)

\* The local tip is not below the peer's and is another block: fork repair, then the
\* peer's tip is adopted whichever chain is longer.
SyncMismatch(n, lost) ==
  LET j == sync[n]
  IN  /\ j.phase = "mismatch"
      /\ UNCHANGED <<net, seen, stable, pass, built, gossip>>
      /\ IF lost THEN Fault ELSE UNCHANGED faults
      /\ \E r \in {ForkRepair(n, lost)} :
         \E a \in {AdoptStoredPeerTip(r, j.want)} :
           /\ Goto(n, a.store, ToPush(j.peer))
           /\ IF j.changed \/ Changed(n, r) \/ a.changed THEN Progress(n) ELSE Stall(n)

\* broadcastBlock, to the peers that do not answer that they know the block.
Relay(n, blocks) ==
  {m \in {n} \X peers[n] \X blocks : m[3] \notin store[m[2]].stored}

\* The submissions of pushToPeer, in order until one is not accepted: what the peer's store
\* becomes and the blocks that the peer relays.
SubmitNext(r, b) ==
  IF ~r.accepted THEN r
  ELSE Once(Submit(r.store, b), LAMBDA x :
         [store |-> x.store, accepted |-> x.accepted,
          relay |-> r.relay \cup (IF x.relay THEN {b} ELSE {})])

SubmitAll(s, blocks) ==
  LET upTo[k \in 0..Max(Slot)] ==
        IF k = 0 THEN [store |-> s, accepted |-> TRUE, relay |-> {}]
        ELSE IF \E b \in blocks : Number[b] = k
             THEN Once(upTo[k - 1], LAMBDA r : SubmitNext(r, CHOOSE b \in blocks : Number[b] = k))
        ELSE upTo[k - 1]
  IN  upTo[Max(Slot)]

\* pushToPeer: the blocks the walk from the first block leads to; `cut' is where a lost
\* request stops it.
Push(n, cut) ==
  LET p     == sync[n].peer
      own   == store[n]
      tip   == Head(p)
      start == IF tip = None THEN -1
               ELSE IF BlockAt(own, Number[tip]) # tip THEN own.first - 1
               ELSE Number[tip] - PushLookback
      blocks == IF own.first = None \/ own.latest <= start THEN {}
                ELSE {b \in {BlockAt(own, own.first)} \cup BatchAfter(own, BlockAt(own, own.first)) :
                        Number[b] > start /\ Number[b] < cut}
  IN  /\ sync[n].phase = "push"
      /\ Saw(n, p, tip)
      /\ sync' = [sync EXCEPT ![n] = Idle]
      /\ \E done \in {Once(blocks, LAMBDA S : SubmitAll(store[p], S))} :
           /\ store' = [store EXCEPT ![p] = done.store]
           /\ gossip' = gossip \cup Relay(p, done.relay)

PushDone(n) ==
  /\ UNCHANGED <<net, backoff, stable, pass, built, faults>>
  /\ Push(n, Max(Slot) + 1)

PushLost(n) ==
  /\ Fault
  /\ \E cut \in Slot : Push(n, cut)
  /\ UNCHANGED <<net, backoff, stable, pass, built>>

\* A call made by the builder, the console or a wallet request: no push follows.
NoPush(n) ==
  /\ sync[n].phase = "push"
  /\ sync' = [sync EXCEPT ![n] = Idle]
  /\ UNCHANGED <<net, store, backoff, seen, stable, pass, built, gossip, faults>>

BackoffExpires(n) ==
  /\ backoff[n]
  /\ backoff' = [backoff EXCEPT ![n] = FALSE]
  /\ UNCHANGED <<net, store, sync, seen, stable, pass, built, gossip, faults>>

SyncStep(n) ==
  \/ SyncRepair(n) \/ SyncFirst(n, FALSE) \/ SyncPull(n, FALSE) \/ SyncFork(n, FALSE) \/ SyncMismatch(n, FALSE)
  \/ PushDone(n)

SyncLost(n) ==
  \/ SyncFirst(n, TRUE) \/ SyncPull(n, TRUE) \/ SyncFork(n, TRUE) \/ SyncMismatch(n, TRUE) \/ PushLost(n)

-----------------------------------------------------------------------------
(* Gossip, the builder and the node's restart.                             *)

\* /api/blocks/announce: an unknown block is fetched from the announcing node.
Announce(m) ==
  LET to == m[2]
      b  == m[3]
  IN  /\ m \in gossip
      /\ \E added \in {AddBlock(store[to], b)} :
         \E s \in {IF added # store[to] /\ added.latest < Number[b] THEN Rebuild(added) ELSE added} :
           /\ store' = [store EXCEPT ![to] = s]
           /\ gossip' = (gossip \ {m}) \cup
                Relay(to, IF added # store[to] /\ BlockAt(s, Number[b]) = b /\ s.latest >= Number[b]
                          THEN {b} ELSE {})
      /\ UNCHANGED <<net, sync, backoff, seen, stable, pass, built, faults>>

AnnounceLost(m) ==
  /\ m \in gossip
  /\ gossip' = gossip \ {m}
  /\ UNCHANGED <<net, store, sync, backoff, seen, stable, pass, built, faults>>

\* getBestPeerStatus asks the peers it has no recent answer from.  An answer to any other
\* request makes a peer recent, so a tip in `seen' may be old.
Refreshed(n, asked) == [p \in Node |-> IF p \in asked THEN Head(p) ELSE seen[n][p]]

BestTips(n, tips) ==
  LET known == {tips[p] : p \in peers[n]} \ {None}
  IN  {t \in known : \A u \in known : Number[u] <= Number[t]}

\* Mutant: the checks are counted without end.
Noted_Uncapped(n, tip) ==
  [tip |-> tip, checks |-> IF stable[n].tip # tip THEN 1 ELSE stable[n].checks + 1]

\* noteStablePeerTip
Noted(n, tip) ==
  [tip |-> tip,
   checks |-> IF stable[n].tip # tip THEN 1
              ELSE IF stable[n].checks < RequiredChecks THEN stable[n].checks + 1
              ELSE stable[n].checks]

\* Mutant: a node that is ahead of its peers may go on building.
AtPeerTip_Ahead(n, tip) == store[n].latest > Number[tip] \/ Head(n) = tip

\* The local tip is the best peer's tip, neither behind nor ahead of it.
AtPeerTip(n, tip) == store[n].latest = Number[tip] /\ Head(n) = tip

\* canCreateBlocks: what it notes, and its verdict.
CanCreateBlocks(n, verdict) ==
  IF peers[n] = {} THEN verdict /\ UNCHANGED <<seen, stable, backoff>>
  ELSE \E asked \in SUBSET peers[n] :
         LET tips == Refreshed(n, asked)
         IN  /\ {p \in peers[n] : seen[n][p] = None} \subseteq asked
             /\ seen' = [seen EXCEPT ![n] = tips]
             /\ \/ /\ BestTips(n, tips) = {}
                   /\ ~verdict
                   /\ stable' = [stable EXCEPT ![n] = Unstable]
                   /\ Stall(n)
                \/ \E tip \in BestTips(n, tips) :
                     IF AtPeerTip(n, tip)
                     THEN /\ stable' = [stable EXCEPT ![n] = Noted(n, tip)]
                          /\ verdict = (Noted(n, tip).checks >= RequiredChecks)
                          /\ UNCHANGED backoff
                     ELSE /\ ~verdict
                          /\ stable' = [stable EXCEPT ![n] = Unstable]
                          /\ IF store[n].latest = Number[tip] THEN Stall(n) ELSE UNCHANGED backoff

\* canCreateBlocks for a wallet status request, the console, or a builder that is not
\* selected.
CheckPeers(n) ==
  /\ \E verdict \in BOOLEAN : CanCreateBlocks(n, verdict)
  /\ UNCHANGED <<net, store, sync, pass, built, gossip, faults>>

\* No peer answers; a builder that asked is told to pause.
CheckPeersLost(n) ==
  /\ peers[n] # {}
  /\ Fault
  /\ seen' = [seen EXCEPT ![n] = [p \in Node |-> None]]
  /\ stable' = [stable EXCEPT ![n] = Unstable]
  /\ Stall(n)
  /\ \/ UNCHANGED pass
     \/ pass[n].phase = "top" /\ pass' = [pass EXCEPT ![n] = NoPass]
  /\ UNCHANGED <<net, store, sync, built, gossip>>

CreatorModeEnabled == {Creator[b] : b \in Hash \ {Genesis}}

\* The top of the builder's loop, in a pass in which the node is selected.
BuilderPass(n) ==
  /\ n \in CreatorModeEnabled
  /\ pass[n].phase = "idle"
  /\ Head(n) # None
  /\ Number[Head(n)] < slot
  /\ pass' = [pass EXCEPT ![n] = [NoPass EXCEPT !.phase = "top", !.prev = Head(n)]]
  /\ UNCHANGED <<net, store, sync, backoff, seen, stable, built, gossip, faults>>

\* The pass's canCreateBlocks, which looks at the tip of this moment.
BuilderCheck(n) ==
  /\ pass[n].phase = "top"
  /\ \E verdict \in BOOLEAN :
       /\ CanCreateBlocks(n, verdict)
       /\ pass' = [pass EXCEPT ![n] =
            IF verdict THEN [@ EXCEPT !.phase = "judged", !.judged = (Head(n) = pass[n].prev)] ELSE NoPass]
  /\ UNCHANGED <<net, store, sync, built, gossip, faults>>

\* The block that the node makes of what it holds: the parent's hash was read at the top,
\* the slot and the parent's number are read now.
Makes(n, b) ==
  /\ Creator[b] = n
  /\ Number[b] = slot
  /\ Parent[b] = pass[n].prev
  /\ PrevId[b] = store[n].latest

BuilderRead(n, b) ==
  /\ pass[n].phase = "judged"
  /\ Makes(n, b)
  /\ pass' = [pass EXCEPT ![n].phase = "add", ![n].block = b]
  /\ UNCHANGED <<net, store, sync, backoff, seen, stable, built, gossip, faults>>

\* The hash and the number are not of one block, so that AddBlock refuses what is made; or
\* the block is outside the bounded tree.
BuilderNoBlock(n) ==
  /\ pass[n].phase = "judged"
  /\ ~\E b \in Hash : Makes(n, b)
  /\ pass' = [pass EXCEPT ![n] = NoPass]
  /\ built' = IF Number[pass[n].prev] = store[n].latest THEN built ELSE [built EXCEPT ![n] = slot]
  /\ UNCHANGED <<net, store, sync, backoff, seen, stable, gossip, faults>>

\* AddBlock and broadcastBlock, unless a block of that slot was made before.
BuilderAdd(n) ==
  LET b == pass[n].block
  IN  /\ pass[n].phase = "add"
      /\ IF built[n] = Number[b] THEN UNCHANGED <<store, gossip>>
         ELSE /\ store' = [store EXCEPT ![n] = AddBlock(@, b)]
              /\ gossip' = gossip \cup Relay(n, {b})
      /\ built' = [built EXCEPT ![n] = Number[b]]
      /\ pass' = [pass EXCEPT ![n] = NoPass]
      /\ UNCHANGED <<net, sync, backoff, seen, stable, faults>>

Tick ==
  /\ slot + 1 \in Slot
  /\ slot' = slot + 1
  /\ UNCHANGED <<peers, store, sync, backoff, seen, stable, pass, built, gossip, faults>>

\* main: the store is rebuilt before the sync thread starts; the peer statuses are new.
Restart(n) ==
  /\ Fault
  /\ store' = [store EXCEPT ![n] = Rebuild(@)]
  /\ sync' = [sync EXCEPT ![n] = Idle]
  /\ backoff' = [backoff EXCEPT ![n] = FALSE]
  /\ seen' = [seen EXCEPT ![n] = [p \in Node |-> None]]
  /\ stable' = [stable EXCEPT ![n] = Unstable]
  /\ pass' = [pass EXCEPT ![n] = NoPass]
  /\ built' = [built EXCEPT ![n] = None]
  /\ UNCHANGED <<net, gossip>>

Next ==
  \/ \E n \in Node :
       \/ \E p \in Node : SyncBegin(n, p) \/ SyncBeginLost(n, p)
       \/ SyncStep(n) \/ SyncLost(n) \/ NoPush(n) \/ BackoffExpires(n)
       \/ CheckPeers(n) \/ CheckPeersLost(n) \/ Restart(n)
       \/ BuilderPass(n) \/ BuilderCheck(n) \/ BuilderNoBlock(n) \/ BuilderAdd(n)
       \/ \E b \in Hash : BuilderRead(n, b)
  \/ \E m \in gossip : Announce(m) \/ AnnounceLost(m)
  \/ Tick

\* Weak fairness of NoPush(n) \/ SyncStep(n), which can be taken exactly when the thread is
\* in a call.
SyncGoesOn(n) ==
  []<>(sync[n].phase = "idle") \/ []<><<NoPush(n) \/ SyncStep(n)>>_vars

\* The sync thread never stops, a peer that does not answer times out, and the backoff is
\* a span of time.  A sync begins if it may and goes on being allowed to.  Nothing is
\* assumed of pushes, blocks, gossip and time slots.
Fairness ==
  \A n \in Node :
    /\ SyncGoesOn(n)
    /\ WF_vars(BackoffExpires(n))
    /\ \A p \in Node \ {n} : WF_vars(SyncBegin(n, p))

Spec == Init /\ [][Next]_vars /\ Fairness

\* More than the code guarantees: the sync thread finds every gap between two backoffs,
\* and pushes.
SpecEager ==
  /\ Spec
  /\ \A n \in Node :
       /\ SF_vars(PushDone(n))
       /\ \A p \in Node \ {n} : SF_vars(SyncBegin(n, p))

-----------------------------------------------------------------------------
(* Properties.                                                             *)

\* canCreateBlocks judges the tip of its own moment, from tips that peers reported earlier;
\* the block is made and added later.  When the tip it judged was the parent of the block
\* added, one of the node's peers has that parent, whatever the stores went through since:
\* only a tip that moved before the check lets a node build on a block no peer has.
BuildsOnSharedTip ==
  [][\A n \in Node :
       BuilderAdd(n) /\ pass[n].judged /\ peers[n] # {} =>
         \E p \in peers[n] : Parent[pass[n].block] \in store[p].stored]_vars

\* Between the top of the pass, the read of the parent's number and AddBlock, peers' blocks
\* come in.  A block added whose parent is no longer the tip never moves the tip to another
\* slot; it becomes the tip only as the preferred variant of the tip's own slot.
StaleParentKeepsTip ==
  [][\A n \in Node :
       LET b == pass[n].block
       IN  BuilderAdd(n) /\ Parent[b] # Head(n) =>
             /\ store'[n].latest = store[n].latest
             /\ \/ Head(n)' = Head(n)
                \/ /\ Number[b] = store[n].latest
                   /\ Head(n)' = b
                   /\ PreferBlockVariant(b, Head(n))]_vars

\* canCreateBlocks found no peer with a chain, or a peer's tip of the local tip's slot
\* that is another block: it renews the backoff that keeps the sync thread from asking.
Renews(n) ==
  LET best == BestTips(n, seen'[n])
  IN  /\ peers[n] # {}
      /\ backoff'[n]
      /\ best = {} \/ \E t \in best : Number[t] = store[n].latest /\ t # Head(n)
      /\ CheckPeers(n) \/ BuilderCheck(n)

\* A node that follows one other ends on that node's tip for good, whichever fork it had
\* built meanwhile, from an empty store too, after lost requests, restarts and backoffs:
\* provided that its own checks do not renew the backoff for ever.
CatchesUp ==
  <>[][\A n \in Node : ~Renews(n)]_vars =>
    <>[](\A n, p \in Node : peers[n] = {p} /\ peers[p] = {} => Head(n) = Head(p))

\* "The longest chain is considered to be the true record of history": once no more blocks
\* are made, every node ends on a longest chain of those it has.
LongestChainWins ==
  <>[](\A n \in Node : \A h \in store[n].stored : ChainLength(h) <= ChainLength(Head(n)))
=============================================================================
