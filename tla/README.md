# Safire: a verification project

TLA+ models of the core of Safire, a node of a block chain without mining: a member of
the network is chosen for every 15-second slot and makes the block of that slot. The
modules model one node's block store under its threads and crashes, the rule that says
who may create a block, the ledger rules a chain must satisfy, the mempool that threads
share without a lock, and the protocol by which nodes bring each other to one chain. TLC
checks them on small instances; TLAPS proves every safety property of those runs for every
instance.

File names below are relative to the repository root; `blockdb.cpp` is
`src/blockdb.cpp`, `chainvalidator.cpp`, `ledgerstate.cpp`, `selector.cpp`,
`blockbuilder.cpp` and `functions.cpp` are in `src/functions/`, `localpeerclient.cpp` and
`request_handler.cpp` in `src/network/`.

## 1. Inventory

A node runs these threads (`main.cpp`, end of `main`): the HTTP server with one worker,
the peer sync thread, the block builder, a heartbeat thread that does nothing, the
carry-forward thread and the command line. They share one LevelDB database, which holds
the blocks and the mempool, two in-memory caches, the peer statuses and, from an earlier
version, `queue.dat`.

| Component | State | Operations | Correct when |
|---|---|---|---|
| Block store, `CBlockDB` | LevelDB keys: blocks by hash, canonical hash by slot, next block by hash and by number, first, latest, checkpoint, fork counters | `AddBlock`, `rebuildBestChainIndex`, `adoptStoredChainEndingAtHash`, `DeleteAll`, walks | ancestry complete; indexes never dangle; a rebuild finds the best valid chain whatever came before |
| Chain validator, `CChainValidator` | ledger cache by block hash | `validateBlockForStorage`, `validateConnectedChain` | both reach the same verdict; accepted chains conserve money, nonces and names |
| Ledger state, `CLedgerState` | result cache | `build`, `balancesThroughBlock`, `activeMemberKeysAt` | agrees with the validator |
| Selection, `CSelector` | none | epoch, boundary, authorised creator | all nodes name the same creator; somebody is always authorised |
| Block builder | slot, previous block | genesis, block of the slot, heartbeat | builds only in turn, on the tip |
| Carry-forward | none | makes a balance snapshot record | the record matches the history |
| Mempool, `CFunctions` queue | LevelDB keys: records by sequence, hash keys, next sequence; `queue.dat` | add, peek (which deletes accepted records), parse (which drains) | no record lost or twice in a block |
| Peer sync, `CLocalPeerClient` | peers, scores, last tips, backoff, stable-tip counter | sync, repair, push, gossip, `canCreateBlocks`, handoff | nodes converge on one tip; a creator does not run ahead |
| HTTP API | none | status, blocks, submit and announce of blocks and records, wallet | same checks as sync |

Interactions: the sync and HTTP threads and the builder call `AddBlock`, which takes no
lock; it calls the validator, which walks the store's indexes through `CLedgerState`.
Sync and startup call the rebuild, and sync the adoption, under one mutex that
`AddBlock` does not take. The builder and the validator ask `CSelector` with the member
list of an older block of the chain. The HTTP thread, the console, the carry-forward
thread and the builder read and write the mempool without a lock. A node's sync thread
asks its peers' HTTP threads for blocks and submits its own to them; the builder, the
console and wallet requests call the same sync, which one mutex serialises.

What is hard: `AddBlock`'s separate Puts interleave with another thread's rebuild; a
crash may fall between any two Puts; blocks come out of order and in several variants
of one slot; ledgers are cached by hash but computed by walking an index; the ledger is
computed by five pieces of code; creators depend on heartbeats that only a block can
carry; a list of the mempool is read, and deleted from, at different moments; a sync
works with a status that is old after its first request, requests are lost, nodes
restart, and the same backoff is set by the check that waits for the sync. `PROJECT.json`
lists each of these hazards at its line with the properties that would catch it.

## 2. Modules

**BlockTree**: the blocks as constants (a block is its hash, which commits to its number,
parent and records), the preference between variants and between chains, and how a chain
is written into an index.

**BlockDB** (`blockdb.cpp`, first half of `validateBlockForStorage`). A variable per
LevelDB key family, `cache` for `validationStateByBlockHash`, and `job[t]`, the next step
of each thread. `AddBlock` is `AddBlockAccept` or `AddBlockReject`, then `AddBlockPut`,
`AddBlockCanonical`, `AddBlockNext`, `AddBlockCheckTip`, `AddBlockSetTip` and, in the
caller, `SetFirstBlockId`. A rebuild is `RebuildFast` (checkpoint fast path) or
`RebuildBegin`, `RebuildList` (the keys to delete), `RebuildClearHash` and `RebuildClearId`
(one key a step), `RebuildCleared`, `RebuildWrite` (one block a step) and `RewriteFinish`;
an adoption is `AdoptBegin`, `AdoptDiverge`, `AdoptWrite` (one block a step) and
`RewriteFinish`. `job[t]` holds what a loop has left to do. `Crash` drops the cache and all
jobs; `DeleteAll` is the wipe `syncFromPeer` does on a tip without a first block. `StateOK`
and `ChainOK` say which blocks pass the record and creator rules of storage and of full
validation on their own branch. When storage judges a block by a ledger that is not its
branch's, the verdict is open (`Verdicts`). A step is the Delete of one key, the Puts of one
block, or a decision with the reads it rests on and at most the few Puts that follow it;
only `DeleteAll`, a loop over all keys in the code, is one step of any length.

**ChainStore** is the abstract store: parents before children; a store that is not open may
start over, and one that is open forgets nothing and keeps a head once it has one.
`BlockDB!ImplementsChainStore` is the refinement, with the set of stored blocks,
`getBlock(getLatestBlockId())` and whether `chain:first_block` is set as the mapping: the
wipe that a crash between the first two Puts of a new store leads to is a `Reset`.

**Selector** (`selector.cpp`, the creator rules of the validator, the builder's turn).
`chain` is a sequence of blocks, each with the snapshot of members and heartbeats the
validator takes after it; `slot` is the time. `Tick` ends a slot, `BuildBlock` makes its
block. SHA-256 picks one of the authorised keys; the module keeps the whole set. `Founder`
made the genesis block; `RecoveryKey`, which the configuration may set, is any key.

**Ledger** (`validateConnectedChain`). One action per record type, `NextBlock` between
blocks. A behaviour is a chain full validation accepts. Balances are exact integers in a
smallest unit, `Unit` is 1.0 and `Tolerance` the 0.000001 of the comparisons.

**LedgerViews** extends Ledger and computes, for the same chain, the ledger built by
walking the chain, the one cached record by record, the one storage judges a block by,
and the two balance functions behind carry-forward records.

**PeerSync** (`localpeerclient.cpp`, the block requests of `request_handler.cpp`, the
builder's pass) composes nodes, each with a store: a record of BlockDB's variables, on which
BlockDB's operators are instantiated, with `AddBlock`, the rebuild and the adoption as
functions done in one step. `sync[n]` is where `syncFromPeer` stands: `SyncBegin` (the status
request), `SyncRepair` (adopt the peer's tip or rebuild), `SyncFirst` (an empty store),
`SyncPull` (a turn of the pull loop), `SyncFork` and `SyncMismatch` (the fork repairs, with
`ForkRepair` for the windows that are pulled), then the push that the sync thread makes, or
`NoPush` for other callers. `Submit` and `Announce` are the peer's HTTP handlers,
`CanCreateBlocks` the safety check with its stable-tip counter and the tips last seen.
`pass[n]` is where the builder stands: `BuilderPass` reads the parent's hash at the top of its
loop, `BuilderCheck` asks `canCreateBlocks`, `BuilderRead` takes the slot and the parent's
number for the block, `BuilderAdd` is `AddBlock` and the broadcast; syncs, submissions and the
slot go on between any two of them. `SyncLost`, `PushLost`, `CheckPeersLost`, `AnnounceLost`
and `Restart` are the faults. A step of a sync is one request with what follows it until the
next.

**Mempool** (`functions.cpp`, the queue part of `blockbuilder.cpp`, the record requests).
`pool`, `hashKeys`, `nextSeq` are the LevelDB keys, `legacy` is `queue.dat`, `job[t]` the next
step of a thread. `AddCheck`, `AddLookup`, `AddSequence`, `AddPut` are `addToQueue`; `Peek`
and `PeekClean` a reading and the batch that deletes accepted records afterwards; `SendNonce`
and `SendPeek` the nonce of a wallet's transfer; `ParseList`, `ClearKeys`, `ClearHashes`,
`Clear` the drain, for a block (`BuildBegin` to `AddBlock`) or for pruning (`PruneBegin`,
`PruneCheck`, `Replace`). `PeerBlock` and `Reorg` move the chain meanwhile; `Crash` loses what
threads hold. `addToQueue` checks nothing of a record but its size, so a queued record may be
one that the validator refuses: `Refused` has its reasons (`Malformed` stands for hash,
signature, amount, fee and payee; repetition, nonce and membership are computed), and
`Verdicts` what it may say to a block, with both answers open when the block has a record that
names or funds decide on. Which transfers `includePendingTransfer` leaves out for their
balance is a free choice (`poor`). A listing is a sequence in key order (`InOrder`: the i-th
member has i - 1 before it); `queue.dat` is a set of records, taken in the order of their
hashes.

**MCBlockDB**, **MCLedger**, **MCPeerSync**, **MCMempool**: block trees, records, peer
lists and symmetry for TLC.

**BlockTreeProofs** (branches, the fork choice, walks along a next index),
**BlockDBProofs**, **SelectorProofs**, **LedgerProofs**, **LedgerViewsProofs**,
**PeerSyncProofs**, **MempoolProofs**: the proofs about the module of that name.
**NumberLemmas**: least and greatest elements, induction up to a bound, recursion up to a
bound, ranks in a finite order, and sums over finite sets.

Definitions named `X_Something` with a comment "Mutant" are faulty forms of `X`; each
property has one that breaks it, listed in `PROJECT.json`.

## 3. Runs

Properties that hold:

| Run | Instance | Shows |
|---|---|---|
| `store_threads` | 2 threads, 4 blocks, 2 variants of a slot, crashes and the wipe; 1,407,493 states | `StoreInv`, `RootedStore`, `IndexSound`, refinement of `ChainStore` |
| `store_wipe` | 1 thread, 7 blocks (two branches, an invalid block, a foreign genesis), crashes and the wipe; 1,130,030 states | a full rebuild repairs all indexes (`RebuildRepairsIndex`), its tip depends on the stored set alone (`RebuildReachesBest`), an unforked chain is walked exactly (`UnforkedWalk`) |
| `creator_settled` | 2 keys, 8 slots, 4 epochs; 82,578 states | `ChainInv`, `FrozenForever`, `ScheduleSettled` |
| `ledger_views` | 2 keys, 2 names, 3 blocks, 5 records; 574,000 states | `NoOverdraft`, `NonceSequence`, `NamesConsistent`, `Conservation`, and, between the ledgers, `ViewsAgree`, `GapIsRewards`, `StorageAgreesOnMoney` |
| `peer_follower` | a node with one block and its follower, which starts with or without a chain, with two of its own fork, one fault; 381,618 states | `BuildsOnSharedTip`, `StaleParentKeepsTip`, `CatchesUp` (liveness) |
| `mempool` | a client and the builder, 4 records, 2 blocks, a reorganisation, crashes; 765,150 states | `ReadersDropNothing`, `TogetherAsAlone` |

Statements of the documents or comments that the code does not keep (findings in
`PROJECT.json`, each with its run):

* `store_variant_tip`: an unvalidated same-slot variant becomes the canonical tip.
* `store_tip_race`: two threads' `AddBlock` pass the check against the same tip; the second
  sets the tip to its own block over the sibling that the first has set.
* `creator_outage`: the founder's ordinary blocks use up the recovery window; after an
  outage longer than the heartbeat validity nobody may build.
* `views_carry_forward`: carry-forward records and the ledger count self-transfers and
  rewards differently.
* `peer_longest`: a node adopts the tip of the peer it asks, longer or not; two nodes
  that are each other's peer both go back to the other's old tip and stay there, with the
  longer chain in both stores.
* `mempool_clear`: the drain lists the record keys twice, once to read and once to delete;
  a record queued in between is deleted unread.

`CatchesUp` and `peer_longest` are two sides of one line of code: the adoption without a
comparison is what brings a follower onto its peer's chain whatever it had built, as the
mutant `AdoptStoredChain_Longer` shows, and what keeps two equals off the longest chain.

Behaviour the models have, as the code has it, and that limits what the properties can
say: after a fork, a ledger may be built by walking another branch (hence the hypothesis
of `UnforkedWalk`); a fork block whose record is on the competing branch is refused; the
rebuild pops an invalid end of the longest chain and does not return to other branches
(`RebuildReachesBest` says what it does reach); the checkpoint fast path sees forks
only as two blocks of one slot; an adopted chain moves the checkpoint without full
validation; the members of the boundary snapshot are aged by the new block's number; a
join and a heartbeat of the same key in one block pass full validation but not storage;
two claims of one name in one block pass storage but not full validation; after a fork the
next-block walk may cross to another branch through the index by number. In the mempool,
a transfer filtered for its nonce and the records of a refused block are gone with the
drain; a hash key may be left without its record, and keeps that record out until the
next drain; a block taken back after a reading loses the record that the reading deletes;
`parseQueueRecords` takes the records of `queue.dat` unfiltered (functions.cpp:532), so that
an accepted one costs the builder its block (hence the exception in `TogetherAsAlone`), and
so does one record that is bad by itself or more than `MAX_BLOCK_RECORDS` of them. In a
builder's pass, a tip that moves before `canCreateBlocks` is judged in place of the parent
that was read (hence `judged` in `BuildsOnSharedTip`), and a peer's block of the same slot
that becomes the tip before `AddBlock` is replaced by the node's own when that is preferred
(hence the exception in `StaleParentKeepsTip`).

### Bounds

The trees have what the fork logic tells apart: two variants of a slot, branches of
different length and in different slots, a shared record, an invalid block, a second
genesis. `CheckpointDepth` is 1 so that checkpoints move within three blocks;
`MaxRebuildDepth` is above the tree's height. The selector's epoch (100), heartbeat
validity (5760), renewal (5520) and recovery window (10) are 2, 3, 2 and 2 with
`LastSlot` 8: four epochs, two after the first in which the boundary is not genesis, and
enough slots for every heartbeat to expire. The ledger has two keys, so that
sender, recipient and creator coincide in every way two of them can, an amount of half a
unit, zero, and a tolerance of half a unit, the worst case of the comparison;
`MaxBlocks` and `MaxRecords` allow a join, a transfer, its repetition and a rename across
blocks. Names are interchangeable, hence `NameSymmetry`.

In `peer_follower` each node makes a variant of slot 2, of which the follower's is preferred,
and the follower may make a block on its own, so that its fork becomes the longer one; the
fault is a lost request anywhere or a restart of either node. `RequiredChecks` is 2 as in the
code, `PushLookback` is 1 instead of 100 so that a push may start above the fork. Replies hold
250 blocks and a push 200, far more than the tree. `peer_longest` needs one block and no fault.
In `mempool` two transfers share nonce 1, a heartbeat is in `queue.dat` and may be queued
again, and a join is good until a peer's block has it. `MaxSeq` 2 lets two threads read the
same sequence number and lets it fall back; with `MaxBlocks` 2 an accepted record can be
pending while a block is built; `MaxReorgs` 1 is the case `ReadersDropNothing` excepts. Other
records that the validator refuses or decides by names and funds are left to the proof, which
holds for any records.

### Deadlock and fairness

The bounded models stop at their bounds, and a store may have nothing left to add, so
deadlock is not checked.

Only PeerSync assumes fairness. `SyncGoesOn`, which is `WF(NoPush \/ SyncStep)` with its
`ENABLED` written out (`sync[n].phase # "idle"`; TLC takes twice as long to compute it): a
sync that has begun goes on, its requests have timeouts, and the sync thread's loop never
ends; `NoPush` is the end of a sync that another caller began. `WF(BackoffExpires)`: a backoff
is at most `PEER_SYNC_BACKOFF_MAX_SECONDS`. `WF(SyncBegin)`: a sync begins if nothing goes on
keeping it from doing so. No more than that is justified: the thread looks at the backoff
every two seconds, and a builder's pass or a wallet request may renew it right after it
expires (`notePeerSyncStall` does nothing while one runs), each time before the thread looks.
So `CatchesUp` has the hypothesis that such renewals (`Renews`) end at some time; without it
TLC finds a follower that stays on its fork for ever, which is the hazard at
localpeerclient.cpp:1898. `peer_longest` refutes its statement under `SpecEager`, with strong
fairness of `SyncBegin` and `PushDone` added: even a thread that finds every gap and pushes
does not bring two equals onto the longest chain. Nothing is assumed of builders, time slots,
announcements or of faults, which are bounded in number. The one other statement about
progress, `OutageRecovers`, is refuted by a reachable state from which `FrozenForever` proves
there is no way out.

## 4. Proofs

Everything below is proved for any constants that satisfy the `ASSUME`s of the modules:
any finite block tree with any hashes, any number of threads and nodes and any peer lists,
any epoch length, lag, validity and window, any keys, names, amounts and records. The
assumptions are named: `HashAssumption`, `HeaderAssumption` and `BranchAssumption` (hashes
are positive numbers, genesis has no parent, `Branch` is the ancestry), `RecordsAssumption`
(a block holds finitely many records), `KeyAssumption` (finitely many keys),
`RecordAssumption` (finitely many queue records, transfers numbered from 1),
`NodeAssumption` (`RequiredChecks` is at least 1), and the types of the bounds. TLC
evaluates each of them in the passing runs.

What is proved, by module, with the invariant behind it:

**BlockDBProofs.** `StoreInv` is inductive (`StoreInvariant`): `RootedStore` and
`IndexSound` alone are not, because a step between two Puts relies on what the thread
read before. `ThreadSound` says what survives: the block a thread is adding has its
parent in the store, and from the canonical step on the slot it writes has an entry. It
holds because neither rebuild nor adoption deletes a block or a canonical entry: what
`RebuildClearHash` and `RebuildClearId` delete are next indexes, and a loop that is cut off
or overtaken leaves entries that are each sound. The wipe comes when no call is under way.
`StoreRooted`, `IndexesSound` and `StoreImplementsChainStore` follow, the last with one case
per action; the wipe is allowed because it finds the store not open.

`UnforkedChainWalked` proves `UnforkedWalk` for any number of threads. `WalkInv` adds to
`StoreInv` that every `next_block_<n>` entry is the number of a stored block whose parent
has number n (`NextIdSound`), and that genesis' slot is filled before `chain:first_block`
names it (`FirstSound`). In a store without a fork, numbers and children are unique, so each
of the three ways `getNextBlock` has, by hash, by number and by scan, finds the one child
there is, even while another thread has the indexes half cleared.

With one thread, `RebuildRepairs` and `RebuildIsDetermined` prove `RebuildRepairsIndex` and
`RebuildReachesBest`, wipes and crashes included. `RebuildInv` says that between the steps of
a rebuild its tip is still the one the stored blocks determine and that the blocks already
written stay written (`RebuildSound`); two threads do not keep it, as `AddBlock` does not take
the rebuild's mutex. `BestEndDecided`: the block a rebuild starts from is preferred to every
other one in the store, so the choice is not one of order.

**BlockTreeProofs.** `ForkChoiceDecides`: among linked blocks one tip is preferred to every
other and none to it. `PreferChain` compares two chains where they part and is not a
lexical order of their ends, so transitivity is not at hand; the proof goes up from genesis
and takes at every fork the most preferred child that leads to a longest chain. Branches are
handled by induction up the tree (`UpTheTree`, with a lowest counterexample). A walk along a
next index is a recursive function; `WalkExists` shows that there is one even if the index
ran in a circle, as the least set closed under next, and `WalkAlong` what it visits.

**SelectorProofs.** `SnapshotsGrow` proves `ChainInv`: numbers, members and heartbeats
grow along the chain. From it, `FrozenStays`: a later boundary selects a later snapshot,
yet none is fresher than the tip, which is stale already. `CreatorsSettled`: a boundary
of a slot in the current or next epochs lies below the current slot, so a new block does
not change the snapshot it selects; `NumberLemmas` has the facts on division this needs.

**LedgerProofs.** `NoDoubleSpend`, `NamesUnique` and `BalancesCovered` are inductive with
`TypeOK`; the last splits on whether sender, recipient and creator coincide.
`MoneyConserved` proves `Conservation`: `MoneyMade` adds that the chain's records are
finitely many, which the sums need. A sum over a set is a fold in an unspecified order;
`NumberLemmas` shows that the order does not matter and how a sum changes with one value.

**LedgerViewsProofs.** The views are computed beside the validator and do not change what it
accepts, so what is proved of Ledger can be used. `CacheIsLedger` proves `ViewsAgree` by
`AgreeInv`; it needs `NamesConsistent`, because the ledger skips a name that another member
owns where the validator has refused the record. `GapExplained` proves `GapIsRewards` by
`GapInv`, which adds that the rewarded sets are finite and that the ledger rewards accepted
records only. `StorageVerdict` proves `StorageAgreesOnMoney` by `MoneyInv`: storage's
temporary balances are the validator's until the first carry-forward reward, its nonces until
the first transfer without a checked nonce.

**PeerSyncProofs.** `NetInv` says of every node that its store is sound (linked, its indexes
name stored blocks and lead upward), that a sync under way has a peer and a block it wants,
that the tips it has seen are stored at the peer that reported them, and of a builder's pass
(`PassesSound`) that the parent it read is a block, that a block it is about to add has that
parent, and that a judged parent is stored at a peer. `BuilderIsNotAlone`
(`BuildsOnSharedTip`) needs the last two parts: an answer may be old when it is used and the
block may be added long after the check, but a peer forgets no block. `BuiltBlockExtendsTip`
(`StaleParentKeepsTip`) needs the first: `AddBlock` has written the block's own slot before it
compares the tip's number and its block, so that a block which is no child of the tip passes
for one only where its own slot is the tip's. `NetTypeCorrect` follows.

**MempoolProofs.** `ReadersAreHarmless` proves `ReadersDropNothing` for any records, threads
and chain. Its invariant `CleanupInv` (`BatchesAccepted`) is needed because a batch is filled
at one moment and written at another: what is in it was accepted then, and is still accepted
when it is written, because the chain only grew (`GrownChain`) unless a block was taken back.
`PoolTypeCorrect` and `BuilderKeepsItsBlock` (`TogetherAsAlone`) rest on `PoolInv`, whose part
`DraftInv` says that the records drained for a block are different and, but for those of
`queue.dat`, not on the chain as long as it does not move. The block is a recursive function
over that list; induction up to the list's length (`CountingUp`) shows that it has no record
twice and no two transfers of one sender and nonce, whichever transfers the balance check
leaves out; memberships are judged by the chain alone, so what is valid on its own stays valid
in the block. That a listing in key order exists is shown by ranks (`Ranks`).

The prover has no induction over data, so each induction is written as a least
counterexample, and the existence of a recursive function as a lemma of its own.

Only model-checked: `CatchesUp`, which is liveness and, with fairness and `ENABLED`, out of
the prover's reach; and the properties of the runs that end in a violation, which do not
hold.

## 5. Not modelled

* Hashes, signatures, Merkle roots, sizes and JSON: a block that fails them is turned away
  before any state changes, and so is a record that is too long. A pending record is queued
  whether its hash and signature are right or not; Mempool has such records as `Malformed`.
  Pending records without a hash, which have no hash key, are left out.
* Floating-point rounding: amounts are exact, the tolerance is modelled.
* `ledgerStateCache`, eviction of the validation cache beyond 2048 entries, the reorg and
  `connected_latest` entries, `migrateSchema`.
* Races within one step of `AddBlock`. `DeleteAll` beside another thread's call, a crash
  inside its loop, which leaves a part of the keys, and the mempool keys that it deletes.
* A node without a pinned genesis: `safire.conf` pins it (`genesis_block`, `genesis_hash`,
  `strict_genesis=1`); without, `genesisMatches` (networkconfig.h:47) lets any first block in.
* `PERIOD_SUMMARY` and unknown record types: full validation refuses them.
* In peer sync: discovery, the peer cache, scores and purging (a configured peer is never
  skipped), handoffs, network time, rate limits, the console's push of the full chain,
  races within one request's handling (BlockDB has those of one store), forks deeper
  than the repair windows.
* In the mempool: amounts and names (Ledger and LedgerViews have them), expiry of heartbeats,
  and the fallback to `queue.dat` when no database opens. The hash key and `queue.dat` are
  looked up in one step. A block refused for its slot, creator or parent's hash, or not added
  because the node made one in the slot (`lastLocalBuiltBlockId`), is an outcome of
  `AddBlock` without a cause in the model.
* Rebuilding or adopting beside the drain's own steps on the chain: Mempool's chain changes
  in one step.
* The rest of the HTTP API, the command line and the GUI client, which format what the
  modelled operations return; the relay, NAT mapping and legacy P2P code, disabled or pure
  input and output; the user and transaction databases, which the chain code does not read.
* Vendored LevelDB, secp256k1 and the Bitcoin-derived files (`wallet/`, `validation.cpp`
  and what they need). They are most of the repository's lines and none of its own logic:
  LevelDB appears as atomic Gets and batches, signatures as checked, and the rest is not
  called. The map therefore covers the node's own core and only a small share of all lines.

## 6. Plan

1. Done: BlockDB with ChainStore, Selector, Ledger, LedgerViews.
2. Done: PeerSync, with convergence under fairness; Mempool with the builder's drain.
3. Done: a theorem for every invariant and action property of the passing runs, and for the
   refinement; the fork choice; the walks.
4. Left to prove: what two threads keep of `RebuildRepairsIndex` when `AddBlock` runs beside a
   rebuild; that the stores of PeerSync's nodes keep `UnforkedWalk`; that an adoption
   installs the chain it was asked for.
5. Left to model: handoffs and peer scores, which decide whom a node talks to first;
   `ledgerStateCache` in BlockDB's walk.
