------------------------------- MODULE Mempool -------------------------------
(***************************************************************************)
(* The pending records of a node: the LevelDB mempool of functions.cpp      *)
(* (mempool:record:<sequence>:<hash>, mempool:hash:<hash>,                  *)
(* mempool:next_sequence) and the legacy queue.dat, used without a lock by  *)
(* the threads that queue records (HTTP server, console) and by the block   *)
(* builder, which drains it into a block.                                   *)
(*                                                                         *)
(* One Get or Write of the database is a step; the Gets of a list are one   *)
(* step, and so are the list and the cleanup inside parseQueueRecords.      *)
(* A record is its hash.  Records are usable (sized right, heartbeats not   *)
(* expired): unusable ones are dropped by every reading like accepted ones. *)
(* They are queued without any other check, so what the validator refuses   *)
(* them for is part of the model: a bad hash, signature, amount or payee    *)
(* (Malformed), a repetition, a nonce, a membership, the length of the      *)
(* block.  Balances and names are left out (module Ledger has them): which  *)
(* transfers the builder leaves out for their balance is a free choice, and *)
(* so is the verdict on a block with a vote or a name (Open).               *)
(***************************************************************************)
EXTENDS Naturals, Sequences, FiniteSets, SequencesExt

CONSTANTS
  Record,      \* record hashes, ordered
  Transfer,    \* those of transfers
  Heartbeat,   \* those of the node's own heartbeats
  Sender,      \* the sender of a record
  Nonce,       \* the nonce of a transfer
  Join,        \* the records that make their sender a member
  MemberOnly,  \* those that only a member may send: heartbeats, renames
  Malformed,   \* those that are never valid: hash, signature, amount, fee, payee of a reward
  Open,        \* those that balances and names decide on: votes, renames, joins with a name
  Founders,    \* the members that the genesis block makes
  MaxRecords,  \* MAX_BLOCK_RECORDS without the creator's reward
  Legacy,      \* the records in queue.dat at the start
  Client,      \* the threads that queue records
  Builder,     \* the block builder's thread
  MaxSeq,      \* bound on the sequence number
  MaxBlocks,   \* bound on the chain
  MaxReorgs    \* bound on blocks taken back

None == 0

ASSUME RecordAssumption ==
  /\ Record \subseteq Nat \ {None}
  /\ IsFiniteSet(Record)
  /\ Transfer \subseteq Record
  /\ Heartbeat \subseteq Record \ Transfer
  /\ Legacy \subseteq Record
  /\ Nonce \in [Transfer -> Nat \ {0}]
  /\ DOMAIN Sender = Record
  /\ Join \cup MemberOnly \cup Open \subseteq Record \ Transfer
  /\ Malformed \subseteq Record
  /\ Builder \notin Client
  /\ {MaxSeq, MaxReorgs} \subseteq Nat
  /\ {MaxBlocks, MaxRecords} \subseteq Nat \ {0}

VARIABLES
  pool,      \* the record keys: <<sequence, record>>
  hashKeys,  \* the records with a hash key
  nextSeq,   \* mempool:next_sequence
  legacy,    \* queue.dat
  chain,     \* the accepted chain: the record sets of its blocks
  job,       \* what each thread is in the middle of
  gone,      \* the record keys that a thread's cleanup batch deletes
  draft,     \* the builder's list: records to build with, or to queue again
  keys,      \* the record keys that clearDatabaseMempool has listed
  hashes,    \* the hash keys that it has listed
  parent,    \* the chain that the block being built extends, or <<>>
  moved,     \* the chain has changed since the builder read it
  reorgs     \* blocks taken back so far

db   == <<pool, hashKeys, nextSeq, legacy>>
work == <<draft, keys, hashes, parent>>
net  == <<chain, moved, reorgs>>
vars == <<db, net, job, gone, work>>

Thread == Client \cup {Builder}
Wallet == {Sender[r] : r \in Transfer}

\* The step that a thread has to do next, on a record or for a sender, with the sequence
\* or the nonce it has read.
Job(op, arg, num) == [op |-> op, arg |-> arg, num |-> num]
Idle == Job("idle", None, 0)

Ops == {"idle", "nonce", "clean", "check", "lookup", "sequence", "put", "prune", "parse", "keys",
        "hashes", "clear", "block", "replace"}

TypeOK ==
  /\ pool \subseteq (1..MaxSeq) \X Record
  /\ hashKeys \subseteq Record
  /\ nextSeq \in 1..(MaxSeq + 1)
  /\ legacy \subseteq Record
  /\ Len(chain) \in 1..MaxBlocks
  /\ \A i \in 1..Len(chain) : chain[i] \subseteq Record
  /\ \A t \in Thread :
       /\ job[t] \in [op : Ops, arg : Record \cup Wallet \cup {None}, num : Nat]
       /\ gone[t] \subseteq (1..MaxSeq) \X Record
  /\ \A i \in 1..Len(draft) : draft[i] \in Record
  /\ keys \subseteq (1..MaxSeq) \X Record
  /\ hashes \subseteq Record
  /\ moved \in BOOLEAN
  /\ reorgs \in 0..MaxReorgs

Init ==
  /\ pool = {}
  /\ hashKeys = {}
  /\ nextSeq = 1
  /\ legacy = Legacy
  /\ chain = <<{}>>
  /\ job = [t \in Thread |-> Idle]
  /\ gone = [t \in Thread |-> {}]
  /\ draft = <<>>
  /\ keys = {}
  /\ hashes = {}
  /\ parent = <<>>
  /\ moved = FALSE
  /\ reorgs = 0

-----------------------------------------------------------------------------
(* The accepted chain.                                                     *)

\* recordExistsInAcceptedChain
Recorded(c) == UNION {c[i] : i \in 1..Len(c)}
Accepted == Recorded(chain)

SentBy(s, S) == {r \in S \cap Transfer : Sender[r] = s}

\* The ledger's nonce of a sender: nonces are accepted one by one from 1.
NonceAt(c, s) == Cardinality(SentBy(s, Recorded(c)))

Members(c) == Founders \cup {Sender[r] : r \in Join \cap Recorded(c)}

\* The validator's reasons to refuse a record of a block on top of chain c, after the records
\* before.  Memberships are judged by the parent's ledger, not by the block.
Refused(c, r, before) ==
  \/ r \in Malformed
  \/ r \in Recorded(c) \cup before
  \/ r \in Transfer /\ Nonce[r] # Cardinality(SentBy(Sender[r], Recorded(c) \cup before)) + 1
  \/ r \in Join /\ Sender[r] \in Members(c)
  \/ r \in MemberOnly /\ Sender[r] \notin Members(c)

\* What the validator may say to a block's records.  It counts the debits and rewards that
\* includePendingTransfer counts, the creator's fees and the votes': without a vote no
\* transfer that the builder put in overspends.
Verdicts(c, records) ==
  IF \/ Len(records) > MaxRecords
     \/ \E i \in 1..Len(records) : Refused(c, records[i], {records[k] : k \in 1..(i - 1)})
  THEN {FALSE}
  ELSE IF \E i \in 1..Len(records) : records[i] \in Open THEN BOOLEAN
  ELSE {TRUE}

\* A peer's block extends the chain, or replaces its last block.
PeerBlock(records) ==
  /\ Len(chain) < MaxBlocks
  /\ TRUE \in Verdicts(chain, records)
  /\ chain' = Append(chain, ToSet(records))
  /\ moved' = TRUE
  /\ UNCHANGED <<db, job, gone, work, reorgs>>

Reorg(records) ==
  /\ Len(chain) > 1
  /\ reorgs < MaxReorgs
  /\ TRUE \in Verdicts(Front(chain), records)
  /\ ToSet(records) # Last(chain)
  /\ chain' = Append(Front(chain), ToSet(records))
  /\ moved' = TRUE
  /\ reorgs' = reorgs + 1
  /\ UNCHANGED <<db, job, gone, work>>

-----------------------------------------------------------------------------
(* addToQueue.                                                             *)

Goto(t, next) == job' = [job EXCEPT ![t] = next]

\* Where addToQueue returns to: the rest of replacePendingQueueRecords, if any.
Return(t) == IF t = Builder /\ draft # <<>> THEN Job("replace", None, 0) ELSE Idle

\* A record submitted or announced to the node, or made by it ("check").  One that is
\* accepted is not queued again, and neither is one with a hash key or in queue.dat.
AddCheck(t, r) ==
  /\ \/ t \in Client /\ job[t] = Idle /\ r \notin Heartbeat
     \/ job[t] = Job("check", r, 0)
  /\ Goto(t, IF r \in Accepted THEN Return(t) ELSE Job("lookup", r, 0))
  /\ UNCHANGED <<db, net, gone, work>>

AddLookup(t) ==
  /\ job[t].op = "lookup"
  /\ Goto(t, IF job[t].arg \in hashKeys \cup legacy THEN Return(t)
             ELSE Job("sequence", job[t].arg, 0))
  /\ UNCHANGED <<db, net, gone, work>>

AddSequence(t) ==
  /\ job[t].op = "sequence"
  /\ nextSeq <= MaxSeq
  /\ Goto(t, Job("put", job[t].arg, nextSeq))
  /\ UNCHANGED <<db, net, gone, work>>

AddPut(t) ==
  /\ job[t].op = "put"
  /\ pool' = pool \cup {<<job[t].num, job[t].arg>>}
  /\ hashKeys' = hashKeys \cup {job[t].arg}
  /\ nextSeq' = job[t].num + 1
  /\ Goto(t, Return(t))
  /\ UNCHANGED <<legacy, net, gone, work>>

-----------------------------------------------------------------------------
(* peekQueueRecords.                                                       *)

\* Mutant: transfers whose nonce is used are taken for accepted.
Stale_ByNonce ==
  {e \in pool : \/ e[2] \in Accepted
                \/ e[2] \in Transfer /\ Nonce[e[2]] <= NonceAt(chain, Sender[e[2]])}

\* The entries of accepted records, which every reading of the mempool deletes.
Stale == {e \in pool : e[2] \in Accepted}

\* The members of a set in an order, as a sequence.
InOrder(S, Before(_, _)) ==
  [i \in 1..Cardinality(S) |-> CHOOSE x \in S : Cardinality({y \in S : Before(y, x)}) = i - 1]

\* The pending records in the order of their keys, then those of queue.dat; each is listed
\* where it comes first.
Read == {e[2] : e \in pool \ Stale} \cup legacy

Listed ==
  LET place == [r \in Read |-> Min({e[1] : e \in {f \in pool \ Stale : f[2] = r}} \cup {MaxSeq + 1})]
      Before(q, r) == place[q] < place[r] \/ (place[q] = place[r] /\ q < r)
  IN  InOrder(Read, Before)

\* The list is read; accepted records are deleted afterwards, then the caller goes on.
Peek(t, next) ==
  IF Stale = {} THEN Goto(t, next) /\ UNCHANGED gone
  ELSE Goto(t, [next EXCEPT !.op = "clean"]) /\ gone' = [gone EXCEPT ![t] = Stale]

PeekClean(t) ==
  /\ job[t].op = "clean"
  /\ pool' = pool \ gone[t]
  /\ hashKeys' = hashKeys \ {e[2] : e \in gone[t]}
  /\ gone' = [gone EXCEPT ![t] = {}]
  /\ Goto(t, IF job[t].arg # None THEN [job[t] EXCEPT !.op = "check"]
             ELSE IF t = Builder /\ draft # <<>> THEN Job("prune", None, 0) ELSE Idle)
  /\ UNCHANGED <<nextSeq, legacy, net, work>>

\* A status request, the console, a rebroadcast: the list is read and that is all.
Show(t) ==
  /\ job[t] = Idle
  /\ Stale # {}
  /\ Peek(t, Idle)
  /\ UNCHANGED <<db, net, work>>

\* A wallet's transfer: the sender's accepted nonce is read, then the pending transfers.
SendNonce(t, s) ==
  /\ t \in Client
  /\ job[t] = Idle
  /\ Goto(t, Job("nonce", s, NonceAt(chain, s)))
  /\ UNCHANGED <<db, net, gone, work>>

SendPeek(t, r) ==
  LET pending == {Nonce[q] : q \in SentBy(Sender[r], ToSet(Listed))}
  IN  /\ job[t].op = "nonce"
      /\ Sender[r] = job[t].arg
      /\ Nonce[r] = 1 + Max(pending \cup {job[t].num})
      /\ Peek(t, Job("check", r, 0))
      /\ UNCHANGED <<db, net, work>>

\* queueHeartbeatIfDue
HeartbeatDue(r) ==
  /\ job[Builder] = Idle
  /\ r \in Heartbeat
  /\ Heartbeat \cap ToSet(Listed) = {}
  /\ Peek(Builder, Job("check", r, 0))
  /\ UNCHANGED <<db, net, work>>

-----------------------------------------------------------------------------
(* The builder drains the mempool, to build a block or to prune it.        *)

\* pruneAcceptedQueueRecords looks at every listed record again, and rewrites the queue
\* without those that were accepted meanwhile.
PruneBegin ==
  /\ job[Builder] = Idle
  /\ Listed # <<>>
  /\ draft' = Listed
  /\ Peek(Builder, Job("prune", None, 0))
  /\ UNCHANGED <<db, net, keys, hashes, parent>>

PruneCheck ==
  LET order == InOrder({i \in 1..Len(draft) : draft[i] \notin Accepted}, <)
      kept  == [i \in 1..Len(order) |-> draft[order[i]]]
  IN  /\ job[Builder].op = "prune"
      /\ IF kept = draft THEN draft' = <<>> /\ Goto(Builder, Idle)
         ELSE draft' = kept /\ Goto(Builder, Job("parse", None, 0))
      /\ UNCHANGED <<db, net, gone, keys, hashes, parent>>

\* The tip and its ledger are read for a block.
BuildBegin ==
  /\ job[Builder] = Idle
  /\ Len(chain) < MaxBlocks
  /\ parent' = chain
  /\ moved' = FALSE
  /\ Goto(Builder, Job("parse", None, 0))
  /\ UNCHANGED <<db, chain, reorgs, gone, draft, keys, hashes>>

\* parseQueueRecords: the list, with its cleanup; a rewrite does not use the list.
ParseList ==
  /\ job[Builder].op = "parse"
  /\ draft' = IF parent = <<>> THEN draft ELSE Listed
  /\ pool' = pool \ Stale
  /\ hashKeys' = hashKeys \ {e[2] : e \in Stale}
  /\ Goto(Builder, Job("keys", None, 0))
  /\ UNCHANGED <<nextSeq, legacy, net, gone, keys, hashes, parent>>

\* clearDatabaseMempool lists the record keys, then the hash keys, then deletes them.
ClearKeys ==
  /\ job[Builder].op = "keys"
  /\ keys' = pool
  /\ Goto(Builder, Job("hashes", None, 0))
  /\ UNCHANGED <<db, net, gone, draft, hashes, parent>>

ClearHashes ==
  /\ job[Builder].op = "hashes"
  /\ hashes' = hashKeys
  /\ Goto(Builder, Job("clear", None, 0))
  /\ UNCHANGED <<db, net, gone, draft, keys, parent>>

Clear ==
  /\ job[Builder].op = "clear"
  /\ pool' = pool \ keys
  /\ hashKeys' = hashKeys \ hashes
  /\ legacy' = {}
  /\ keys' = {}
  /\ hashes' = {}
  /\ Goto(Builder, IF parent = <<>> THEN Return(Builder) ELSE Job("block", None, 0))
  /\ UNCHANGED <<nextSeq, net, gone, draft, parent>>

Replace ==
  /\ job[Builder].op = "replace"
  /\ Goto(Builder, Job("check", Head(draft), 0))
  /\ draft' = Tail(draft)
  /\ UNCHANGED <<db, net, gone, keys, hashes, parent>>

\* Mutant: the nonces of the records already included are not counted.
IncludePendingTransfer_Chain(r, included, poor) ==
  r \in Transfer => Nonce[r] = NonceAt(parent, Sender[r]) + 1 /\ r \notin poor

\* includePendingTransfer: records other than transfers are always included, transfers when
\* the nonce is their sender's next and the balance suffices.
IncludePendingTransfer(r, included, poor) ==
  r \in Transfer =>
    /\ Nonce[r] = NonceAt(parent, Sender[r]) + Cardinality(SentBy(Sender[r], included)) + 1
    /\ r \notin poor

\* The records of the block, in the order of the list; the transfers in poor are those
\* whose sender cannot pay at their place.
Block(poor) ==
  LET upTo[i \in 0..Len(draft)] ==
        IF i = 0 THEN <<>>
        ELSE IF IncludePendingTransfer(draft[i], ToSet(upTo[i - 1]), poor)
          THEN Append(upTo[i - 1], draft[i])
        ELSE upTo[i - 1]
  IN  upTo[Len(draft)]

\* Mutant: the block is put on top of whatever the chain has become.
AddBlock_AnyParent(poor, valid) ==
  /\ job[Builder].op = "block"
  /\ valid => TRUE \in Verdicts(chain, Block(poor))
  /\ chain' = IF valid THEN Append(chain, ToSet(Block(poor))) ELSE chain
  /\ draft' = <<>>
  /\ parent' = <<>>
  /\ Goto(Builder, Idle)
  /\ UNCHANGED <<db, moved, reorgs, gone, keys, hashes>>

\* AddBlock, its result ignored: a block whose parent is no longer the tip, which is refused
\* for its records or its header (slot, creator, hash of the parent: modules Selector and
\* PeerSync), or which is not added because the node made one in this slot, changes nothing
\* on the chain; its records are gone from the mempool.
AddBlock(poor, valid) ==
  /\ job[Builder].op = "block"
  /\ valid => chain = parent /\ TRUE \in Verdicts(chain, Block(poor))
  /\ chain' = IF valid THEN Append(chain, ToSet(Block(poor))) ELSE chain
  /\ draft' = <<>>
  /\ parent' = <<>>
  /\ Goto(Builder, Idle)
  /\ UNCHANGED <<db, moved, reorgs, gone, keys, hashes>>

Crash ==
  /\ \E t \in Thread : job[t] # Idle
  /\ job' = [t \in Thread |-> Idle]
  /\ gone' = [t \in Thread |-> {}]
  /\ draft' = <<>>
  /\ keys' = {}
  /\ hashes' = {}
  /\ parent' = <<>>
  /\ UNCHANGED <<db, net>>

Next ==
  \/ \E t \in Thread :
       \/ AddLookup(t) \/ AddSequence(t) \/ AddPut(t) \/ PeekClean(t) \/ Show(t)
       \/ \E r \in Record : AddCheck(t, r)
       \/ \E s \in Wallet : SendNonce(t, s)
       \/ \E r \in Transfer : SendPeek(t, r)
  \/ \E r \in Record : HeartbeatDue(r)
  \/ PruneBegin \/ PruneCheck \/ Replace
  \/ BuildBegin \/ ParseList \/ ClearKeys \/ ClearHashes \/ Clear
  \/ \E poor \in SUBSET Transfer, valid \in BOOLEAN : AddBlock(poor, valid)
  \/ \E records \in {<<>>} \cup {<<r>> : r \in Record} : PeerBlock(records) \/ Reorg(records)
  \/ Crash

Spec == Init /\ [][Next]_vars

-----------------------------------------------------------------------------
(* Properties.                                                             *)

Pending == {e[2] : e \in pool} \cup legacy

\* Reading the mempool deletes from it: status requests, announcements, nonces, heartbeats
\* and rebroadcasts all do.  Unless a block was taken back meanwhile, none of them takes
\* out a record that is not on the chain; only the builder's drain does.
ReadersDropNothing ==
  [][\A r \in Pending \ Pending' : r \in Accepted \/ reorgs > 0 \/ Clear]_vars

\* The chain is a sequence and, unless a block was taken back, every record that a cleanup
\* batch is about to delete is still accepted: the chain only grows while it waits.
CleanupInv ==
  /\ Len(chain) \in Nat
  /\ chain = [i \in 1..Len(chain) |-> chain[i]]
  /\ DOMAIN gone = Thread
  /\ reorgs \in Nat
  /\ reorgs = 0 => \A t \in Thread : \A e \in gone[t] : e[2] \in Accepted

\* A record that the validator has nothing against on the chain; a transfer's nonce and
\* balance are the builder's to judge.
GoodAlone(r) == IF r \in Transfer THEN r \notin Malformed ELSE Verdicts(chain, <<r>>) = {TRUE}

\* Records queued twice, transfers given the same nonce by two threads, records in any order
\* of their keys and records that a peer's block took meanwhile do not spoil the block that
\* the builder drains the mempool for: when the chain has not moved since it was read, the
\* records that includePendingTransfer lets through are valid together if each is on its
\* own, unless they are too many or queue.dat, which is read unfiltered, had an accepted one.
TogetherAsAlone ==
  job[Builder].op = "block" /\ ~moved /\ Legacy \cap Accepted = {} =>
    \A poor \in SUBSET Transfer :
      /\ Len(Block(poor)) <= MaxRecords
      /\ \A i \in 1..Len(Block(poor)) : GoodAlone(Block(poor)[i])
      => Verdicts(chain, Block(poor)) = {TRUE}

\* "Read queued records from file into a vector of structures and clear the queue": the
\* records that parseQueueRecords deletes are those it has read, or accepted ones.
ClearsWhatItRead ==
  [][Clear /\ parent # <<>> =>
       \A e \in pool \ pool' : e[2] \in ToSet(draft) \cup Accepted]_vars
=============================================================================
