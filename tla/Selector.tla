------------------------------ MODULE Selector ------------------------------
(***************************************************************************)
(* Who may create the next block: selector.cpp, the creator rules of        *)
(* validateConnectedChain and validateBlockForStorage (chainvalidator.cpp), *)
(* and the block builder's turn (blockbuilder.cpp) on one accepted chain.   *)
(*                                                                         *)
(* A block's number is the 15 second time slot it was made in.  An entry of *)
(* chain is a block together with the BranchSnapshot the validator takes    *)
(* after it: the members, each member's last heartbeat block and whether    *)
(* the chain holds any heartbeat.  SHA-256 picks one active member; which   *)
(* one is left open, so GetAuthorizedCreators is the set it picks from.     *)
(***************************************************************************)
EXTENDS Integers, Sequences

CONSTANTS
  Key,             \* public keys of wallets
  Founder,         \* the key that made the genesis block
  RecoveryKey,     \* recoveryPublicKey of safire.conf, by default the founder's
  GenesisBlock,    \* number of the first block
  EpochSize,       \* getEpochSizeBlocks
  SelectionLag,    \* getSelectionLagEpochs
  HeartbeatValid,  \* HEARTBEAT_VALID_BLOCKS
  HeartbeatRenew,  \* HEARTBEAT_RENEW_BLOCKS
  RecoveryWindow,  \* getRecoveryWindowBlocks
  LastSlot         \* bound: the last time slot considered

ASSUME KeyAssumption == Founder \in Key /\ RecoveryKey \in Key

ASSUME SlotAssumption ==
  /\ GenesisBlock \in Nat \ {0}
  /\ EpochSize \in Nat \ {0}
  /\ SelectionLag \in Nat \ {0}
  /\ HeartbeatValid \in Nat
  /\ HeartbeatRenew \in Nat
  /\ RecoveryWindow \in Nat \ {0}
  /\ LastSlot \in Nat
  /\ GenesisBlock <= LastSlot

VARIABLES
  chain,  \* the accepted blocks, genesis first
  slot    \* getCurrentTimeBlock

vars == <<chain, slot>>

NoBeat == -1

Entry == [number : Nat, creator : Key, members : SUBSET Key, beat : [Key -> Int], seen : BOOLEAN]

TypeOK ==
  /\ chain \in Seq(Entry)
  /\ chain # <<>>
  /\ \A i \in DOMAIN chain : chain[i].number <= LastSlot
  /\ slot \in Nat
  /\ slot <= LastSlot

Tip == chain[Len(chain)]

\* The genesis block holds the founder's JOIN_NETWORK and no heartbeat.
Genesis ==
  [number |-> GenesisBlock, creator |-> Founder, members |-> {Founder},
   beat |-> [k \in Key |-> NoBeat], seen |-> FALSE]

Init ==
  /\ chain = <<Genesis>>
  /\ slot = GenesisBlock

-----------------------------------------------------------------------------
(* CSelector.                                                              *)

GetEpochForBlock(n) == IF n <= GenesisBlock THEN 0 ELSE (n - GenesisBlock) \div EpochSize

\* Mutant: the end of the epoch after the selection epoch.
GetSelectionBoundaryBlock_Late(n) ==
  IF GetEpochForBlock(n) < SelectionLag THEN GenesisBlock
  ELSE GenesisBlock + (GetEpochForBlock(n) - SelectionLag + 2) * EpochSize - 1

GetSelectionBoundaryBlock(n) ==
  IF GetEpochForBlock(n) < SelectionLag THEN GenesisBlock
  ELSE GenesisBlock + (GetEpochForBlock(n) - SelectionLag + 1) * EpochSize - 1

\* selectionSnapshotForBlock: the last block at or below the boundary.
SelectionSnapshot(n) ==
  chain[CHOOSE i \in DOMAIN chain :
          /\ chain[i].number <= GetSelectionBoundaryBlock(n)
          /\ \A j \in DOMAIN chain :
               chain[j].number <= GetSelectionBoundaryBlock(n) => j <= i]

\* activeMemberKeysAt, activeMemberKeysForBlock
ActiveMembers(entry, n) ==
  {k \in entry.members : ~entry.seen \/ entry.beat[k] >= n - HeartbeatValid}

\* Mutant: a quiet period gives the recovery key a new window.
RecoveryExhausted_Refilled ==
  /\ slot - Tip.number <= RecoveryWindow + 1
  /\ Len(chain) >= RecoveryWindow
  /\ \A i \in DOMAIN chain : i > Len(chain) - RecoveryWindow => chain[i].creator = RecoveryKey

\* The recovery key made the last RecoveryWindow blocks, in recovery mode or not.
RecoveryExhausted ==
  /\ Len(chain) >= RecoveryWindow
  /\ \A i \in DOMAIN chain : i > Len(chain) - RecoveryWindow => chain[i].creator = RecoveryKey

CheckpointActive(n) == ActiveMembers(SelectionSnapshot(n), n)
LatestActive(n)     == ActiveMembers(Tip, n)

GetAuthorizedCreators(n) ==
  IF CheckpointActive(n) # {} THEN CheckpointActive(n)
  ELSE IF LatestActive(n) # {} THEN LatestActive(n)
  ELSE IF ~RecoveryExhausted THEN {RecoveryKey}
  ELSE {}

-----------------------------------------------------------------------------
(* The schedule.                                                           *)

\* A time slot ends, with or without a block.
Tick ==
  /\ slot < LastSlot
  /\ slot' = slot + 1
  /\ UNCHANGED chain

\* queueHeartbeatIfDue
HeartbeatDue(k) == ~Tip.seen \/ Tip.beat[k] < slot - HeartbeatRenew

\* Mutant: last_heartbeat_block is overwritten for every member.
BuildBlock_ResetsBeats(k, joins, beats) ==
  /\ Tip.number < slot
  /\ k \in GetAuthorizedCreators(slot)
  /\ k \in Tip.members
  /\ joins \cap Tip.members = {}
  /\ beats \subseteq Tip.members
  /\ HeartbeatDue(k) => k \in beats
  /\ chain' = Append(chain,
       [number |-> slot, creator |-> k,
        members |-> Tip.members \cup joins,
        beat |-> [m \in Key |-> IF m \in beats THEN slot ELSE NoBeat],
        seen |-> Tip.seen \/ beats # {}])
  /\ UNCHANGED slot

\* Mutant: the block is numbered for the slot after the one it is made in.
BuildBlock_NextSlot(k, joins, beats) ==
  /\ Tip.number < slot
  /\ k \in GetAuthorizedCreators(slot)
  /\ k \in Tip.members
  /\ joins \cap Tip.members = {}
  /\ beats \subseteq Tip.members
  /\ HeartbeatDue(k) => k \in beats
  /\ chain' = Append(chain,
       [number |-> slot + 1, creator |-> k,
        members |-> Tip.members \cup joins,
        beat |-> [m \in Key |-> IF m \in beats THEN slot ELSE Tip.beat[m]],
        seen |-> Tip.seen \/ beats # {}])
  /\ UNCHANGED slot

\* The builder whose turn it is makes the block of this slot.  joins and beats are
\* the records of its mempool; a heartbeat of its own is among them when it is due.
BuildBlock(k, joins, beats) ==
  /\ Tip.number < slot
  /\ k \in GetAuthorizedCreators(slot)
  /\ k \in Tip.members
  /\ joins \cap Tip.members = {}
  /\ beats \subseteq Tip.members
  /\ HeartbeatDue(k) => k \in beats
  /\ chain' = Append(chain,
       [number |-> slot, creator |-> k,
        members |-> Tip.members \cup joins,
        beat |-> [m \in Key |-> IF m \in beats THEN slot ELSE Tip.beat[m]],
        seen |-> Tip.seen \/ beats # {}])
  /\ UNCHANGED slot

Next ==
  \/ Tick
  \/ \E k \in Key, joins, beats \in SUBSET Key : BuildBlock(k, joins, beats)

Spec == Init /\ [][Next]_vars

-----------------------------------------------------------------------------
(* Properties.                                                             *)

\* The chain of snapshots the selection reads: numbers grow, members and heartbeats
\* are never taken back, the founder stays a member, and neither a block nor a
\* heartbeat is from the future.
ChainInv ==
  /\ chain[1].number = GenesisBlock
  /\ Founder \in chain[1].members
  /\ Tip.number <= slot
  /\ \A i \in DOMAIN chain : \A k \in Key : chain[i].beat[k] <= chain[i].number
  /\ \A i, j \in DOMAIN chain : i < j =>
       /\ chain[i].number < chain[j].number
       /\ chain[i].members \subseteq chain[j].members
       /\ chain[i].seen => chain[j].seen
       /\ \A k \in Key : chain[i].beat[k] <= chain[j].beat[k]

\* No key is authorised for the current slot.
Frozen == Tip.number < slot /\ GetAuthorizedCreators(slot) = {}

\* A chain without an authorised creator stays without one: later slots look at later
\* checkpoints, but no checkpoint is fresher than the tip, and only a block could add
\* the heartbeat that is missing.
FrozenForever == [][Frozen => Frozen']_vars

\* Creators are settled an epoch ahead: as long as the checkpoint has an active member,
\* the blocks of the current slot do not change who may create during the next epoch,
\* so nodes that have and have not received them agree on the schedule.
ScheduleSettled ==
  [][\A n \in slot .. slot + (SelectionLag - 1) * EpochSize :
       CheckpointActive(n) # {} => GetAuthorizedCreators(n)' = GetAuthorizedCreators(n)]_vars

\* "A full outage across an epoch should recover as long as nodes still share the last
\* finalized checkpoint and reconnect to peers" (notes.md).
OutageRecovers == ~Frozen
=============================================================================
