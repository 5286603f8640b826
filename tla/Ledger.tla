------------------------------- MODULE Ledger -------------------------------
(***************************************************************************)
(* The record rules of validateConnectedChain (chainvalidator.cpp): the     *)
(* ledger it keeps while it reads a chain record by record.  A behaviour is *)
(* a chain that passes; an action is a record that passes, or the start of  *)
(* the next block.  Who may create a block is in Selector; here any member  *)
(* does.                                                                    *)
(*                                                                         *)
(* Amounts are exact multiples of a smallest unit; Unit stands for 1.0 and  *)
(* Tolerance for the 0.000001 of the comparisons.  A name is its normalised *)
(* form.  A record is identified with its hash.                             *)
(***************************************************************************)
EXTENDS Integers, FiniteSets, Functions

CONSTANTS
  Key,         \* public keys
  Founder,     \* the key of the genesis block
  Name,        \* normalised public names
  NoName,      \* the empty name
  BadName,     \* a name that does not normalise ("#invalid")
  Nobody,      \* no owner
  Amount,      \* amounts and fees a record may carry
  Nonce,       \* nonces a record may carry
  Time,        \* creation times a record may carry
  Checkpoint,  \* carry-forward checkpoints a record may carry
  Period,      \* carry-forward periods a record may carry
  Unit,        \* 1.0
  Tolerance,   \* 0.000001
  MaxBlocks,   \* bound: blocks of the chain
  MaxRecords   \* bound: records of the chain

ASSUME LedgerAssumption ==
  /\ Founder \in Key
  /\ Nobody \notin Key
  /\ NoName \notin Name /\ BadName \notin Name /\ NoName # BadName
  /\ Amount \subseteq Int /\ Unit \in Amount
  /\ Unit \in Nat /\ Tolerance \in Nat
  /\ Nonce \subseteq Int /\ Checkpoint \subseteq Nat
  /\ 0 \in Time
  /\ MaxBlocks \in Nat /\ MaxRecords \in Nat

ASSUME KeyAssumption == IsFiniteSet(Key)

VARIABLES
  block,     \* the block being read
  bal,       \* balances
  nonce,     \* nonces
  members,   \* keys of members
  name,      \* the name of each member
  owner,     \* nameOwners
  beat,      \* last_heartbeat_block
  accepted,  \* acceptedRecordHashes
  carried,   \* the records behind acceptedCarryForwardKeys
  spends     \* history: the transfers read in blocks with a records_merkle_root

vars == <<block, bal, nonce, members, name, owner, beat, accepted, carried, spends>>

NoBeat == -1
GenesisNumber == 1

Block == [number : Nat, creator : Key, merkle : BOOLEAN]

IssueRecord == [type : {"ISSUE_CURRENCY"}, time : Time, sender : Key, recipient : Key, amount : Amount]
TransferRecord == [type : {"TRANSFER_CURRENCY"}, time : Time, sender : Key, recipient : Key,
                   amount : Amount, fee : Amount, nonce : Nonce]
VoteRecord == [type : {"VOTE"}, time : Time, sender : Key, fee : Amount]
JoinRecord == [type : {"JOIN_NETWORK"}, time : Time, sender : Key, name : Name \cup {NoName, BadName}]
NameRecord == [type : {"UPDATE_NAME"}, time : Time, sender : Key, name : Name \cup {NoName, BadName}]
BeatRecord == [type : {"HEART_BEAT"}, time : Time, sender : Key]
CarryRecord == [type : {"CARRY_FORWARD"}, time : Time, sender : Key, recipient : Key,
                amount : Amount, checkpoint : Checkpoint, period : Period]

Record == IssueRecord \cup TransferRecord \cup VoteRecord \cup JoinRecord \cup NameRecord
            \cup BeatRecord \cup CarryRecord

TypeOK ==
  /\ block \in Block
  /\ bal \in [Key -> Int]
  /\ nonce \in [Key -> Int]
  /\ members \subseteq Key
  /\ name \in [Key -> Name \cup {NoName}]
  /\ owner \in [Name -> Key \cup {Nobody}]
  /\ beat \in [Key -> Int]
  /\ spends \subseteq accepted \cap TransferRecord
  /\ carried \subseteq accepted \cap CarryRecord

GenesisIssue ==
  [type |-> "ISSUE_CURRENCY", time |-> 0, sender |-> Founder, recipient |-> Founder, amount |-> Unit]
GenesisJoin == [type |-> "JOIN_NETWORK", time |-> 0, sender |-> Founder, name |-> NoName]

\* The first block after genesis is open.
Init ==
  /\ block \in [number : {GenesisNumber + 1}, creator : {Founder}, merkle : BOOLEAN]
  /\ bal = [k \in Key |-> IF k = Founder THEN Unit ELSE 0]
  /\ nonce = [k \in Key |-> 0]
  /\ members = {Founder}
  /\ name = [k \in Key |-> NoName]
  /\ owner = [n \in Name |-> Nobody]
  /\ beat = [k \in Key |-> NoBeat]
  /\ accepted = {GenesisJoin, GenesisIssue}
  /\ carried = {}
  /\ spends = {}

-----------------------------------------------------------------------------
(* The rules.                                                              *)

Credit(b, k, x) == [b EXCEPT ![k] = @ + x]
Charge(b, k, x) == [b EXCEPT ![k] = @ - x]

\* Recipient, sender and creator may be the same key.
Paid(b, r) ==
  Credit(Charge(Credit(b, r.recipient, r.amount), r.sender, r.amount + r.fee), block.creator, r.fee)

FeePaid(b, r) == Credit(Charge(b, r.sender, r.fee), block.creator, r.fee)

Debit(r) == IF r.sender = r.recipient THEN r.fee ELSE r.amount + r.fee

\* branchNameTakenByAnother, nameTakenByAnother
TakenByAnother(own, n, k) == n = BadName \/ (n \in Name /\ own[n] \notin {Nobody, k})

\* claimBranchName: the claimant's previous name is free again.
Claimed(own, named, k, n) ==
  [m \in Name |-> IF m = n THEN k
                  ELSE IF m = named[k] /\ own[m] = k THEN Nobody
                  ELSE own[m]]

\* Mutant: the record hash is not looked up.
FreshRecord_Unlooked(r) == r.type # ""

\* Not in this block and not in the chain.
FreshRecord(r) == r \notin accepted

IssueOK(r) ==
  /\ 0 <= r.amount /\ r.amount <= Unit
  /\ r.sender = block.creator /\ r.recipient = block.creator

\* Mutant: any larger nonce will do.
TransferOK_NonceGrows(r) ==
  /\ r.amount > 0 /\ r.fee >= 0
  /\ block.merkle => r.nonce >= nonce[r.sender] + 1
  /\ bal[r.sender] + Tolerance >= Debit(r)

\* Mutant: the fee is left out of what a sender must have.
TransferOK_NoFee(r) ==
  /\ r.amount > 0 /\ r.fee >= 0
  /\ block.merkle => r.nonce = nonce[r.sender] + 1
  /\ bal[r.sender] + Tolerance >= r.amount

TransferOK(r) ==
  /\ r.amount > 0 /\ r.fee >= 0
  /\ block.merkle => r.nonce = nonce[r.sender] + 1
  /\ bal[r.sender] + Tolerance >= Debit(r)

VoteOK(r) == r.fee >= 0 /\ bal[r.sender] + Tolerance >= r.fee

\* Mutant: a joining member's name is not checked.
JoinOK_AnyName(r) == r.sender \notin members

JoinOK(r) ==
  /\ r.sender \notin members
  /\ r.name # NoName => ~TakenByAnother(owner, r.name, r.sender)

UpdateNameOK(r) ==
  /\ r.sender \in members
  /\ r.name # NoName
  /\ ~TakenByAnother(owner, r.name, r.sender)

HeartBeatOK(r) == r.sender \in members

CarryForwardOK(r) == r.amount >= 0 /\ r.checkpoint < block.number

KeyCarried(set, r) == \E c \in set : c.recipient = r.recipient /\ c.period = r.period

-----------------------------------------------------------------------------
(* The records.                                                            *)

Accept(r) ==
  /\ FreshRecord(r)
  /\ Cardinality(accepted) < MaxRecords
  /\ accepted' = accepted \cup {r}

Issue(r) ==
  /\ IssueOK(r)
  /\ Accept(r)
  /\ bal' = Credit(bal, r.recipient, r.amount)
  /\ UNCHANGED <<block, nonce, members, name, owner, beat, carried, spends>>

Transfer(r) ==
  /\ TransferOK(r)
  /\ Accept(r)
  /\ bal' = Paid(bal, r)
  /\ nonce' = IF block.merkle THEN [nonce EXCEPT ![r.sender] = r.nonce] ELSE nonce
  /\ spends' = IF block.merkle THEN spends \cup {r} ELSE spends
  /\ UNCHANGED <<block, members, name, owner, beat, carried>>

Vote(r) ==
  /\ VoteOK(r)
  /\ Accept(r)
  /\ bal' = FeePaid(bal, r)
  /\ UNCHANGED <<block, nonce, members, name, owner, beat, carried, spends>>

JoinNetwork(r) ==
  /\ JoinOK(r)
  /\ Accept(r)
  /\ members' = members \cup {r.sender}
  /\ name' = [name EXCEPT ![r.sender] = r.name]
  /\ owner' = Claimed(owner, name, r.sender, r.name)
  /\ UNCHANGED <<block, bal, nonce, beat, carried, spends>>

\* Mutant: the previous name is kept.
UpdateName_KeepsOld(r) ==
  /\ UpdateNameOK(r)
  /\ Accept(r)
  /\ name' = [name EXCEPT ![r.sender] = r.name]
  /\ owner' = [owner EXCEPT ![r.name] = r.sender]
  /\ UNCHANGED <<block, bal, nonce, members, beat, carried, spends>>

UpdateName(r) ==
  /\ UpdateNameOK(r)
  /\ Accept(r)
  /\ name' = [name EXCEPT ![r.sender] = r.name]
  /\ owner' = Claimed(owner, name, r.sender, r.name)
  /\ UNCHANGED <<block, bal, nonce, members, beat, carried, spends>>

HeartBeat(r) ==
  /\ HeartBeatOK(r)
  /\ Accept(r)
  /\ beat' = [beat EXCEPT ![r.sender] = block.number]
  /\ UNCHANGED <<block, bal, nonce, members, name, owner, carried, spends>>

\* The sender is paid for the first record of its recipient and period; that the amount
\* is the recipient's balance is not looked at.
CarryForward(r) ==
  /\ CarryForwardOK(r)
  /\ Accept(r)
  /\ IF KeyCarried(carried, r)
     THEN UNCHANGED <<bal, carried>>
     ELSE /\ carried' = carried \cup {r}
          /\ bal' = Credit(bal, r.sender, Unit)
  /\ UNCHANGED <<block, nonce, members, name, owner, beat, spends>>

NextBlock(creator, merkle) ==
  /\ block.number < MaxBlocks
  /\ creator \in members
  /\ block' = [number |-> block.number + 1, creator |-> creator, merkle |-> merkle]
  /\ UNCHANGED <<bal, nonce, members, name, owner, beat, accepted, carried, spends>>

\* The record's type decides which rule reads it; any other type is refused.
Read(r) ==
  \/ r \in IssueRecord /\ Issue(r)
  \/ r \in TransferRecord /\ Transfer(r)
  \/ r \in VoteRecord /\ Vote(r)
  \/ r \in JoinRecord /\ JoinNetwork(r)
  \/ r \in NameRecord /\ UpdateName(r)
  \/ r \in BeatRecord /\ HeartBeat(r)
  \/ r \in CarryRecord /\ CarryForward(r)

Next ==
  \/ \E r \in Record : Read(r)
  \/ \E k \in Key, m \in BOOLEAN : NextBlock(k, m)

Spec == Init /\ [][Next]_vars

-----------------------------------------------------------------------------
(* Properties.                                                             *)

\* Nobody spends more than the tolerance below zero, whatever a chain of rewards,
\* transfers to oneself, fees to oneself and votes does.
NoOverdraft == \A k \in Key : bal[k] >= -Tolerance

\* The replay and double-spend guard of blocks with a records_merkle_root: the nonces a
\* sender has used are 1, 2, ... without a gap, and no two transfers share one.
NonceSequence ==
  /\ \A k \in Key : nonce[k] >= 0
  /\ \A r \in spends : 1 <= r.nonce /\ r.nonce <= nonce[r.sender]
  /\ \A r, s \in spends : r.sender = s.sender /\ r.nonce = s.nonce => r = s
  /\ \A k \in Key : \A n \in 1 .. nonce[k] : \E r \in spends : r.sender = k /\ r.nonce = n

\* nameOwners and the members' names agree, so no two members have one name and a name
\* a member gave up is free again.
NamesConsistent ==
  /\ \A k \in Key, n \in Name : owner[n] = k <=> name[k] = n
  /\ \A k \in Key \ members : name[k] = NoName

\* No record creates or destroys money but the accepted rewards, each counted once: the
\* balances sum to the issue records on the chain plus the carry-forward rewards, so a
\* replayed record or a fee that is charged twice would show.
Conservation ==
  LET issued == {r \in accepted : r.type = "ISSUE_CURRENCY"}
  IN  SumFunction(bal) = SumFunction([r \in issued |-> r.amount]) + Unit * Cardinality(carried)
=============================================================================
