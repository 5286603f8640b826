----------------------------- MODULE LedgerViews -----------------------------
(***************************************************************************)
(* The other ledgers of the program, computed beside the validator's ledger *)
(* of module Ledger for the same chain:                                     *)
(*   built   CLedgerState::build (ledgerstate.cpp), read from the chain;    *)
(*   cached  applyBlockToCachedState (chainvalidator.cpp), the ledger       *)
(*           validateBlockForStorage keeps by block hash;                   *)
(*   parent, temp  what validateBlockForStorage judges a block by: the      *)
(*           ledger of the parent, and balances and nonces within the block;*)
(*   plain   balancesThroughBlock (ledgerstate.cpp), by block;              *)
(*   made    accountBalanceAtBlock (carryforward.cpp), by block.            *)
(***************************************************************************)
EXTENDS Ledger, Sequences

CONSTANTS
  CarryAge,    \* carryForwardCheckpointAgeBlocks
  CarryPeriod  \* carryForwardPeriodBlocks

ASSUME CarryAssumption == CarryAge \in Nat \ {0} /\ CarryPeriod \in Nat \ {0}

VARIABLES built, cached, parent, temp, plain, made

viewVars == <<built, cached, parent, temp, plain, made>>
allVars == <<vars, viewVars>>

Branch ==
  [bal |-> bal, nonce |-> nonce, members |-> members, name |-> name, owner |-> owner,
   beat |-> beat, carried |-> carried]

InitViews ==
  /\ Init
  /\ built = Branch
  /\ cached = Branch
  /\ parent = Branch
  /\ temp = [bal |-> bal, nonce |-> nonce]
  /\ plain = <<bal, bal>>
  /\ made = <<bal, bal>>

-----------------------------------------------------------------------------
(* One record in each ledger.                                              *)

ClampedAmount(r) == IF 0 <= r.amount /\ r.amount <= Unit THEN r.amount ELSE Unit

\* Mutant: vote fees are forgotten.
Moved_NoVote(b, r, issued) ==
  CASE r \in IssueRecord -> Credit(b, r.recipient, issued)
    [] r \in TransferRecord -> Paid(b, r)
    [] OTHER -> b

\* applyRecordToBalances; issued is the amount a reward is worth.
Moved(b, r, issued) ==
  CASE r \in IssueRecord -> Credit(b, r.recipient, issued)
    [] r \in TransferRecord -> Paid(b, r)
    [] r \in VoteRecord -> FeePaid(b, r)
    [] OTHER -> b

MovedClamped(b, r) == Moved(b, r, IF r \in IssueRecord THEN ClampedAmount(r) ELSE 0)
MovedAsIs(b, r) == Moved(b, r, IF r \in IssueRecord THEN r.amount ELSE 0)

\* accountBalanceAtBlock: a transfer to oneself is only credited.
MovedMade(b, r) ==
  CASE r \in TransferRecord /\ r.sender = r.recipient ->
         Credit(Credit(b, r.recipient, r.amount), block.creator, r.fee)
    [] r \in CarryRecord /\ CarryForwardOK(r) /\ ~KeyCarried(carried, r) ->
         Credit(b, r.sender, Unit)
    [] OTHER -> MovedAsIs(b, r)

\* carryForwardSnapshotMatches
SnapshotMatches(r) ==
  LET balance == IF r.checkpoint < GenesisNumber THEN 0 ELSE plain[r.checkpoint][r.recipient]
  IN  -Tolerance < balance - r.amount /\ balance - r.amount < Tolerance

\* A carry-forward record that earns its reward in ledger v.
Rewarded(v, r) ==
  /\ r \in CarryRecord
  /\ CarryForwardOK(r)
  /\ SnapshotMatches(r)
  /\ ~KeyCarried(v.carried, r)

NonceAfter(v, r) ==
  IF r \in TransferRecord /\ r.nonce > v.nonce[r.sender]
  THEN [v.nonce EXCEPT ![r.sender] = r.nonce] ELSE v.nonce

RewardAfter(v, b, r) == IF Rewarded(v, r) THEN Credit(b, r.sender, Unit) ELSE b
CarriedAfter(v, r) == IF Rewarded(v, r) THEN v.carried \cup {r} ELSE v.carried

\* claimPublicName
Claims(v, r) ==
  \/ r \in JoinRecord /\ r.sender \notin v.members /\ r.name \in Name
       /\ v.owner[r.name] \in {Nobody, r.sender}
  \/ r \in NameRecord /\ r.sender \in v.members /\ r.name \in Name
       /\ v.owner[r.name] \in {Nobody, r.sender}

BuiltAfter(v, r) ==
  [bal     |-> RewardAfter(v, MovedClamped(v.bal, r), r),
   nonce   |-> NonceAfter(v, r),
   members |-> IF r \in JoinRecord THEN v.members \cup {r.sender} ELSE v.members,
   name    |-> IF Claims(v, r) THEN [v.name EXCEPT ![r.sender] = r.name] ELSE v.name,
   owner   |-> IF Claims(v, r) THEN Claimed(v.owner, v.name, r.sender, r.name) ELSE v.owner,
   beat    |-> IF r \in BeatRecord THEN [v.beat EXCEPT ![r.sender] = block.number] ELSE v.beat,
   carried |-> CarriedAfter(v, r)]

\* Mutant: the reward of a carry-forward record is paid whenever its key is new.
CachedAfter_Unmatched(v, r) ==
  [v EXCEPT
   !.bal     = IF r \in CarryRecord /\ ~KeyCarried(v.carried, r)
               THEN Credit(v.bal, r.sender, Unit) ELSE MovedAsIs(v.bal, r),
   !.nonce   = NonceAfter(v, r),
   !.members = IF r \in JoinRecord THEN @ \cup {r.sender} ELSE @,
   !.name    = IF r \in JoinRecord \cup NameRecord
               THEN [v.name EXCEPT ![r.sender] = r.name] ELSE @,
   !.beat    = IF r \in BeatRecord THEN [v.beat EXCEPT ![r.sender] = block.number] ELSE @,
   !.carried = IF r \in CarryRecord /\ ~KeyCarried(v.carried, r) THEN @ \cup {r} ELSE @]

\* applyRecordToCachedState: names are taken as they come.  It keeps no name owners; a
\* name is taken when another key of names has it (nameTakenByAnother).
CachedAfter(v, r) ==
  LET joined == IF r \in JoinRecord THEN v.members \cup {r.sender} ELSE v.members
      named  == /\ r \in JoinRecord \cup NameRecord
                /\ r \in JoinRecord => r.name # NoName
                /\ r.sender \in joined
  IN  [v EXCEPT
       !.bal     = RewardAfter(v, MovedAsIs(v.bal, r), r),
       !.nonce   = NonceAfter(v, r),
       !.members = joined,
       !.name    = IF named THEN [@ EXCEPT ![r.sender] = r.name] ELSE @,
       !.beat    = IF r \in BeatRecord /\ r.sender \in v.members
                   THEN [@ EXCEPT ![r.sender] = block.number] ELSE @,
       !.carried = CarriedAfter(v, r)]

-----------------------------------------------------------------------------
(* validateBlockForStorage on a block that extends the tip.                *)

NameTaken(v, n, k) == n = BadName \/ (n # NoName /\ \E j \in Key \ {k} : v.name[j] = n)

\* Mutant: the fee of a transfer is not asked for.
StorageOK_NoFee(r) ==
  \/ r \in IssueRecord /\ IssueOK(r)
  \/ r \in TransferRecord /\ r.amount > 0 /\ r.fee >= 0
       /\ block.merkle => r.nonce = temp.nonce[r.sender] + 1
       /\ temp.bal[r.sender] + Tolerance >= r.amount
  \/ r \in VoteRecord /\ r.fee >= 0 /\ temp.bal[r.sender] + Tolerance >= r.fee

StorageOK(r) ==
  \/ r \in IssueRecord /\ IssueOK(r)
  \/ /\ r \in TransferRecord
     /\ r.amount > 0 /\ r.fee >= 0
     /\ block.merkle => r.nonce = temp.nonce[r.sender] + 1
     /\ temp.bal[r.sender] + Tolerance >= Debit(r)
  \/ r \in VoteRecord /\ r.fee >= 0 /\ temp.bal[r.sender] + Tolerance >= r.fee
  \/ r \in JoinRecord /\ r.sender \notin parent.members /\ ~NameTaken(parent, r.name, r.sender)
  \/ /\ r \in NameRecord
     /\ r.sender \in parent.members
     /\ r.name # NoName /\ ~NameTaken(parent, r.name, r.sender)
  \/ r \in BeatRecord /\ r.sender \in parent.members
  \/ r \in CarryRecord /\ r.amount >= 0

TempAfter(r) ==
  [bal   |-> MovedAsIs(temp.bal, r),
   nonce |-> IF r \in TransferRecord /\ block.merkle
             THEN [temp.nonce EXCEPT ![r.sender] = r.nonce] ELSE temp.nonce]

\* The verdict of module Ledger on the next record of the open block.
RecordOK(r) ==
  \/ r \in IssueRecord /\ IssueOK(r)
  \/ r \in TransferRecord /\ TransferOK(r)
  \/ r \in VoteRecord /\ VoteOK(r)
  \/ r \in JoinRecord /\ JoinOK(r)
  \/ r \in NameRecord /\ UpdateNameOK(r)
  \/ r \in BeatRecord /\ HeartBeatOK(r)
  \/ r \in CarryRecord /\ CarryForwardOK(r)

-----------------------------------------------------------------------------

ReadAll(r) ==
  /\ Read(r)
  /\ built' = BuiltAfter(built, r)
  /\ cached' = CachedAfter(cached, r)
  /\ temp' = TempAfter(r)
  /\ plain' = [plain EXCEPT ![block.number] = MovedClamped(@, r)]
  /\ made' = [made EXCEPT ![block.number] = MovedMade(@, r)]
  /\ UNCHANGED parent

NextBlockAll(creator, merkle) ==
  /\ NextBlock(creator, merkle)
  /\ parent' = cached
  /\ temp' = [bal |-> cached.bal, nonce |-> cached.nonce]
  /\ plain' = Append(plain, plain[block.number])
  /\ made' = Append(made, made[block.number])
  /\ UNCHANGED <<built, cached>>

\* queueCarryForwardIfDue on a node whose tip is block latest; no carry-forward of the
\* period is accepted or pending.
MadeCarryForward(r, latest) ==
  /\ ~KeyCarried(carried, r)
  /\ latest - GenesisNumber >= CarryAge
  /\ r.sender = r.recipient
  /\ r.checkpoint = latest - CarryAge
  /\ r.period = r.checkpoint \div CarryPeriod
  /\ r.amount = made[r.checkpoint][r.recipient]
  /\ r.amount > 0

NextViews ==
  \/ \E r \in Record : ReadAll(r)
  \/ \E k \in Key, m \in BOOLEAN : NextBlockAll(k, m)

SpecViews == InitViews /\ [][NextViews]_allVars

\* Chains of today's builders: every block has a records_merkle_root and carry-forward
\* records are the ones carryforward.cpp makes.
NextMade ==
  \/ \E r \in Record : /\ r \in CarryRecord => MadeCarryForward(r, block.number - 1)
                       /\ ReadAll(r)
  \/ \E k \in Key : NextBlockAll(k, TRUE)

SpecMade == InitViews /\ block.merkle /\ [][NextMade]_allVars

-----------------------------------------------------------------------------
(* Properties.                                                             *)

\* On a chain that validateConnectedChain passes, the ledger kept record by record in
\* the validation cache is the ledger built from the chain, so a verdict does not depend
\* on whether the parent's ledger was cached; and both have the validator's members,
\* names and heartbeats.
ViewsAgree ==
  /\ \A f \in {"bal", "nonce", "members", "name", "beat", "carried"} : cached[f] = built[f]
  /\ built.members = members /\ built.name = name /\ built.owner = owner /\ built.beat = beat

Rewards(set, k) == Cardinality({c \in set : c.sender = k})

\* The validator's balances and the ledger's differ by the carry-forward rewards that
\* one of them pays and the other does not, and by nothing else.
GapIsRewards ==
  \A k \in Key : bal[k] - built.bal[k] = Unit * (Rewards(carried, k) - Rewards(built.carried, k))

\* "Balances for users can be validated using transaction history data as well as carry
\* forward data" (README.md): a carry-forward record made by a node matches the
\* history, so the validator and the ledger pay the same.
CarryForwardMatchesHistory == built.bal = bal

\* On money storage and full validation agree: as long as no carry-forward reward has
\* been paid and every transfer was made under the nonce rule, they give the same
\* verdict on every reward, transfer and vote, although one keeps temporary balances on
\* top of the cached ledger and the other its own.
StorageAgreesOnMoney ==
  (carried = {} /\ accepted \cap TransferRecord \subseteq spends) =>
    \A r \in IssueRecord \cup TransferRecord \cup VoteRecord :
      FreshRecord(r) => (StorageOK(r) <=> RecordOK(r))
=============================================================================
