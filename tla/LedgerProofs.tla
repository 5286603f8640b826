---------------------------- MODULE LedgerProofs ----------------------------
(***************************************************************************)
(* Proofs about Ledger, for every set of keys, names, amounts and nonces.   *)
(***************************************************************************)
EXTENDS Ledger, NumberLemmas

-----------------------------------------------------------------------------
(* Balances.                                                               *)

\* Credit and Charge change one balance.
LEMMA CreditFacts ==
  ASSUME NEW b \in [Key -> Int], NEW k \in Key, NEW x \in Int
  PROVE  /\ Credit(b, k, x) \in [Key -> Int]
         /\ \A j \in Key : Credit(b, k, x)[j] = IF j = k THEN b[j] + x ELSE b[j]
         /\ Charge(b, k, x) \in [Key -> Int]
         /\ \A j \in Key : Charge(b, k, x)[j] = IF j = k THEN b[j] - x ELSE b[j]
BY DEF Credit, Charge

LEMMA AmountInt == Amount \subseteq Int /\ Unit \in Nat /\ Tolerance \in Nat
BY LedgerAssumption

LEMMA BlockType ==
  ASSUME TypeOK
  PROVE  block.creator \in Key /\ block.number \in Nat /\ block.merkle \in BOOLEAN
BY DEF TypeOK, Block

\* What a transfer does to each balance.
LEMMA PaidFacts ==
  ASSUME NEW b \in [Key -> Int], NEW r \in TransferRecord, block.creator \in Key
  PROVE  /\ Paid(b, r) \in [Key -> Int]
         /\ \A j \in Key :
              Paid(b, r)[j] = b[j] + (IF j = r.recipient THEN r.amount ELSE 0)
                                   - (IF j = r.sender THEN r.amount + r.fee ELSE 0)
                                   + (IF j = block.creator THEN r.fee ELSE 0)
<1> DEFINE b1 == Credit(b, r.recipient, r.amount)
           b2 == Charge(b1, r.sender, r.amount + r.fee)
           b3 == Credit(b2, block.creator, r.fee)
<1>1. r.recipient \in Key /\ r.sender \in Key /\ r.amount \in Int /\ r.fee \in Int
      /\ r.amount + r.fee \in Int
  <2>1. r.recipient \in Key /\ r.sender \in Key /\ r.amount \in Amount /\ r.fee \in Amount
    BY DEF TransferRecord
  <2>2. r.amount \in Int /\ r.fee \in Int
    BY <2>1, AmountInt
  <2> QED
    BY <2>1, <2>2
<1>2. Paid(b, r) = b3
  BY DEF Paid
<1>3. /\ b1 \in [Key -> Int]
      /\ \A j \in Key : b1[j] = IF j = r.recipient THEN b[j] + r.amount ELSE b[j]
  BY <1>1 DEF Credit
<1> HIDE DEF b1
<1>4. /\ b2 \in [Key -> Int]
      /\ \A j \in Key : b2[j] = IF j = r.sender THEN b1[j] - (r.amount + r.fee) ELSE b1[j]
  BY <1>1, <1>3 DEF Charge
<1> HIDE DEF b2
<1>5. /\ b3 \in [Key -> Int]
      /\ \A j \in Key : b3[j] = IF j = block.creator THEN b2[j] + r.fee ELSE b2[j]
  BY <1>1, <1>4 DEF Credit
<1> HIDE DEF b3
<1>6. ASSUME NEW j \in Key
      PROVE  b3[j] = b[j] + (IF j = r.recipient THEN r.amount ELSE 0)
                          - (IF j = r.sender THEN r.amount + r.fee ELSE 0)
                          + (IF j = block.creator THEN r.fee ELSE 0)
  <2>1. b[j] \in Int /\ b1[j] \in Int /\ b2[j] \in Int
    BY <1>3, <1>4
  <2> QED
    BY <1>1, <1>3, <1>4, <1>5, <2>1
<1> QED
  BY <1>2, <1>5, <1>6

LEMMA FeePaidFacts ==
  ASSUME NEW b \in [Key -> Int], NEW r \in VoteRecord, block.creator \in Key
  PROVE  /\ FeePaid(b, r) \in [Key -> Int]
         /\ \A j \in Key :
              FeePaid(b, r)[j] = b[j] - (IF j = r.sender THEN r.fee ELSE 0)
                                      + (IF j = block.creator THEN r.fee ELSE 0)
<1> DEFINE b1 == Charge(b, r.sender, r.fee)
           b2 == Credit(b1, block.creator, r.fee)
<1>1. r.sender \in Key /\ r.fee \in Int
  BY AmountInt DEF VoteRecord
<1>2. FeePaid(b, r) = b2
  BY DEF FeePaid
<1>3. /\ b1 \in [Key -> Int]
      /\ \A j \in Key : b1[j] = IF j = r.sender THEN b[j] - r.fee ELSE b[j]
  BY <1>1 DEF Charge
<1> HIDE DEF b1
<1>4. /\ b2 \in [Key -> Int]
      /\ \A j \in Key : b2[j] = IF j = block.creator THEN b1[j] + r.fee ELSE b1[j]
  BY <1>1, <1>3 DEF Credit
<1> HIDE DEF b2
<1>5. ASSUME NEW j \in Key
      PROVE  b2[j] = b[j] - (IF j = r.sender THEN r.fee ELSE 0)
                          + (IF j = block.creator THEN r.fee ELSE 0)
  <2>1. b[j] \in Int /\ b1[j] \in Int
    BY <1>3
  <2> QED
    BY <1>1, <1>3, <1>4, <2>1
<1> QED
  BY <1>2, <1>4, <1>5

-----------------------------------------------------------------------------
(* The type invariant.                                                     *)

LEMMA TypeInit == Init => TypeOK
<1> SUFFICES ASSUME Init PROVE TypeOK
  OBVIOUS
<1>1. block \in Block
  BY LedgerAssumption DEF Init, Block, GenesisNumber
<1>2. bal \in [Key -> Int] /\ nonce \in [Key -> Int] /\ beat \in [Key -> Int]
  BY LedgerAssumption DEF Init, NoBeat
<1>3. members \subseteq Key /\ name \in [Key -> Name \cup {NoName}]
      /\ owner \in [Name -> Key \cup {Nobody}]
  BY LedgerAssumption DEF Init
<1> QED
  BY <1>1, <1>2, <1>3 DEF TypeOK, Init

\* A claimed name gets its claimant, every other name keeps its owner or is freed.
LEMMA ClaimedType ==
  ASSUME NEW own \in [Name -> Key \cup {Nobody}], NEW named, NEW k \in Key, NEW n
  PROVE  Claimed(own, named, k, n) \in [Name -> Key \cup {Nobody}]
BY DEF Claimed

LEMMA TypeStep ==
  ASSUME TypeOK, [Next]_vars
  PROVE  TypeOK'
<1> USE DEF TypeOK
<1>0. block.creator \in Key /\ block.number \in Nat /\ block.merkle \in BOOLEAN
  BY BlockType
<1>1. ASSUME NEW r \in IssueRecord, Issue(r) PROVE TypeOK'
  <2>1. r.recipient \in Key /\ r.amount \in Int
    BY AmountInt DEF IssueRecord
  <2>2. bal' \in [Key -> Int]
    BY <1>1, <2>1 DEF Issue, Credit
  <2> QED
    BY <1>1, <2>2 DEF Issue, Accept
<1>2. ASSUME NEW r \in TransferRecord, Transfer(r) PROVE TypeOK'
  <2>1. bal' \in [Key -> Int]
    BY <1>0, <1>2, PaidFacts DEF Transfer
  <2>2. r.sender \in Key /\ r.nonce \in Int
    BY LedgerAssumption DEF TransferRecord
  <2>3. nonce' \in [Key -> Int]
    BY <1>2, <2>2 DEF Transfer
  <2>4. spends' \subseteq accepted' \cap TransferRecord
    BY <1>2 DEF Transfer, Accept
  <2> QED
    BY <1>2, <2>1, <2>3, <2>4 DEF Transfer, Accept
<1>3. ASSUME NEW r \in VoteRecord, Vote(r) PROVE TypeOK'
  <2>1. bal' \in [Key -> Int]
    BY <1>0, <1>3, FeePaidFacts DEF Vote
  <2> QED
    BY <1>3, <2>1 DEF Vote, Accept
<1>4. ASSUME NEW r \in JoinRecord, JoinNetwork(r) PROVE TypeOK'
  <2>1. r.sender \in Key /\ r.name \in Name \cup {NoName, BadName}
    BY DEF JoinRecord
  <2>2. r.name # BadName
    BY <1>4, LedgerAssumption DEF JoinNetwork, JoinOK, TakenByAnother
  <2>3. name' \in [Key -> Name \cup {NoName}]
    BY <1>4, <2>1, <2>2 DEF JoinNetwork
  <2>4. owner' \in [Name -> Key \cup {Nobody}]
    BY <1>4, <2>1, ClaimedType DEF JoinNetwork
  <2> QED
    BY <1>4, <2>1, <2>3, <2>4 DEF JoinNetwork, Accept
<1>5. ASSUME NEW r \in NameRecord, UpdateName(r) PROVE TypeOK'
  <2>1. r.sender \in Key /\ r.name \in Name \cup {NoName, BadName}
    BY DEF NameRecord
  <2>2. r.name # BadName
    BY <1>5 DEF UpdateName, UpdateNameOK, TakenByAnother
  <2>3. name' \in [Key -> Name \cup {NoName}]
    BY <1>5, <2>1, <2>2 DEF UpdateName
  <2>4. owner' \in [Name -> Key \cup {Nobody}]
    BY <1>5, <2>1, ClaimedType DEF UpdateName
  <2> QED
    BY <1>5, <2>3, <2>4 DEF UpdateName, Accept
<1>6. ASSUME NEW r \in BeatRecord, HeartBeat(r) PROVE TypeOK'
  <2>1. beat' = [beat EXCEPT ![r.sender] = block.number] /\ block.number \in Int
    BY <1>0, <1>6 DEF HeartBeat
  <2> DEFINE n == block.number
  <2> HIDE DEF n
  <2>2. beat' = [beat EXCEPT ![r.sender] = n] /\ n \in Int
    BY <2>1 DEF n
  <2>3. beat' \in [Key -> Int]
    BY <2>2
  <2> QED
    BY <1>6, <2>3 DEF HeartBeat, Accept
<1>7. ASSUME NEW r \in CarryRecord, CarryForward(r) PROVE TypeOK'
  <2>1. r.sender \in Key
    BY DEF CarryRecord
  <2>2. bal' \in [Key -> Int]
    BY <1>7, <2>1, AmountInt DEF CarryForward, Credit
  <2>3. carried' \subseteq accepted' \cap CarryRecord
    BY <1>7 DEF CarryForward, Accept
  <2> QED
    BY <1>7, <2>2, <2>3 DEF CarryForward, Accept
<1>8. ASSUME NEW k \in Key, NEW m \in BOOLEAN, NextBlock(k, m) PROVE TypeOK'
  BY <1>0, <1>8 DEF NextBlock, Block
<1>9. CASE UNCHANGED vars
  BY <1>9 DEF vars
<1> QED
  BY <1>1, <1>2, <1>3, <1>4, <1>5, <1>6, <1>7, <1>8, <1>9 DEF Next, Read

\* The ledger keeps its types: in particular no invalid name is ever stored.
THEOREM TypeCorrect == Spec => []TypeOK
<1>1. TypeOK /\ [Next]_vars => TypeOK'
  BY TypeStep
<1> QED
  BY TypeInit, <1>1, PTL DEF Spec

-----------------------------------------------------------------------------
(* No overdraft.                                                           *)

LEMMA OverdraftStep ==
  ASSUME TypeOK, NoOverdraft, [Next]_vars
  PROVE  NoOverdraft'
<1>0. /\ block.creator \in Key
      /\ bal \in [Key -> Int]
      /\ Tolerance \in Nat
      /\ \A k \in Key : bal[k] \in Int /\ bal[k] >= -Tolerance
  BY BlockType, AmountInt DEF TypeOK, NoOverdraft
<1>1. ASSUME NEW r \in IssueRecord, Issue(r) PROVE NoOverdraft'
  <2>1. r.recipient \in Key /\ r.amount \in Int /\ r.amount >= 0
    BY <1>1, AmountInt DEF IssueRecord, Issue, IssueOK
  <2>2. \A k \in Key : bal'[k] = IF k = r.recipient THEN bal[k] + r.amount ELSE bal[k]
    BY <1>0, <1>1 DEF Issue, Credit
  <2> QED
    BY <1>0, <2>1, <2>2 DEF NoOverdraft
<1>2. ASSUME NEW r \in TransferRecord, Transfer(r) PROVE NoOverdraft'
  <2>1. r.sender \in Key /\ r.recipient \in Key /\ r.amount \in Int /\ r.fee \in Int
    <3>1. r.sender \in Key /\ r.recipient \in Key /\ r.amount \in Amount /\ r.fee \in Amount
      BY DEF TransferRecord
    <3> QED
      BY <3>1, AmountInt
  <2>2. r.amount > 0 /\ r.fee >= 0 /\ bal[r.sender] + Tolerance >= Debit(r)
    BY <1>2 DEF Transfer, TransferOK
  <2>3. Debit(r) = IF r.sender = r.recipient THEN r.fee ELSE r.amount + r.fee
    BY DEF Debit
  <2>4. ASSUME NEW k \in Key PROVE bal'[k] >= -Tolerance
    <3>1. bal'[k] = bal[k] + (IF k = r.recipient THEN r.amount ELSE 0)
                           - (IF k = r.sender THEN r.amount + r.fee ELSE 0)
                           + (IF k = block.creator THEN r.fee ELSE 0)
      BY <1>0, <1>2, PaidFacts DEF Transfer
    <3>2. bal[k] \in Int /\ bal[k] >= -Tolerance
      BY <1>0
    <3>3. CASE k = r.sender
      BY <1>0, <2>1, <2>2, <2>3, <3>1, <3>2, <3>3
    <3>4. CASE k # r.sender
      BY <1>0, <2>1, <2>2, <3>1, <3>2, <3>4
    <3> QED
      BY <3>3, <3>4
  <2> QED
    BY <2>4 DEF NoOverdraft
<1>3. ASSUME NEW r \in VoteRecord, Vote(r) PROVE NoOverdraft'
  <2>1. r.sender \in Key /\ r.fee \in Int
    BY AmountInt DEF VoteRecord
  <2>2. r.fee >= 0 /\ bal[r.sender] + Tolerance >= r.fee
    BY <1>3 DEF Vote, VoteOK
  <2>3. ASSUME NEW k \in Key PROVE bal'[k] >= -Tolerance
    <3>1. bal'[k] = bal[k] - (IF k = r.sender THEN r.fee ELSE 0)
                           + (IF k = block.creator THEN r.fee ELSE 0)
      BY <1>0, <1>3, FeePaidFacts DEF Vote
    <3> QED
      BY <1>0, <2>1, <2>2, <3>1
  <2> QED
    BY <2>3 DEF NoOverdraft
<1>4. ASSUME NEW r \in CarryRecord, CarryForward(r) PROVE NoOverdraft'
  <2>1. r.sender \in Key
    BY DEF CarryRecord
  <2>2. CASE KeyCarried(carried, r)
    BY <1>4, <2>2 DEF CarryForward, NoOverdraft
  <2>3. CASE ~KeyCarried(carried, r)
    <3>1. \A k \in Key : bal'[k] = IF k = r.sender THEN bal[k] + Unit ELSE bal[k]
      BY <1>0, <1>4, <2>3 DEF CarryForward, Credit
    <3> QED
      BY <1>0, <3>1, AmountInt DEF NoOverdraft
  <2> QED
    BY <2>2, <2>3
<1>5. CASE UNCHANGED bal
  BY <1>5 DEF NoOverdraft
<1> QED
  BY <1>1, <1>2, <1>3, <1>4, <1>5
     DEF Next, Read, JoinNetwork, UpdateName, HeartBeat, NextBlock, vars

\* Whatever records a valid chain holds, no balance is below minus the tolerance.
THEOREM BalancesCovered == Spec => []NoOverdraft
<1>1. Init => NoOverdraft
  BY AmountInt DEF Init, NoOverdraft
<1>2. TypeOK /\ NoOverdraft /\ [Next]_vars => TypeOK' /\ NoOverdraft'
  BY TypeStep, OverdraftStep
<1> QED
  BY <1>1, <1>2, TypeInit, PTL DEF Spec

-----------------------------------------------------------------------------
(* Nonces.                                                                 *)

LEMMA NonceStep ==
  ASSUME TypeOK, NonceSequence, [Next]_vars
  PROVE  NonceSequence'
<1>1. CASE UNCHANGED <<nonce, spends>>
  BY <1>1 DEF NonceSequence
<1>2. ASSUME NEW r \in TransferRecord, Transfer(r) PROVE NonceSequence'
  <2>1. CASE ~block.merkle
    BY <1>1, <1>2, <2>1 DEF Transfer
  <2>2. CASE block.merkle
    <3>1. r.sender \in Key
      BY DEF TransferRecord
    <3>2. /\ nonce \in [Key -> Int]
          /\ \A k \in Key : nonce[k] \in Int /\ nonce[k] >= 0
          /\ \A s \in spends : s.sender \in Key /\ s.nonce \in Int
      <4>1. nonce \in [Key -> Int] /\ spends \subseteq TransferRecord
        BY DEF TypeOK
      <4>2. \A k \in Key : nonce[k] >= 0
        BY DEF NonceSequence
      <4>3. \A s \in spends : s.sender \in Key /\ s.nonce \in Nonce
        BY <4>1 DEF TransferRecord
      <4> QED
        BY <4>1, <4>2, <4>3, LedgerAssumption
    <3>3. r.nonce = nonce[r.sender] + 1
      BY <1>2, <2>2 DEF Transfer, TransferOK
    <3>4. /\ \A k \in Key : nonce'[k] = IF k = r.sender THEN nonce[k] + 1 ELSE nonce[k]
          /\ spends' = spends \cup {r}
      BY <1>2, <2>2, <3>1, <3>2, <3>3 DEF Transfer
    <3>5. \A s \in spends : 1 <= s.nonce /\ s.nonce <= nonce[s.sender]
      BY DEF NonceSequence
    <3>6. \A k \in Key : nonce'[k] >= 0
      BY <3>2, <3>4
    <3>7. \A s \in spends' : 1 <= s.nonce /\ s.nonce <= nonce'[s.sender]
      BY <3>1, <3>2, <3>3, <3>4, <3>5
    <3>8. \A s \in spends : ~(s.sender = r.sender /\ s.nonce = r.nonce)
      BY <3>1, <3>2, <3>3, <3>5
    <3>9. \A s, t \in spends' : s.sender = t.sender /\ s.nonce = t.nonce => s = t
      BY <3>4, <3>8 DEF NonceSequence
    <3>10. ASSUME NEW k \in Key, NEW n \in 1 .. nonce'[k]
           PROVE  \E s \in spends' : s.sender = k /\ s.nonce = n
      <4>1. CASE n \in 1 .. nonce[k]
        BY <3>4, <4>1 DEF NonceSequence
      <4>2. CASE n \notin 1 .. nonce[k]
        <5>1. k = r.sender /\ n = r.nonce
          BY <3>2, <3>3, <3>4, <4>2
        <5> QED
          BY <3>4, <5>1
      <4> QED
        BY <4>1, <4>2
    <3> QED
      BY <3>6, <3>7, <3>9, <3>10 DEF NonceSequence
  <2> QED
    BY <2>1, <2>2
<1> QED
  BY <1>1, <1>2 DEF Next, Read, Issue, Vote, JoinNetwork, UpdateName, HeartBeat, CarryForward,
     NextBlock, vars

\* In blocks with a records_merkle_root no transfer is replayed, no nonce is used twice
\* and none is skipped.
THEOREM NoDoubleSpend == Spec => []NonceSequence
<1>1. Init => NonceSequence
  BY DEF Init, NonceSequence
<1>2. TypeOK /\ NonceSequence /\ [Next]_vars => TypeOK' /\ NonceSequence'
  BY TypeStep, NonceStep
<1> QED
  BY <1>1, <1>2, TypeInit, PTL DEF Spec

-----------------------------------------------------------------------------
(* Names.                                                                  *)

\* A claim keeps the names and their owners consistent.
LEMMA ClaimConsistent ==
  ASSUME TypeOK, NamesConsistent, NEW k \in Key, NEW n \in Name \cup {NoName},
         n \in Name => owner[n] \in {Nobody, k},
         name' = [name EXCEPT ![k] = n],
         owner' = Claimed(owner, name, k, n),
         n # NoName \/ name[k] = NoName,
         members \subseteq members', k \in members'
  PROVE  NamesConsistent'
<1>1. /\ \A j \in Key : name'[j] = IF j = k THEN n ELSE name[j]
      /\ \A m \in Name : owner'[m] = IF m = n THEN k
                                     ELSE IF m = name[k] /\ owner[m] = k THEN Nobody
                                     ELSE owner[m]
  BY DEF TypeOK, Claimed
<1>2. Nobody \notin Key /\ NoName \notin Name
  BY LedgerAssumption
<1>3. \A j \in Key, m \in Name : owner[m] = j <=> name[j] = m
  BY DEF NamesConsistent
<1>4. ASSUME NEW j \in Key, NEW m \in Name PROVE owner'[m] = j <=> name'[j] = m
  <2>1. CASE m = n
    BY <1>1, <1>2, <1>3, <2>1
  <2>2. CASE m # n
    BY <1>1, <1>2, <1>3, <2>2
  <2> QED
    BY <2>1, <2>2
<1>5. \A j \in Key \ members' : name'[j] = NoName
  BY <1>1 DEF NamesConsistent
<1> QED
  BY <1>4, <1>5 DEF NamesConsistent

LEMMA NamesStep ==
  ASSUME TypeOK, NamesConsistent, [Next]_vars
  PROVE  NamesConsistent'
<1>1. CASE UNCHANGED <<members, name, owner>>
  BY <1>1 DEF NamesConsistent
<1>2. ASSUME NEW r \in JoinRecord, JoinNetwork(r) PROVE NamesConsistent'
  <2>1. r.sender \in Key /\ r.name \in Name \cup {NoName, BadName}
    BY DEF JoinRecord
  <2>2. r.name # BadName /\ (r.name \in Name => owner[r.name] \in {Nobody, r.sender})
    BY <1>2, LedgerAssumption DEF JoinNetwork, JoinOK, TakenByAnother
  <2>3. name[r.sender] = NoName
    BY <1>2, <2>1 DEF JoinNetwork, JoinOK, NamesConsistent
  <2> QED
    BY <1>2, <2>1, <2>2, <2>3, ClaimConsistent DEF JoinNetwork
<1>3. ASSUME NEW r \in NameRecord, UpdateName(r) PROVE NamesConsistent'
  <2>1. r.sender \in Key /\ r.name \in Name \cup {NoName, BadName}
    BY DEF NameRecord
  <2>2. r.name # BadName /\ r.name # NoName
        /\ (r.name \in Name => owner[r.name] \in {Nobody, r.sender})
    BY <1>3 DEF UpdateName, UpdateNameOK, TakenByAnother
  <2>3. r.sender \in members /\ members' = members
    BY <1>3 DEF UpdateName, UpdateNameOK
  <2> QED
    BY <1>3, <2>1, <2>2, <2>3, ClaimConsistent DEF UpdateName
<1> QED
  BY <1>1, <1>2, <1>3 DEF Next, Read, Issue, Transfer, Vote, HeartBeat, CarryForward,
     NextBlock, vars

\* On a valid chain no two members have the same name.
THEOREM NamesUnique == Spec => []NamesConsistent
<1>1. Init => NamesConsistent
  BY LedgerAssumption DEF Init, NamesConsistent
<1>2. TypeOK /\ NamesConsistent /\ [Next]_vars => TypeOK' /\ NamesConsistent'
  BY TypeStep, NamesStep
<1> QED
  BY <1>1, <1>2, TypeInit, PTL DEF Spec

-----------------------------------------------------------------------------
(* A record is of one kind, and the kind decides what it does.             *)

LEMMA RecordKinds ==
  ASSUME NEW r
  PROVE  /\ r \in IssueRecord => r.type = "ISSUE_CURRENCY"
         /\ r \in TransferRecord => r.type = "TRANSFER_CURRENCY"
         /\ r \in VoteRecord => r.type = "VOTE"
         /\ r \in JoinRecord => r.type = "JOIN_NETWORK"
         /\ r \in NameRecord => r.type = "UPDATE_NAME"
         /\ r \in BeatRecord => r.type = "HEART_BEAT"
         /\ r \in CarryRecord => r.type = "CARRY_FORWARD"
BY DEF IssueRecord, TransferRecord, VoteRecord, JoinRecord, NameRecord, BeatRecord, CarryRecord

\* The record that was read passed the rule of its kind.
LEMMA ReadKinds ==
  ASSUME NEW r, Read(r)
  PROVE  /\ r \in IssueRecord => Issue(r)
         /\ r \in TransferRecord => Transfer(r)
         /\ r \in VoteRecord => Vote(r)
         /\ r \in JoinRecord => JoinNetwork(r)
         /\ r \in NameRecord => UpdateName(r)
         /\ r \in BeatRecord => HeartBeat(r)
         /\ r \in CarryRecord => CarryForward(r)
         /\ r \in Record
BY RecordKinds DEF Read, Record

LEMMA RecordTypes ==
  ASSUME NEW r
  PROVE  /\ r \in IssueRecord => r.recipient \in Key /\ r.amount \in Int
         /\ r \in TransferRecord => r.sender \in Key /\ r.nonce \in Int /\ r.amount \in Int /\ r.fee \in Int
         /\ r \in VoteRecord => r.sender \in Key /\ r.fee \in Int
         /\ r \in JoinRecord => r.sender \in Key /\ r.name \in Name \cup {NoName, BadName}
         /\ r \in NameRecord => r.sender \in Key /\ r.name \in Name \cup {NoName, BadName}
         /\ r \in BeatRecord => r.sender \in Key
         /\ r \in CarryRecord => r.sender \in Key
<1>1. Amount \subseteq Int /\ Nonce \subseteq Int
  BY LedgerAssumption
<1>2. r \in IssueRecord => r.recipient \in Key /\ r.amount \in Int
  BY <1>1 DEF IssueRecord
<1>3. r \in TransferRecord => r.sender \in Key /\ r.nonce \in Int /\ r.amount \in Int /\ r.fee \in Int
  <2>1. r \in TransferRecord => r.sender \in Key /\ r.nonce \in Nonce /\ r.amount \in Amount
                                /\ r.fee \in Amount
    BY DEF TransferRecord
  <2> QED
    BY <1>1, <2>1
<1>4. r \in VoteRecord => r.sender \in Key /\ r.fee \in Int
  BY <1>1 DEF VoteRecord
<1>5. /\ r \in JoinRecord => r.sender \in Key /\ r.name \in Name \cup {NoName, BadName}
      /\ r \in NameRecord => r.sender \in Key /\ r.name \in Name \cup {NoName, BadName}
  BY DEF JoinRecord, NameRecord
<1>6. (r \in BeatRecord => r.sender \in Key) /\ (r \in CarryRecord => r.sender \in Key)
  BY DEF BeatRecord, CarryRecord
<1> QED
  BY <1>2, <1>3, <1>4, <1>5, <1>6

-----------------------------------------------------------------------------
(* Money is conserved.                                                     *)

LEMMA SumMoved ==
  ASSUME NEW b \in [Key -> Int], NEW k \in Key, NEW x \in Int
  PROVE  /\ SumFunction(b) \in Int
         /\ SumFunction(Credit(b, k, x)) = SumFunction(b) + x
         /\ SumFunction(Charge(b, k, x)) = SumFunction(b) - x
<1>1. IsFiniteSet(Key) /\ DOMAIN b = Key /\ (\A j \in Key : b[j] \in Int)
  BY KeyAssumption
<1>2. SumFunction(b) = SumFunctionOnSet(b, Key)
  BY <1>1 DEF SumFunction
<1>3. SumFunctionOnSet(b, Key) \in Int
  BY <1>1, SumInt
<1>4. SumFunction(Credit(b, k, x)) = SumFunctionOnSet(b, Key) + x
  <2> DEFINE h == Credit(b, k, x)
  <2>1. DOMAIN h = Key /\ \A j \in Key : h[j] = IF j = k THEN b[j] + x ELSE b[j]
    BY DEF Credit
  <2> HIDE DEF h
  <2>2. SumFunctionOnSet(h, Key) = SumFunctionOnSet(b, Key) + x
    BY <1>1, <2>1, SumChange
  <2>3. SumFunction(h) = SumFunctionOnSet(h, Key)
    BY <2>1 DEF SumFunction
  <2> QED
    BY <2>2, <2>3 DEF h
<1>5. SumFunction(Charge(b, k, x)) = SumFunctionOnSet(b, Key) - x
  <2> DEFINE h == Charge(b, k, x)
             d == -x
  <2>1. d \in Int /\ DOMAIN h = Key /\ \A j \in Key : h[j] = IF j = k THEN b[j] + d ELSE b[j]
    BY DEF Charge
  <2> HIDE DEF h, d
  <2>2. SumFunctionOnSet(h, Key) = SumFunctionOnSet(b, Key) + d
    BY <1>1, <2>1, SumChange
  <2>3. SumFunction(h) = SumFunctionOnSet(h, Key)
    BY <2>1 DEF SumFunction
  <2> QED
    BY <1>3, <2>2, <2>3 DEF h, d
<1> QED
  BY <1>2, <1>3, <1>4, <1>5

\* A transfer and a vote move money and make none, whoever sends, receives and creates.
LEMMA PaidKeepsSum ==
  ASSUME NEW b \in [Key -> Int], NEW r \in TransferRecord, block.creator \in Key
  PROVE  SumFunction(Paid(b, r)) = SumFunction(b)
<1> DEFINE b1 == Credit(b, r.recipient, r.amount)
           b2 == Charge(b1, r.sender, r.amount + r.fee)
           b3 == Credit(b2, block.creator, r.fee)
<1>1. r.recipient \in Key /\ r.sender \in Key /\ r.amount \in Int /\ r.fee \in Int
      /\ r.amount + r.fee \in Int
  <2>1. r.recipient \in Key
    BY DEF TransferRecord
  <2> QED
    BY <2>1, RecordTypes
<1>2. b1 \in [Key -> Int] /\ SumFunction(b1) = SumFunction(b) + r.amount
  <2>1. b1 \in [Key -> Int]
    BY <1>1 DEF Credit
  <2> QED
    BY <1>1, <2>1, SumMoved
<1> HIDE DEF b1
<1>3. b2 \in [Key -> Int] /\ SumFunction(b2) = SumFunction(b1) - (r.amount + r.fee)
  <2>1. b2 \in [Key -> Int]
    BY <1>1, <1>2 DEF Charge
  <2> QED
    BY <1>1, <1>2, <2>1, SumMoved
<1> HIDE DEF b2
<1>4. SumFunction(b3) = SumFunction(b2) + r.fee
  BY <1>1, <1>3, SumMoved
<1>5. Paid(b, r) = b3
  BY DEF Paid, b1, b2
<1>6. SumFunction(b) \in Int
  BY <1>1, SumMoved
<1> QED
  BY <1>1, <1>2, <1>3, <1>4, <1>5, <1>6

LEMMA FeePaidKeepsSum ==
  ASSUME NEW b \in [Key -> Int], NEW r \in VoteRecord, block.creator \in Key
  PROVE  SumFunction(FeePaid(b, r)) = SumFunction(b)
<1> DEFINE b1 == Charge(b, r.sender, r.fee)
           b2 == Credit(b1, block.creator, r.fee)
<1>1. r.sender \in Key /\ r.fee \in Int
  BY RecordTypes
<1>2. b1 \in [Key -> Int] /\ SumFunction(b1) = SumFunction(b) - r.fee
  <2>1. b1 \in [Key -> Int]
    BY <1>1 DEF Charge
  <2> QED
    BY <1>1, <2>1, SumMoved
<1> HIDE DEF b1
<1>3. SumFunction(b2) = SumFunction(b1) + r.fee
  BY <1>1, <1>2, SumMoved
<1>4. FeePaid(b, r) = b2
  BY DEF FeePaid, b1
<1>5. SumFunction(b) \in Int
  BY <1>1, SumMoved
<1> QED
  BY <1>1, <1>2, <1>3, <1>4, <1>5

Issued == {r \in accepted : r.type = "ISSUE_CURRENCY"}

IssuedMoney == SumFunction([r \in Issued |-> r.amount])

\* The chain's records are finitely many, and the sum of the balances is what was issued.
MoneyMade ==
  /\ TypeOK
  /\ IsFiniteSet(accepted) /\ accepted \subseteq Record
  /\ Conservation

LEMMA ConservationForm ==
  Conservation <=> SumFunction(bal) = IssuedMoney + Unit * Cardinality(carried)
BY DEF Conservation, IssuedMoney, Issued

LEMMA IssuedFacts ==
  ASSUME IsFiniteSet(accepted), accepted \subseteq Record
  PROVE  /\ IsFiniteSet(Issued) /\ Issued \subseteq IssueRecord
         /\ \A r \in Issued : r.amount \in Int
         /\ IssuedMoney \in Int
<1>1. IsFiniteSet(Issued)
  BY FS_Subset DEF Issued
<1>2. Issued \subseteq IssueRecord
  BY RecordKinds DEF Issued, Record
<1>3. \A r \in Issued : r.amount \in Int
  BY <1>2, RecordTypes
<1> DEFINE f == [r \in Issued |-> r.amount]
<1>4. DOMAIN f = Issued /\ \A r \in Issued : f[r] \in Int
  BY <1>3
<1> HIDE DEF f
<1>5. SumFunctionOnSet(f, Issued) \in Int
  BY <1>1, <1>4, SumInt
<1>6. IssuedMoney \in Int
  BY <1>4, <1>5 DEF IssuedMoney, SumFunction, f
<1> QED
  BY <1>1, <1>2, <1>3, <1>6

\* A record that was read counts once: it was not on the chain before.
LEMMA ReadAccepts ==
  ASSUME NEW r, Read(r)
  PROVE  r \notin accepted /\ accepted' = accepted \cup {r}
BY DEF Read, Issue, Transfer, Vote, JoinNetwork, UpdateName, HeartBeat, CarryForward, Accept,
       FreshRecord

LEMMA IssuedStep ==
  ASSUME MoneyMade, NEW r, Read(r)
  PROVE  IssuedMoney' = IF r \in IssueRecord THEN IssuedMoney + r.amount ELSE IssuedMoney
<1>0. r \notin accepted /\ accepted' = accepted \cup {r} /\ r \in Record
  BY ReadAccepts, ReadKinds
<1>1. /\ IsFiniteSet(Issued) /\ Issued \subseteq IssueRecord
      /\ \A x \in Issued : x.amount \in Int
      /\ IssuedMoney \in Int
  BY IssuedFacts DEF MoneyMade
<1>2. CASE r \in IssueRecord
  <2> DEFINE f == [x \in Issued |-> x.amount]
             g == [x \in Issued \cup {r} |-> x.amount]
  <2>1. Issued' = Issued \cup {r} /\ r \notin Issued
    BY <1>0, <1>2, RecordKinds DEF Issued
  <2>2. r.amount \in Int
    BY <1>2, RecordTypes
  <2>3. /\ DOMAIN g = Issued \cup {r} /\ DOMAIN f = Issued /\ g[r] = r.amount
        /\ \A x \in Issued : g[x] = f[x]
        /\ \A x \in Issued \cup {r} : g[x] \in Int
    BY <1>1, <2>2
  <2>4. IssuedMoney' = SumFunction(g)
    BY <2>1 DEF IssuedMoney
  <2>5. IssuedMoney = SumFunction(f)
    BY DEF IssuedMoney
  <2> HIDE DEF f, g
  <2>6. SumFunctionOnSet(g, Issued \cup {r}) = g[r] + SumFunctionOnSet(g, Issued)
    BY <1>1, <2>1, <2>3, SumAdd
  <2>7. SumFunctionOnSet(g, Issued) = SumFunctionOnSet(f, Issued)
    BY <1>1, <2>3, SumSame
  <2>8. SumFunction(g) = SumFunctionOnSet(g, Issued \cup {r}) /\ SumFunction(f) = SumFunctionOnSet(f, Issued)
    BY <2>3 DEF SumFunction
  <2>9. IssuedMoney' = r.amount + IssuedMoney
    BY <2>3, <2>4, <2>5, <2>6, <2>7, <2>8
  <2> QED
    BY <1>1, <1>2, <2>2, <2>9
<1>3. CASE r \notin IssueRecord
  <2>1. r.type # "ISSUE_CURRENCY"
    BY <1>0, <1>3, RecordKinds DEF Record
  <2>2. Issued' = Issued
    BY <1>0, <2>1 DEF Issued
  <2> QED
    BY <1>3, <2>2 DEF IssuedMoney
<1> QED
  BY <1>2, <1>3

LEMMA ConservationRead ==
  ASSUME MoneyMade, NEW r, Read(r)
  PROVE  Conservation'
<1>0. /\ block.creator \in Key /\ bal \in [Key -> Int] /\ r \in Record
      /\ IssuedMoney \in Int /\ Unit \in Int
      /\ SumFunction(bal) = IssuedMoney + Unit * Cardinality(carried)
  BY BlockType, ReadKinds, IssuedFacts, AmountInt, ConservationForm DEF MoneyMade, TypeOK
<1>1. IsFiniteSet(carried) /\ Cardinality(carried) \in Nat
  BY FS_Subset, FS_CardinalityType DEF MoneyMade, TypeOK
<1>2. IssuedMoney' = IF r \in IssueRecord THEN IssuedMoney + r.amount ELSE IssuedMoney
  BY IssuedStep
<1> DEFINE u == Unit * Cardinality(carried)
<1>3. u \in Int
  BY <1>0, <1>1
<1>4. CASE r \in IssueRecord
  <2>1. r.recipient \in Key /\ r.amount \in Int
    BY <1>4, RecordTypes
  <2>2. bal' = Credit(bal, r.recipient, r.amount) /\ carried' = carried
    BY <1>4, ReadKinds DEF Issue
  <2>3. SumFunction(bal') = SumFunction(bal) + r.amount
    BY <1>0, <2>1, <2>2, SumMoved
  <2>4. SumFunction(bal') = IssuedMoney' + u
    <3> HIDE DEF u
    <3>1. SumFunction(bal) = IssuedMoney + u
      BY <1>0 DEF u
    <3> QED
      BY <1>0, <1>2, <1>3, <1>4, <2>1, <2>3, <3>1
  <2> QED
    BY <2>2, <2>4 DEF Conservation, IssuedMoney, Issued
<1>5. CASE r \in TransferRecord
  <2>1. bal' = Paid(bal, r) /\ carried' = carried
    BY <1>5, ReadKinds DEF Transfer
  <2>2. SumFunction(bal') = SumFunction(bal)
    BY <1>0, <1>5, <2>1, PaidKeepsSum
  <2>3. IssuedMoney' = IssuedMoney
    BY <1>2, <1>5, RecordKinds
  <2> QED
    BY <1>0, <2>1, <2>2, <2>3 DEF Conservation, IssuedMoney, Issued
<1>6. CASE r \in VoteRecord
  <2>1. bal' = FeePaid(bal, r) /\ carried' = carried
    BY <1>6, ReadKinds DEF Vote
  <2>2. SumFunction(bal') = SumFunction(bal)
    BY <1>0, <1>6, <2>1, FeePaidKeepsSum
  <2>3. IssuedMoney' = IssuedMoney
    BY <1>2, <1>6, RecordKinds
  <2> QED
    BY <1>0, <2>1, <2>2, <2>3 DEF Conservation, IssuedMoney, Issued
<1>7. CASE UNCHANGED <<bal, carried>> /\ r \notin IssueRecord
  <2>1. IssuedMoney' = IssuedMoney
    BY <1>2, <1>7
  <2> QED
    BY <1>0, <1>7, <2>1 DEF Conservation, IssuedMoney, Issued
<1>8. CASE r \in CarryRecord
  <2>1. r \notin IssueRecord
    BY <1>8, RecordKinds
  <2>2. CASE KeyCarried(carried, r)
    BY <1>7, <1>8, <2>1, <2>2, ReadKinds DEF CarryForward
  <2>3. CASE ~KeyCarried(carried, r)
    <3>1. carried' = carried \cup {r} /\ bal' = Credit(bal, r.sender, Unit)
      BY <1>8, <2>3, ReadKinds DEF CarryForward
    <3>2. r.sender \in Key
      BY <1>8, RecordTypes
    <3>3. SumFunction(bal') = SumFunction(bal) + Unit
      BY <1>0, <3>1, <3>2, SumMoved
    <3>4. r \notin carried
      BY ReadAccepts DEF MoneyMade, TypeOK
    <3> DEFINE n == Cardinality(carried)
    <3>5. Cardinality(carried') = n + 1
      BY <1>1, <3>1, <3>4, FS_AddElement
    <3>6. Unit * (n + 1) = Unit * n + Unit
      BY <1>0, <1>1
    <3>7. IssuedMoney' = IssuedMoney
      BY <1>2, <2>1
    <3>8. SumFunction(bal') = IssuedMoney + Unit * (n + 1)
      <4> DEFINE i == IssuedMoney
      <4>1. SumFunction(bal') = (i + u) + Unit /\ Unit * (n + 1) = u + Unit
        BY <1>0, <3>3, <3>6
      <4>2. i \in Int /\ u \in Int /\ Unit \in Int
        BY <1>0, <1>3
      <4> HIDE DEF i, u, n
      <4>3. SumFunction(bal') = i + Unit * (n + 1)
        BY <4>1, <4>2
      <4> QED
        BY <4>3 DEF i
    <3>9. SumFunction(bal') = IssuedMoney' + Unit * Cardinality(carried')
      BY <3>5, <3>7, <3>8
    <3> QED
      BY <3>9 DEF Conservation, IssuedMoney, Issued
  <2> QED
    BY <2>2, <2>3
<1>9. CASE r \in JoinRecord \cup NameRecord \cup BeatRecord
  BY <1>7, <1>9, ReadKinds, RecordKinds DEF JoinNetwork, UpdateName, HeartBeat
<1> QED
  BY <1>0, <1>4, <1>5, <1>6, <1>8, <1>9 DEF Record

LEMMA ConservationInit == Init => MoneyMade
<1> SUFFICES ASSUME Init PROVE MoneyMade
  OBVIOUS
<1>1. accepted = {GenesisJoin, GenesisIssue} /\ carried = {}
  BY DEF Init
<1>2. GenesisIssue \in IssueRecord /\ GenesisJoin \in JoinRecord
  BY LedgerAssumption DEF GenesisIssue, GenesisJoin, IssueRecord, JoinRecord
<1>3. IsFiniteSet(accepted)
  <2>1. IsFiniteSet({GenesisJoin}) /\ {GenesisJoin} \cup {GenesisIssue} = accepted
    BY <1>1, FS_Singleton
  <2> QED
    BY <2>1, FS_AddElement
<1>4. accepted \subseteq Record
  BY <1>1, <1>2 DEF Record
<1>5. Issued = {GenesisIssue}
  BY <1>1, <1>2, RecordKinds DEF Issued
<1>6. IssuedMoney = Unit
  <2> DEFINE f == [r \in {GenesisIssue} |-> r.amount]
  <2>1. DOMAIN f = {} \cup {GenesisIssue} /\ f[GenesisIssue] = Unit
        /\ \A x \in {} \cup {GenesisIssue} : f[x] \in Int
    BY AmountInt DEF GenesisIssue
  <2>2. IssuedMoney = SumFunction(f)
    BY <1>5 DEF IssuedMoney
  <2> HIDE DEF f
  <2>3. SumFunctionOnSet(f, {} \cup {GenesisIssue}) = f[GenesisIssue] + SumFunctionOnSet(f, {})
    BY <2>1, FS_EmptySet, SumAdd
  <2>4. SumFunction(f) = SumFunctionOnSet(f, {} \cup {GenesisIssue})
    BY <2>1 DEF SumFunction
  <2> QED
    BY <2>1, <2>2, <2>3, <2>4, SumEmpty, AmountInt
<1>7. SumFunction(bal) = Unit
  <2> DEFINE T == Key \ {Founder}
             z == [k \in Key |-> 0]
  <2>1. IsFiniteSet(T) /\ Founder \notin T /\ T \cup {Founder} = Key
    BY KeyAssumption, LedgerAssumption, FS_RemoveElement
  <2>2. /\ DOMAIN bal = Key /\ bal[Founder] = Unit
        /\ \A k \in Key : bal[k] \in Int
        /\ \A k \in T : bal[k] = 0
    BY LedgerAssumption DEF Init
  <2> HIDE DEF T
  <2>3. SumFunctionOnSet(bal, T \cup {Founder}) = bal[Founder] + SumFunctionOnSet(bal, T)
    BY <2>1, <2>2, SumAdd
  <2>4. SumFunctionOnSet(bal, T) = 0
    BY <2>1, <2>2, SumZero
  <2> QED
    BY <2>1, <2>2, <2>3, <2>4, AmountInt DEF SumFunction
<1>8. Conservation
  <2>1. Unit * Cardinality(carried) = 0
    BY <1>1, FS_EmptySet, AmountInt
  <2> QED
    BY <1>6, <1>7, <2>1, AmountInt, ConservationForm
<1> QED
  BY <1>3, <1>4, <1>8, TypeInit DEF MoneyMade

LEMMA ConservationStep ==
  ASSUME MoneyMade, [Next]_vars
  PROVE  MoneyMade'
<1>1. TypeOK'
  BY TypeStep DEF MoneyMade
<1>2. ASSUME NEW r, Read(r) PROVE MoneyMade'
  <2>1. accepted' = accepted \cup {r} /\ r \in Record
    BY <1>2, ReadAccepts, ReadKinds
  <2>2. IsFiniteSet(accepted') /\ accepted' \subseteq Record
    BY <2>1, FS_AddElement DEF MoneyMade
  <2>3. Conservation'
    BY <1>2, ConservationRead
  <2> QED
    BY <1>1, <2>2, <2>3 DEF MoneyMade
<1>3. CASE UNCHANGED <<bal, accepted, carried>>
  BY <1>1, <1>3 DEF MoneyMade, Conservation
<1> QED
  BY <1>2, <1>3 DEF Next, NextBlock, vars

\* On every valid chain the balances sum to the issued rewards and the carry-forward
\* rewards: no replay, no order of records and no coincidence of sender, recipient and
\* creator makes or loses money.
THEOREM MoneyConserved == Spec => []Conservation
<1>1. MoneyMade /\ [Next]_vars => MoneyMade'
  BY ConservationStep
<1>2. MoneyMade => Conservation
  BY DEF MoneyMade
<1> QED
  BY ConservationInit, <1>1, <1>2, PTL DEF Spec

=============================================================================
