------------------------- MODULE LedgerViewsProofs -------------------------
(***************************************************************************)
(* Proofs about LedgerViews: the ledger in the validation cache, the ledger *)
(* built from the chain and the validator's ledger, for every chain and     *)
(* every set of keys, names, amounts and nonces.                            *)
(***************************************************************************)
EXTENDS LedgerViews, LedgerProofs

-----------------------------------------------------------------------------
(* What a record does to the balances.                                     *)

LEMMA MovedKinds ==
  ASSUME NEW b, NEW r, NEW x
  PROVE  /\ r \in IssueRecord => Moved(b, r, x) = Credit(b, r.recipient, x)
         /\ r \in TransferRecord => Moved(b, r, x) = Paid(b, r)
         /\ r \in VoteRecord => Moved(b, r, x) = FeePaid(b, r)
         /\ r \in JoinRecord \cup NameRecord \cup BeatRecord \cup CarryRecord => Moved(b, r, x) = b
BY RecordKinds DEF Moved

LEMMA MovedType ==
  ASSUME NEW b \in [Key -> Int], NEW r \in Record, NEW x \in Int, block.creator \in Key
  PROVE  Moved(b, r, x) \in [Key -> Int]
<1>1. CASE r \in IssueRecord
  <2>1. Moved(b, r, x) = Credit(b, r.recipient, x)
    BY <1>1, MovedKinds
  <2>2. r.recipient \in Key
    BY <1>1, RecordTypes
  <2> QED
    BY <2>1, <2>2 DEF Credit
<1>2. CASE r \in TransferRecord
  <2>1. Moved(b, r, x) = Paid(b, r)
    BY <1>2, MovedKinds
  <2> QED
    BY <1>2, <2>1, PaidFacts
<1>3. CASE r \in VoteRecord
  <2>1. Moved(b, r, x) = FeePaid(b, r)
    BY <1>3, MovedKinds
  <2> QED
    BY <1>3, <2>1, FeePaidFacts
<1>4. CASE r \in JoinRecord \cup NameRecord \cup BeatRecord \cup CarryRecord
  BY <1>4, MovedKinds
<1> QED
  BY <1>1, <1>2, <1>3, <1>4 DEF Record

\* A reward that passed the validator is not clamped: both forms of
\* applyRecordToBalances do the same with a record of a valid chain.
LEMMA NotClamped ==
  ASSUME NEW r, Read(r), NEW b
  PROVE  MovedClamped(b, r) = MovedAsIs(b, r)
<1>1. CASE r \in IssueRecord
  BY <1>1, ReadKinds DEF MovedClamped, MovedAsIs, ClampedAmount, Issue, IssueOK
<1>2. CASE r \notin IssueRecord
  BY <1>2 DEF MovedClamped, MovedAsIs
<1> QED
  BY <1>1, <1>2

LEMMA MovedAsIsType ==
  ASSUME NEW b \in [Key -> Int], NEW r \in Record, block.creator \in Key
  PROVE  MovedAsIs(b, r) \in [Key -> Int]
<1>1. (IF r \in IssueRecord THEN r.amount ELSE 0) \in Int
  BY RecordTypes
<1> QED
  BY <1>1, MovedType DEF MovedAsIs

-----------------------------------------------------------------------------
(* What a view is, and what a record leaves of it.                         *)

View ==
  [bal : [Key -> Int], nonce : [Key -> Int], members : SUBSET Key,
   name : [Key -> Name \cup {NoName}], owner : [Name -> Key \cup {Nobody}],
   beat : [Key -> Int], carried : SUBSET CarryRecord]

LEMMA ViewFields ==
  ASSUME NEW v \in View
  PROVE  /\ v.bal \in [Key -> Int] /\ v.nonce \in [Key -> Int]
         /\ v.members \in SUBSET Key
         /\ v.name \in [Key -> Name \cup {NoName}]
         /\ v.owner \in [Name -> Key \cup {Nobody}]
         /\ v.beat \in [Key -> Int]
         /\ v.carried \in SUBSET CarryRecord
BY DEF View

\* The fields of the cached ledger after a record.
LEMMA CachedFields ==
  ASSUME NEW v \in View, NEW r
  PROVE  /\ CachedAfter(v, r).bal = RewardAfter(v, MovedAsIs(v.bal, r), r)
         /\ CachedAfter(v, r).nonce = NonceAfter(v, r)
         /\ CachedAfter(v, r).members = IF r \in JoinRecord THEN v.members \cup {r.sender} ELSE v.members
         /\ CachedAfter(v, r).owner = v.owner
         /\ CachedAfter(v, r).carried = CarriedAfter(v, r)
         /\ CachedAfter(v, r).beat = IF r \in BeatRecord /\ r.sender \in v.members
                                     THEN [v.beat EXCEPT ![r.sender] = block.number] ELSE v.beat
         /\ r \in JoinRecord =>
              CachedAfter(v, r).name = IF r.name # NoName THEN [v.name EXCEPT ![r.sender] = r.name]
                                       ELSE v.name
         /\ r \in NameRecord =>
              CachedAfter(v, r).name = IF r.sender \in v.members
                                       THEN [v.name EXCEPT ![r.sender] = r.name] ELSE v.name
         /\ r \notin JoinRecord \cup NameRecord => CachedAfter(v, r).name = v.name
         /\ CachedAfter(v, r) =
              [bal |-> CachedAfter(v, r).bal, nonce |-> CachedAfter(v, r).nonce,
               members |-> CachedAfter(v, r).members, name |-> CachedAfter(v, r).name,
               owner |-> v.owner, beat |-> CachedAfter(v, r).beat,
               carried |-> CachedAfter(v, r).carried]
<1> DEFINE joined == IF r \in JoinRecord THEN v.members \cup {r.sender} ELSE v.members
           named  == /\ r \in JoinRecord \cup NameRecord
                     /\ r \in JoinRecord => r.name # NoName
                     /\ r.sender \in joined
           bl == RewardAfter(v, MovedAsIs(v.bal, r), r)
           no == NonceAfter(v, r)
           na == IF named THEN [v.name EXCEPT ![r.sender] = r.name] ELSE v.name
           be == IF r \in BeatRecord /\ r.sender \in v.members
                 THEN [v.beat EXCEPT ![r.sender] = block.number] ELSE v.beat
           ca == CarriedAfter(v, r)
           w  == [bal |-> bl, nonce |-> no, members |-> joined, name |-> na, owner |-> v.owner,
                  beat |-> be, carried |-> ca]
<1>1. v = [bal |-> v.bal, nonce |-> v.nonce, members |-> v.members, name |-> v.name,
           owner |-> v.owner, beat |-> v.beat, carried |-> v.carried]
  BY DEF View
<1>2. CachedAfter(v, r) =
        [v EXCEPT !.bal = bl, !.nonce = no, !.members = joined, !.name = na, !.beat = be,
                  !.carried = ca]
  BY DEF CachedAfter
<1>3. CachedAfter(v, r) = w
  <2> HIDE DEF bl, no, joined, na, be, ca
  <2> QED
    BY <1>1, <1>2
<1>4. /\ r \in JoinRecord => na = IF r.name # NoName THEN [v.name EXCEPT ![r.sender] = r.name]
                                   ELSE v.name
      /\ r \in NameRecord => na = IF r.sender \in v.members
                                   THEN [v.name EXCEPT ![r.sender] = r.name] ELSE v.name
      /\ r \notin JoinRecord \cup NameRecord => na = v.name
  BY RecordKinds
<1>5. /\ w.bal = bl /\ w.nonce = no /\ w.members = joined /\ w.name = na /\ w.owner = v.owner
      /\ w.beat = be /\ w.carried = ca
      /\ w = [bal |-> w.bal, nonce |-> w.nonce, members |-> w.members, name |-> w.name,
              owner |-> v.owner, beat |-> w.beat, carried |-> w.carried]
  <2> HIDE DEF bl, no, joined, na, be, ca
  <2> QED
    OBVIOUS
<1> HIDE DEF w, na
<1> QED
  BY <1>3, <1>4, <1>5

-----------------------------------------------------------------------------
(* The views agree.                                                        *)

LEMMA PartsType ==
  ASSUME NEW v \in View, NEW r \in Record, block.creator \in Key
  PROVE  /\ RewardAfter(v, MovedAsIs(v.bal, r), r) \in [Key -> Int]
         /\ NonceAfter(v, r) \in [Key -> Int]
         /\ CarriedAfter(v, r) \in SUBSET CarryRecord
<1>1. MovedAsIs(v.bal, r) \in [Key -> Int]
  BY ViewFields, MovedAsIsType
<1>2. RewardAfter(v, MovedAsIs(v.bal, r), r) \in [Key -> Int]
  BY <1>1, AmountInt, RecordTypes DEF RewardAfter, Rewarded, Credit
<1>3. NonceAfter(v, r) \in [Key -> Int]
  BY ViewFields, RecordTypes DEF NonceAfter
<1>4. CarriedAfter(v, r) \in SUBSET CarryRecord
  BY ViewFields DEF CarriedAfter, Rewarded
<1> QED
  BY <1>2, <1>3, <1>4

\* A heartbeat of a member, or no heartbeat: the beats of a view.
LEMMA BeatType ==
  ASSUME NEW b \in [Key -> Int], NEW k, NEW n \in Int
  PROVE  [b EXCEPT ![k] = n] \in [Key -> Int]
OBVIOUS

\* What the two ledgers make of a record the validator passed, field by field.
Agreeing(v, w) == \A f \in {"bal", "nonce", "members", "name", "beat", "carried"} : v[f] = w[f]

Shared == built.members = members /\ built.name = name /\ built.owner = owner /\ built.beat = beat

LEMMA ViewsAgreeParts == ViewsAgree <=> Agreeing(cached, built) /\ Shared
BY DEF ViewsAgree, Agreeing, Shared

\* A valid name is claimed exactly when the record passed.
LEMMA ReadClaims ==
  ASSUME TypeOK, NamesConsistent, Shared, NEW r, Read(r)
  PROVE  /\ Claims(built, r) <=> r \in JoinRecord \cup NameRecord /\ r.name # NoName
         /\ r \in JoinRecord \cup NameRecord => r.name \in Name \cup {NoName}
         /\ r \in JoinRecord => name[r.sender] = NoName
         /\ r \in NameRecord => r.name # NoName /\ r.sender \in members
<1>1. ASSUME r \in JoinRecord
      PROVE  /\ r.name \in Name \cup {NoName}
             /\ r.sender \in Key /\ r.sender \notin members
             /\ r.name \in Name => owner[r.name] \in {Nobody, r.sender}
             /\ name[r.sender] = NoName
  <2>1. JoinOK(r)
    BY <1>1, ReadKinds DEF JoinNetwork
  <2>2. r.sender \in Key /\ r.name \in Name \cup {NoName, BadName}
    BY <1>1, RecordTypes
  <2> QED
    BY <2>1, <2>2, LedgerAssumption DEF JoinOK, TakenByAnother, NamesConsistent
<1>2. ASSUME r \in NameRecord
      PROVE  /\ r.name \in Name
             /\ r.sender \in members
             /\ owner[r.name] \in {Nobody, r.sender}
  <2>1. UpdateNameOK(r)
    BY <1>2, ReadKinds DEF UpdateName
  <2>2. r.sender \in Key /\ r.name \in Name \cup {NoName, BadName}
    BY <1>2, RecordTypes
  <2> QED
    BY <2>1, <2>2, LedgerAssumption DEF UpdateNameOK, TakenByAnother
<1>3. r \in JoinRecord => r \notin NameRecord
  BY RecordKinds
<1>4. built.members = members /\ built.owner = owner
  BY DEF Shared
<1>5. NoName \notin Name
  BY LedgerAssumption
<1> QED
  BY <1>1, <1>2, <1>3, <1>4, <1>5 DEF Claims

\* The built ledger keeps the validator's members, names and heartbeats.
LEMMA SharedStep ==
  ASSUME TypeOK, NamesConsistent, Shared, NEW r, Read(r), built' = BuiltAfter(built, r)
  PROVE  Shared'
<1>1. /\ built'.members = IF r \in JoinRecord THEN members \cup {r.sender} ELSE members
      /\ built'.name = IF Claims(built, r) THEN [name EXCEPT ![r.sender] = r.name] ELSE name
      /\ built'.owner = IF Claims(built, r) THEN Claimed(owner, name, r.sender, r.name) ELSE owner
      /\ built'.beat = IF r \in BeatRecord THEN [beat EXCEPT ![r.sender] = block.number] ELSE beat
  BY DEF BuiltAfter, Shared
<1>2. CASE r \in JoinRecord
  <2>1. /\ members' = members \cup {r.sender}
        /\ name' = [name EXCEPT ![r.sender] = r.name]
        /\ owner' = Claimed(owner, name, r.sender, r.name)
        /\ beat' = beat
    BY <1>2, ReadKinds DEF JoinNetwork
  <2>2. r \notin BeatRecord
    BY <1>2, RecordKinds
  <2>3. CASE r.name # NoName
    BY <1>1, <1>2, <2>1, <2>2, <2>3, ReadClaims DEF Shared
  <2>4. CASE r.name = NoName
    <3>1. name' = name
      BY <1>2, <2>1, <2>4, ReadClaims DEF TypeOK
    <3>2. owner' = owner
      BY <1>2, <2>1, <2>4, ReadClaims, LedgerAssumption DEF TypeOK, Claimed
    <3>3. ~Claims(built, r)
      BY <2>4, ReadClaims
    <3> QED
      BY <1>1, <1>2, <2>1, <2>2, <3>1, <3>2, <3>3 DEF Shared
  <2> QED
    BY <2>3, <2>4
<1>3. CASE r \in NameRecord
  <2>1. /\ members' = members
        /\ name' = [name EXCEPT ![r.sender] = r.name]
        /\ owner' = Claimed(owner, name, r.sender, r.name)
        /\ beat' = beat
    BY <1>3, ReadKinds DEF UpdateName
  <2>2. r \notin BeatRecord /\ r \notin JoinRecord
    BY <1>3, RecordKinds
  <2> QED
    BY <1>1, <1>3, <2>1, <2>2, ReadClaims DEF Shared
<1>4. CASE r \in BeatRecord
  <2>1. /\ UNCHANGED <<members, name, owner>>
        /\ beat' = [beat EXCEPT ![r.sender] = block.number]
    BY <1>4, ReadKinds DEF HeartBeat
  <2>2. r \notin NameRecord /\ r \notin JoinRecord
    BY <1>4, RecordKinds
  <2> QED
    BY <1>1, <1>4, <2>1, <2>2, ReadClaims DEF Shared
<1>5. CASE r \notin JoinRecord \cup NameRecord \cup BeatRecord
  <2>1. UNCHANGED <<members, name, owner, beat>>
    BY <1>5 DEF Read, Issue, Transfer, Vote, CarryForward
  <2> QED
    BY <1>1, <1>5, <2>1, ReadClaims DEF Shared
<1> QED
  BY <1>2, <1>3, <1>4, <1>5

\* The cached ledger and the built one take a record that passed in the same way.
LEMMA AgreeingStep ==
  ASSUME TypeOK, NamesConsistent, Shared, cached \in View, built \in View,
         Agreeing(cached, built), NEW r, Read(r)
  PROVE  Agreeing(CachedAfter(cached, r), BuiltAfter(built, r))
<1> DEFINE c == CachedAfter(cached, r)
           b == BuiltAfter(built, r)
<1>1. /\ cached.bal = built.bal /\ cached.nonce = built.nonce /\ cached.members = built.members
      /\ cached.name = built.name /\ cached.beat = built.beat /\ cached.carried = built.carried
  BY DEF Agreeing
<1>2. Rewarded(cached, r) <=> Rewarded(built, r)
  BY <1>1 DEF Rewarded
<1>3. c.bal = b.bal
  <2>1. c.bal = RewardAfter(cached, MovedAsIs(cached.bal, r), r)
    BY CachedFields
  <2>2. b.bal = RewardAfter(built, MovedClamped(built.bal, r), r)
    BY DEF BuiltAfter
  <2> QED
    BY <1>1, <1>2, <2>1, <2>2, NotClamped DEF RewardAfter
<1>4. c.nonce = b.nonce
  <2>1. c.nonce = NonceAfter(cached, r) /\ b.nonce = NonceAfter(built, r)
    BY CachedFields DEF BuiltAfter
  <2>2. NonceAfter(cached, r) = NonceAfter(built, r)
    BY <1>1 DEF NonceAfter
  <2> QED
    BY <2>1, <2>2
<1>5. c.carried = b.carried
  BY <1>1, <1>2, CachedFields DEF BuiltAfter, CarriedAfter
<1>6. c.members = b.members
  BY <1>1, CachedFields DEF BuiltAfter
<1>7. c.beat = b.beat
  <2>1. r \in BeatRecord => r.sender \in members
    BY ReadKinds DEF HeartBeat, HeartBeatOK
  <2>2. c.beat = IF r \in BeatRecord /\ r.sender \in cached.members
                 THEN [cached.beat EXCEPT ![r.sender] = block.number] ELSE cached.beat
    BY CachedFields
  <2>3. b.beat = IF r \in BeatRecord THEN [built.beat EXCEPT ![r.sender] = block.number]
                 ELSE built.beat
    BY DEF BuiltAfter
  <2> QED
    BY <1>1, <2>1, <2>2, <2>3 DEF Shared
<1>8. c.name = b.name
  <2>1. b.name = IF r \in JoinRecord \cup NameRecord /\ r.name # NoName
                 THEN [built.name EXCEPT ![r.sender] = r.name] ELSE built.name
    BY ReadClaims DEF BuiltAfter
  <2>2. CASE r \in JoinRecord
    <3>1. c.name = IF r.name # NoName THEN [cached.name EXCEPT ![r.sender] = r.name]
                   ELSE cached.name
      BY <2>2, CachedFields
    <3> QED
      BY <1>1, <2>1, <2>2, <3>1
  <2>3. CASE r \in NameRecord
    <3>1. c.name = IF r.sender \in cached.members THEN [cached.name EXCEPT ![r.sender] = r.name]
                   ELSE cached.name
      BY <2>3, CachedFields
    <3>2. r.name # NoName /\ r.sender \in cached.members
      BY <1>1, <2>3, ReadClaims DEF Shared
    <3> QED
      BY <1>1, <2>1, <2>3, <3>1, <3>2
  <2>4. CASE r \notin JoinRecord \cup NameRecord
    BY <1>1, <2>1, <2>4, CachedFields
  <2> QED
    BY <2>2, <2>3, <2>4
<1> HIDE DEF c, b
<1>9. Agreeing(c, b)
  BY <1>3, <1>4, <1>5, <1>6, <1>7, <1>8 DEF Agreeing
<1> QED
  BY <1>9 DEF c, b

\* Both stay ledgers.
LEMMA ViewStep ==
  ASSUME TypeOK, NamesConsistent, Shared, cached \in View, built \in View,
         Agreeing(cached, built), NEW r, Read(r)
  PROVE  BuiltAfter(built, r) \in View /\ CachedAfter(cached, r) \in View
<1> DEFINE c == CachedAfter(cached, r)
           b == BuiltAfter(built, r)
<1>0. block.creator \in Key /\ block.number \in Int /\ r \in Record
  BY BlockType, ReadKinds
<1>1. b.bal \in [Key -> Int] /\ b.nonce \in [Key -> Int] /\ b.carried \in SUBSET CarryRecord
  BY <1>0, PartsType, NotClamped DEF BuiltAfter
<1>2. b.members \in SUBSET Key
  BY ViewFields, RecordTypes DEF BuiltAfter
<1>3. b.name \in [Key -> Name \cup {NoName}]
  BY ViewFields, ReadClaims DEF BuiltAfter
<1>4. b.owner \in [Name -> Key \cup {Nobody}]
  BY ViewFields, ReadClaims, RecordTypes, ClaimedType DEF BuiltAfter
<1>5. b.beat \in [Key -> Int]
  <2>1. b.beat = IF r \in BeatRecord THEN [built.beat EXCEPT ![r.sender] = block.number] ELSE built.beat
    BY DEF BuiltAfter
  <2> QED
    BY <1>0, <2>1, ViewFields, BeatType
<1>6. b = [bal |-> b.bal, nonce |-> b.nonce, members |-> b.members, name |-> b.name,
           owner |-> b.owner, beat |-> b.beat, carried |-> b.carried]
  BY DEF BuiltAfter
<1>7. c = [bal |-> c.bal, nonce |-> c.nonce, members |-> c.members, name |-> c.name,
           owner |-> cached.owner, beat |-> c.beat, carried |-> c.carried]
  BY CachedFields
<1>8. /\ c.bal = b.bal /\ c.nonce = b.nonce /\ c.members = b.members /\ c.name = b.name
      /\ c.beat = b.beat /\ c.carried = b.carried
  BY AgreeingStep DEF Agreeing
<1>9. cached.owner \in [Name -> Key \cup {Nobody}]
  BY ViewFields
<1> HIDE DEF c, b
<1>10. b \in View
  BY <1>1, <1>2, <1>3, <1>4, <1>5, <1>6 DEF View
<1>11. c \in View
  BY <1>1, <1>2, <1>3, <1>5, <1>7, <1>8, <1>9 DEF View
<1> QED
  BY <1>10, <1>11 DEF b, c

AgreeInv == TypeOK /\ NamesConsistent /\ built \in View /\ cached \in View /\ ViewsAgree

\* Computing the views beside it does not change what the validator passes.
LEMMA ViewsStep == [NextViews]_allVars => [Next]_vars
BY DEF NextViews, ReadAll, NextBlockAll, Next, allVars

LEMMA AgreeInit == InitViews => AgreeInv
<1> SUFFICES ASSUME InitViews PROVE AgreeInv
  OBVIOUS
<1>1. TypeOK /\ NamesConsistent
  BY TypeInit, LedgerAssumption DEF InitViews, Init, NamesConsistent
<1>2. Branch \in View
  BY <1>1 DEF Branch, View, TypeOK
<1>3. ViewsAgree
  BY DEF InitViews, Branch, ViewsAgree
<1> QED
  BY <1>1, <1>2, <1>3 DEF AgreeInv, InitViews

LEMMA AgreeStep ==
  ASSUME AgreeInv, [NextViews]_allVars
  PROVE  AgreeInv'
<1>1. TypeOK' /\ NamesConsistent'
  BY ViewsStep, TypeStep, NamesStep DEF AgreeInv
<1>2. Agreeing(cached, built) /\ Shared
  BY ViewsAgreeParts DEF AgreeInv
<1>3. ASSUME NEW r, ReadAll(r)
      PROVE  built' \in View /\ cached' \in View /\ Agreeing(cached, built)' /\ Shared'
  <2>1. Read(r) /\ built' = BuiltAfter(built, r) /\ cached' = CachedAfter(cached, r)
    BY <1>3 DEF ReadAll
  <2>2. built' \in View /\ cached' \in View
    BY <1>2, <2>1, ViewStep DEF AgreeInv
  <2>3. Agreeing(cached', built')
    BY <1>2, <2>1, AgreeingStep DEF AgreeInv
  <2>4. Shared'
    BY <1>2, <2>1, SharedStep DEF AgreeInv
  <2> QED
    BY <2>2, <2>3, <2>4 DEF Agreeing
<1>4. CASE UNCHANGED <<members, name, owner, beat, built, cached>>
  <2>1. built' \in View /\ cached' \in View
    BY <1>4 DEF AgreeInv
  <2>2. ViewsAgree'
    BY <1>4 DEF AgreeInv, ViewsAgree
  <2> QED
    BY <1>1, <2>1, <2>2 DEF AgreeInv
<1>5. ASSUME NEW r, ReadAll(r) PROVE AgreeInv'
  <2>1. ViewsAgree'
    BY <1>3, <1>5, ViewsAgreeParts DEF ViewsAgree, Agreeing, Shared
  <2> QED
    BY <1>1, <1>3, <1>5, <2>1 DEF AgreeInv
<1> QED
  BY <1>4, <1>5 DEF NextViews, NextBlockAll, NextBlock, allVars, vars, viewVars

\* The ledger in the validation cache, kept record by record with rules of its own for
\* names and rewards, is the ledger built from the chain on every chain that
\* validateConnectedChain passes, and has the validator's members, names and heartbeats.
THEOREM CacheIsLedger == SpecViews => []ViewsAgree
<1>1. AgreeInv /\ [NextViews]_allVars => AgreeInv'
  BY AgreeStep
<1>2. AgreeInv => ViewsAgree
  BY DEF AgreeInv
<1> QED
  BY AgreeInit, <1>1, <1>2, PTL DEF SpecViews

-----------------------------------------------------------------------------
(* The validator and the ledger differ by carry-forward rewards.           *)

\* One record more is one reward more for its sender.
LEMMA RewardsAdd ==
  ASSUME NEW S, IsFiniteSet(S), NEW r, r \notin S, NEW k
  PROVE  /\ Rewards(S, k) \in Nat
         /\ IsFiniteSet(S \cup {r})
         /\ Rewards(S \cup {r}, k) = Rewards(S, k) + (IF r.sender = k THEN 1 ELSE 0)
<1> DEFINE T == {c \in S : c.sender = k}
           U == {c \in S \cup {r} : c.sender = k}
<1>1. IsFiniteSet(T)
  BY FS_Subset
<1>2. Cardinality(T) \in Nat
  BY <1>1, FS_CardinalityType
<1>3. IsFiniteSet(S \cup {r})
  BY FS_AddElement
<1>4. CASE r.sender = k
  <2>1. U = T \cup {r} /\ r \notin T
    BY <1>4
  <2>2. Cardinality(T \cup {r}) = Cardinality(T) + 1
    <3> HIDE DEF T
    <3> QED
      BY <1>1, <2>1, FS_AddElement
  <2> QED
    BY <1>2, <1>3, <1>4, <2>1, <2>2 DEF Rewards
<1>5. CASE r.sender # k
  <2>1. U = T
    BY <1>5
  <2>2. Cardinality(U) = Cardinality(T) + 0
    <3> HIDE DEF T, U
    <3> QED
      BY <1>2, <2>1
  <2> QED
    BY <1>2, <1>3, <1>5, <2>2 DEF Rewards
<1> QED
  BY <1>4, <1>5

\* Money moves alike in two ledgers, whatever they hold.
LEMMA MovesAlike ==
  ASSUME NEW b \in [Key -> Int], NEW c \in [Key -> Int], NEW r \in Record, block.creator \in Key,
         NEW k \in Key
  PROVE  MovedAsIs(b, r)[k] - MovedAsIs(c, r)[k] = b[k] - c[k]
<1>1. CASE r \in IssueRecord
  <2>1. r.recipient \in Key /\ r.amount \in Int
    BY <1>1, RecordTypes
  <2>2. /\ MovedAsIs(b, r) = Credit(b, r.recipient, r.amount)
        /\ MovedAsIs(c, r) = Credit(c, r.recipient, r.amount)
    BY <1>1, MovedKinds DEF MovedAsIs
  <2> QED
    BY <2>1, <2>2 DEF Credit
<1>2. CASE r \in TransferRecord
  <2>1. MovedAsIs(b, r) = Paid(b, r) /\ MovedAsIs(c, r) = Paid(c, r)
    BY <1>2, MovedKinds DEF MovedAsIs
  <2>2. r.amount \in Int /\ r.fee \in Int
    BY <1>2, RecordTypes
  <2> DEFINE d == (IF k = r.recipient THEN r.amount ELSE 0)
             e == (IF k = r.sender THEN r.amount + r.fee ELSE 0)
             f == (IF k = block.creator THEN r.fee ELSE 0)
  <2>3. Paid(b, r)[k] = b[k] + d - e + f /\ Paid(c, r)[k] = c[k] + d - e + f
    BY <1>2, PaidFacts
  <2>4. b[k] \in Int /\ c[k] \in Int /\ d \in Int /\ e \in Int /\ f \in Int
    BY <2>2
  <2> HIDE DEF d, e, f
  <2> QED
    BY <2>1, <2>3, <2>4
<1>3. CASE r \in VoteRecord
  <2>1. MovedAsIs(b, r) = FeePaid(b, r) /\ MovedAsIs(c, r) = FeePaid(c, r)
    BY <1>3, MovedKinds DEF MovedAsIs
  <2>2. r.fee \in Int
    BY <1>3, RecordTypes
  <2> DEFINE e == (IF k = r.sender THEN r.fee ELSE 0)
             f == (IF k = block.creator THEN r.fee ELSE 0)
  <2>3. FeePaid(b, r)[k] = b[k] - e + f /\ FeePaid(c, r)[k] = c[k] - e + f
    BY <1>3, FeePaidFacts
  <2>4. b[k] \in Int /\ c[k] \in Int /\ e \in Int /\ f \in Int
    BY <2>2
  <2> HIDE DEF e, f
  <2> QED
    BY <2>1, <2>3, <2>4
<1>4. CASE r \in JoinRecord \cup NameRecord \cup BeatRecord \cup CarryRecord
  BY <1>4, MovedKinds DEF MovedAsIs
<1> QED
  BY <1>1, <1>2, <1>3, <1>4 DEF Record

\* A carry-forward record that the validator pays for.
Pays(r) == r \in CarryRecord /\ ~KeyCarried(carried, r)

LEMMA ValidatorMoves ==
  ASSUME NEW r, Read(r)
  PROVE  /\ bal' = IF Pays(r) THEN Credit(MovedAsIs(bal, r), r.sender, Unit) ELSE MovedAsIs(bal, r)
         /\ carried' = IF Pays(r) THEN carried \cup {r} ELSE carried
         /\ r \notin accepted /\ accepted' = accepted \cup {r}
         /\ block' = block
<1>1. r \notin accepted /\ accepted' = accepted \cup {r}
  BY DEF Read, Issue, Transfer, Vote, JoinNetwork, UpdateName, HeartBeat, CarryForward, Accept,
         FreshRecord
<1>2. block' = block
  BY DEF Read, Issue, Transfer, Vote, JoinNetwork, UpdateName, HeartBeat, CarryForward
<1>3. CASE r \in IssueRecord
  <2>1. ~Pays(r) /\ MovedAsIs(bal, r) = Credit(bal, r.recipient, r.amount)
    BY <1>3, RecordKinds, MovedKinds DEF MovedAsIs, Pays
  <2>2. bal' = Credit(bal, r.recipient, r.amount) /\ carried' = carried
    BY <1>3, ReadKinds DEF Issue
  <2> QED
    BY <1>1, <1>2, <2>1, <2>2
<1>4. CASE r \in TransferRecord
  <2>1. ~Pays(r) /\ MovedAsIs(bal, r) = Paid(bal, r)
    BY <1>4, RecordKinds, MovedKinds DEF MovedAsIs, Pays
  <2>2. bal' = Paid(bal, r) /\ carried' = carried
    BY <1>4, ReadKinds DEF Transfer
  <2> QED
    BY <1>1, <1>2, <2>1, <2>2
<1>5. CASE r \in VoteRecord
  <2>1. ~Pays(r) /\ MovedAsIs(bal, r) = FeePaid(bal, r)
    BY <1>5, RecordKinds, MovedKinds DEF MovedAsIs, Pays
  <2>2. bal' = FeePaid(bal, r) /\ carried' = carried
    BY <1>5, ReadKinds DEF Vote
  <2> QED
    BY <1>1, <1>2, <2>1, <2>2
<1>6. CASE r \in JoinRecord \cup NameRecord \cup BeatRecord
  <2>1. ~Pays(r) /\ MovedAsIs(bal, r) = bal
    BY <1>6, RecordKinds, MovedKinds DEF MovedAsIs, Pays
  <2>2. bal' = bal /\ carried' = carried
    BY <1>6, ReadKinds DEF JoinNetwork, UpdateName, HeartBeat
  <2> QED
    BY <1>1, <1>2, <2>1, <2>2
<1>7. CASE r \in CarryRecord
  <2>1. MovedAsIs(bal, r) = bal
    BY <1>7, MovedKinds DEF MovedAsIs
  <2>2. CarryForward(r)
    BY <1>7, ReadKinds
  <2> QED
    BY <1>1, <1>2, <1>7, <2>1, <2>2 DEF CarryForward, Pays
<1> QED
  BY <1>3, <1>4, <1>5, <1>6, <1>7, ReadKinds DEF Record

\* carried and built.carried are finite sets of records of the chain.
RewardSets ==
  /\ IsFiniteSet(carried) /\ IsFiniteSet(built.carried)
  /\ built.carried \subseteq accepted

GapInv == AgreeInv /\ RewardSets /\ GapIsRewards

\* A unit more on either side of the gap.
LEMMA OneMore ==
  ASSUME NEW u \in Int, NEW x \in Int, NEW y \in Int
  PROVE  /\ u * ((x + 1) - y) = u * (x - y) + u
         /\ u * (x - (y + 1)) = u * (x - y) - u
         /\ u * ((x + 1) - (y + 1)) = u * (x - y)
OBVIOUS

LEMMA GapRead ==
  ASSUME GapInv, NEW r, Read(r), built' = BuiltAfter(built, r)
  PROVE  RewardSets' /\ GapIsRewards'
<1> DEFINE won == Rewarded(built, r)
<1>0. /\ built \in View /\ built.bal \in [Key -> Int] /\ bal \in [Key -> Int]
      /\ block.creator \in Key /\ Unit \in Int /\ r \in Record
  BY BlockType, ViewFields, AmountInt, ReadKinds DEF GapInv, AgreeInv, TypeOK
<1>1. /\ bal' = IF Pays(r) THEN Credit(MovedAsIs(bal, r), r.sender, Unit) ELSE MovedAsIs(bal, r)
      /\ carried' = IF Pays(r) THEN carried \cup {r} ELSE carried
      /\ r \notin accepted /\ accepted' = accepted \cup {r}
  BY ValidatorMoves
<1>2. /\ built'.bal = IF won THEN Credit(MovedAsIs(built.bal, r), r.sender, Unit)
                      ELSE MovedAsIs(built.bal, r)
      /\ built'.carried = IF won THEN built.carried \cup {r} ELSE built.carried
  <2>1. MovedClamped(built.bal, r) = MovedAsIs(built.bal, r)
    BY NotClamped
  <2> QED
    BY <2>1 DEF BuiltAfter, RewardAfter, CarriedAfter
<1>3. r \notin carried /\ r \notin built.carried
  BY <1>1 DEF GapInv, AgreeInv, TypeOK, RewardSets
<1>4. IsFiniteSet(carried) /\ IsFiniteSet(built.carried)
  BY DEF GapInv, RewardSets
<1>5. Pays(r) \/ won => r.sender \in Key
  BY RecordTypes DEF Pays, Rewarded
<1> HIDE DEF won
<1>6. RewardSets'
  <2>1. IsFiniteSet(carried \cup {r}) /\ IsFiniteSet(built.carried \cup {r})
    BY <1>4, FS_AddElement
  <2> QED
    BY <1>1, <1>2, <1>4, <2>1 DEF GapInv, RewardSets
<1>7. ASSUME NEW k \in Key
      PROVE  bal'[k] - built'.bal[k] = Unit * (Rewards(carried', k) - Rewards(built'.carried, k))
  <2> DEFINE m == MovedAsIs(bal, r)[k]
             n == MovedAsIs(built.bal, r)[k]
             x == Rewards(carried, k)
             y == Rewards(built.carried, k)
  <2>1. /\ MovedAsIs(bal, r) \in [Key -> Int] /\ MovedAsIs(built.bal, r) \in [Key -> Int]
        /\ m \in Int /\ n \in Int
    BY <1>0, MovedAsIsType
  <2>2. bal'[k] = IF Pays(r) /\ k = r.sender THEN m + Unit ELSE m
    BY <1>0, <1>1, <1>5, <2>1 DEF Credit
  <2>3. built'.bal[k] = IF won /\ k = r.sender THEN n + Unit ELSE n
    BY <1>0, <1>2, <1>5, <2>1 DEF Credit
  <2>4. /\ x \in Int /\ y \in Int
        /\ Rewards(carried \cup {r}, k) = x + (IF r.sender = k THEN 1 ELSE 0)
        /\ Rewards(built.carried \cup {r}, k) = y + (IF r.sender = k THEN 1 ELSE 0)
    <3>1. /\ x \in Nat
          /\ Rewards(carried \cup {r}, k) = x + (IF r.sender = k THEN 1 ELSE 0)
      BY <1>3, <1>4, RewardsAdd, Zenon
    <3>2. /\ y \in Nat
          /\ Rewards(built.carried \cup {r}, k) = y + (IF r.sender = k THEN 1 ELSE 0)
      BY <1>3, <1>4, RewardsAdd, Zenon
    <3> QED
      BY <3>1, <3>2
  <2>5. Rewards(carried', k) = IF Pays(r) /\ k = r.sender THEN x + 1 ELSE x
    BY <1>1, <2>4
  <2>6. Rewards(built'.carried, k) = IF won /\ k = r.sender THEN y + 1 ELSE y
    BY <1>2, <2>4
  <2>7. m - n = Unit * (x - y)
    <3>1. m - n = bal[k] - built.bal[k]
      BY <1>0, MovesAlike
    <3>2. bal[k] - built.bal[k] = Unit * (x - y)
      BY DEF GapInv, GapIsRewards
    <3> QED
      BY <3>1, <3>2
  <2> HIDE DEF m, n, x, y
  <2>8. /\ Unit * ((x + 1) - y) = Unit * (x - y) + Unit
        /\ Unit * (x - (y + 1)) = Unit * (x - y) - Unit
        /\ Unit * ((x + 1) - (y + 1)) = Unit * (x - y)
    BY <1>0, <2>4, OneMore
  <2>9. m \in Int /\ n \in Int /\ Unit \in Int
    BY <1>0, <2>1
  <2>10. CASE k # r.sender
    BY <2>2, <2>3, <2>5, <2>6, <2>7, <2>10
  <2>11. CASE k = r.sender /\ Pays(r) /\ won
    <3>1. (m + Unit) - (n + Unit) = m - n
      BY <2>9
    <3> QED
      BY <2>2, <2>3, <2>5, <2>6, <2>7, <2>8, <2>11, <3>1
  <2>12. CASE k = r.sender /\ Pays(r) /\ ~won
    <3>1. (m + Unit) - n = (m - n) + Unit
      BY <2>9
    <3> QED
      BY <2>2, <2>3, <2>5, <2>6, <2>7, <2>8, <2>12, <3>1
  <2>13. CASE k = r.sender /\ ~Pays(r) /\ won
    <3>1. m - (n + Unit) = (m - n) - Unit
      BY <2>9
    <3> QED
      BY <2>2, <2>3, <2>5, <2>6, <2>7, <2>8, <2>13, <3>1
  <2>14. CASE ~Pays(r) /\ ~won
    BY <2>2, <2>3, <2>5, <2>6, <2>7, <2>14
  <2> QED
    BY <2>10, <2>11, <2>12, <2>13, <2>14
<1>8. GapIsRewards'
  BY <1>7 DEF GapIsRewards
<1> QED
  BY <1>6, <1>8

LEMMA GapStep ==
  ASSUME GapInv, [NextViews]_allVars
  PROVE  GapInv'
<1>1. AgreeInv'
  BY AgreeStep DEF GapInv
<1>2. ASSUME NEW r, ReadAll(r) PROVE GapInv'
  <2>1. RewardSets' /\ GapIsRewards'
    BY <1>2, GapRead DEF ReadAll
  <2> QED
    BY <1>1, <2>1 DEF GapInv
<1>3. CASE UNCHANGED <<bal, carried, accepted, built>>
  <2>1. RewardSets' /\ GapIsRewards'
    BY <1>3 DEF GapInv, RewardSets, GapIsRewards, Rewards
  <2> QED
    BY <1>1, <2>1 DEF GapInv
<1> QED
  BY <1>2, <1>3 DEF NextViews, NextBlockAll, NextBlock, allVars, vars, viewVars

LEMMA GapInit == InitViews => GapInv
<1> SUFFICES ASSUME InitViews PROVE GapInv
  OBVIOUS
<1>1. built.bal = bal /\ built.carried = {} /\ carried = {}
  BY DEF InitViews, Branch, Init
<1>2. RewardSets
  BY <1>1, FS_EmptySet DEF RewardSets
<1>3. bal \in [Key -> Int]
  BY AgreeInit DEF AgreeInv, TypeOK
<1>4. ASSUME NEW k \in Key
      PROVE  bal[k] - built.bal[k] = Unit * (Rewards(carried, k) - Rewards(built.carried, k))
  <2>1. {c \in {} : c.sender = k} = {}
    OBVIOUS
  <2>2. Rewards({}, k) = 0
    BY <2>1, FS_EmptySet DEF Rewards
  <2> QED
    BY <1>1, <1>3, <2>2, AmountInt
<1>5. GapIsRewards
  BY <1>4 DEF GapIsRewards
<1> QED
  BY <1>2, <1>5, AgreeInit DEF GapInv

\* Every difference between the validator's balances and the ledger's is a carry-forward
\* reward that one of them paid and the other did not: nothing else in the two codes of a
\* reward, a transfer or a vote parts them, on any chain.
THEOREM GapExplained == SpecViews => []GapIsRewards
<1>1. GapInv /\ [NextViews]_allVars => GapInv'
  BY GapStep
<1>2. GapInv => GapIsRewards
  BY DEF GapInv
<1> QED
  BY GapInit, <1>1, <1>2, PTL DEF SpecViews

-----------------------------------------------------------------------------
(* Storage and full validation agree on money.                             *)

Temporary == [bal : [Key -> Int], nonce : [Key -> Int]]

\* The temporary balances are the validator's as long as nobody was paid for a
\* carry-forward record, the temporary nonces as long as every transfer was numbered.
MoneyInv ==
  /\ GapInv
  /\ temp \in Temporary
  /\ carried = {} => built.carried = {} /\ temp.bal = bal
  /\ accepted \cap TransferRecord \subseteq spends => temp.nonce = nonce /\ built.nonce = nonce

\* Without rewards the ledger has the validator's balances.
LEMMA NoRewardsNoGap ==
  ASSUME GapInv, carried = {}, built.carried = {}
  PROVE  built.bal = bal
<1>1. bal \in [Key -> Int] /\ built.bal \in [Key -> Int]
  BY ViewFields DEF GapInv, AgreeInv, TypeOK
<1>2. ASSUME NEW k \in Key PROVE bal[k] = built.bal[k]
  <2>1. {c \in {} : c.sender = k} = {}
    OBVIOUS
  <2>2. Rewards({}, k) = 0
    BY <2>1, FS_EmptySet DEF Rewards
  <2>3. bal[k] - built.bal[k] = Unit * (0 - 0)
    BY <2>2 DEF GapInv, GapIsRewards
  <2>4. Unit * (0 - 0) = 0
    BY AmountInt
  <2> QED
    BY <1>1, <2>3, <2>4
<1> QED
  BY <1>1, <1>2

LEMMA MoneyRead ==
  ASSUME MoneyInv, NEW r, ReadAll(r)
  PROVE  /\ temp' \in Temporary
         /\ carried' = {} => built'.carried = {} /\ temp'.bal = bal'
         /\ accepted' \cap TransferRecord \subseteq spends' =>
              temp'.nonce = nonce' /\ built'.nonce = nonce'
<1>0. /\ Read(r) /\ r \in Record /\ block.creator \in Key
      /\ temp.bal \in [Key -> Int] /\ temp.nonce \in [Key -> Int]
      /\ nonce \in [Key -> Int] /\ built.nonce \in [Key -> Int]
      /\ spends \subseteq accepted
  BY BlockType, ReadKinds, ViewFields DEF ReadAll, MoneyInv, GapInv, AgreeInv, TypeOK, Temporary
<1>1. /\ temp'.bal = MovedAsIs(temp.bal, r)
      /\ temp'.nonce = IF r \in TransferRecord /\ block.merkle
                       THEN [temp.nonce EXCEPT ![r.sender] = r.nonce] ELSE temp.nonce
      /\ temp' = [bal |-> temp'.bal, nonce |-> temp'.nonce]
  BY DEF ReadAll, TempAfter
<1>2. temp' \in Temporary
  <2>1. temp'.bal \in [Key -> Int]
    BY <1>0, <1>1, MovedAsIsType
  <2>2. temp'.nonce \in [Key -> Int]
    BY <1>0, <1>1, RecordTypes
  <2> DEFINE b == temp'.bal
             n == temp'.nonce
  <2>3. b \in [Key -> Int] /\ n \in [Key -> Int] /\ temp' = [bal |-> b, nonce |-> n]
    BY <1>1, <2>1, <2>2
  <2> HIDE DEF b, n
  <2> QED
    BY <2>3 DEF Temporary
<1>3. ASSUME carried' = {}
      PROVE  built'.carried = {} /\ temp'.bal = bal'
  <2>1. ~Pays(r) /\ carried = {} /\ bal' = MovedAsIs(bal, r)
    BY <1>0, <1>3, ValidatorMoves
  <2>2. r \notin CarryRecord
    BY <2>1 DEF Pays, KeyCarried
  <2>3. built'.carried = built.carried
    BY <2>2 DEF ReadAll, BuiltAfter, CarriedAfter, Rewarded
  <2> QED
    BY <1>1, <2>1, <2>3 DEF MoneyInv
<1>4. ASSUME accepted' \cap TransferRecord \subseteq spends'
      PROVE  temp'.nonce = nonce' /\ built'.nonce = nonce'
  <2>1. r \notin accepted /\ accepted' = accepted \cup {r}
    BY <1>0, ValidatorMoves
  <2>2. built'.nonce = NonceAfter(built, r)
    BY DEF ReadAll, BuiltAfter
  <2>3. CASE r \in TransferRecord
    <3>1. Transfer(r)
      BY <1>0, <2>3, ReadKinds
    <3>2. block.merkle
      BY <1>0, <1>4, <2>1, <2>3, <3>1 DEF Transfer
    <3>3. /\ spends' = spends \cup {r}
          /\ nonce' = [nonce EXCEPT ![r.sender] = r.nonce]
          /\ r.nonce = nonce[r.sender] + 1
      BY <3>1, <3>2 DEF Transfer, TransferOK
    <3>4. temp.nonce = nonce /\ built.nonce = nonce
      BY <1>4, <2>1, <3>3 DEF MoneyInv
    <3>5. r.sender \in Key /\ nonce[r.sender] \in Int
      BY <1>0, <2>3, RecordTypes
    <3>6. r.nonce > built.nonce[r.sender]
      BY <3>3, <3>4, <3>5
    <3> QED
      BY <1>1, <2>2, <2>3, <3>2, <3>3, <3>4, <3>6 DEF NonceAfter
  <2>4. CASE r \notin TransferRecord
    <3>1. nonce' = nonce /\ spends' = spends
      BY <1>0, <2>4 DEF Read, Issue, Vote, JoinNetwork, UpdateName, HeartBeat, CarryForward
    <3>2. temp.nonce = nonce /\ built.nonce = nonce
      BY <1>4, <2>1, <3>1 DEF MoneyInv
    <3> QED
      BY <1>1, <2>2, <2>4, <3>1, <3>2 DEF NonceAfter
  <2> QED
    BY <2>3, <2>4
<1> QED
  BY <1>2, <1>3, <1>4

LEMMA MoneyStep ==
  ASSUME MoneyInv, [NextViews]_allVars
  PROVE  MoneyInv'
<1>1. GapInv'
  BY GapStep DEF MoneyInv
<1>2. ASSUME NEW r, ReadAll(r) PROVE MoneyInv'
  BY <1>1, <1>2, MoneyRead DEF MoneyInv
<1>3. ASSUME NEW k, NEW m, NextBlockAll(k, m) PROVE MoneyInv'
  <2>1. /\ temp' = [bal |-> cached.bal, nonce |-> cached.nonce]
        /\ UNCHANGED <<bal, nonce, accepted, carried, spends, built, cached>>
    BY <1>3 DEF NextBlockAll, NextBlock
  <2>2. cached.bal = built.bal /\ cached.nonce = built.nonce
    BY DEF MoneyInv, GapInv, AgreeInv, ViewsAgree
  <2>3. cached.bal \in [Key -> Int] /\ cached.nonce \in [Key -> Int]
    BY ViewFields DEF MoneyInv, GapInv, AgreeInv
  <2>4. temp' \in Temporary
    BY <2>1, <2>3 DEF Temporary
  <2>5. carried' = {} => built'.carried = {} /\ temp'.bal = bal'
    BY <2>1, <2>2, NoRewardsNoGap DEF MoneyInv
  <2>6. accepted' \cap TransferRecord \subseteq spends' =>
          temp'.nonce = nonce' /\ built'.nonce = nonce'
    BY <2>1, <2>2 DEF MoneyInv
  <2> QED
    BY <1>1, <2>4, <2>5, <2>6 DEF MoneyInv
<1>4. CASE UNCHANGED allVars
  BY <1>1, <1>4 DEF MoneyInv, allVars, vars, viewVars
<1> QED
  BY <1>2, <1>3, <1>4 DEF NextViews

LEMMA MoneyInit == InitViews => MoneyInv
<1> SUFFICES ASSUME InitViews PROVE MoneyInv
  OBVIOUS
<1>1. GapInv
  BY GapInit
<1>2. bal \in [Key -> Int] /\ nonce \in [Key -> Int]
  BY <1>1 DEF GapInv, AgreeInv, TypeOK
<1>3. temp = [bal |-> bal, nonce |-> nonce] /\ built.nonce = nonce /\ built.carried = {}
  BY DEF InitViews, Init, Branch
<1> QED
  BY <1>1, <1>2, <1>3 DEF MoneyInv, Temporary

LEMMA SameVerdict == MoneyInv => StorageAgreesOnMoney
<1> SUFFICES ASSUME MoneyInv, carried = {}, accepted \cap TransferRecord \subseteq spends,
                    NEW r \in IssueRecord \cup TransferRecord \cup VoteRecord
             PROVE  StorageOK(r) <=> RecordOK(r)
  BY DEF StorageAgreesOnMoney
<1>1. temp.bal = bal /\ temp.nonce = nonce
  BY DEF MoneyInv
<1>2. CASE r \in IssueRecord
  BY <1>2, RecordKinds DEF StorageOK, RecordOK
<1>3. CASE r \in TransferRecord
  <2>1. StorageOK(r) <=> /\ r.amount > 0 /\ r.fee >= 0
                         /\ block.merkle => r.nonce = temp.nonce[r.sender] + 1
                         /\ temp.bal[r.sender] + Tolerance >= Debit(r)
    BY <1>3, RecordKinds DEF StorageOK
  <2>2. RecordOK(r) <=> TransferOK(r)
    BY <1>3, RecordKinds DEF RecordOK
  <2> QED
    BY <1>1, <2>1, <2>2 DEF TransferOK
<1>4. CASE r \in VoteRecord
  <2>1. StorageOK(r) <=> r.fee >= 0 /\ temp.bal[r.sender] + Tolerance >= r.fee
    BY <1>4, RecordKinds DEF StorageOK
  <2>2. RecordOK(r) <=> VoteOK(r)
    BY <1>4, RecordKinds DEF RecordOK
  <2> QED
    BY <1>1, <2>1, <2>2 DEF VoteOK
<1> QED
  BY <1>2, <1>3, <1>4

\* validateBlockForStorage, on temporary balances and nonces over the cached ledger, gives
\* the verdict of validateConnectedChain on every reward, transfer and vote, until the
\* first carry-forward reward or the first transfer without a checked nonce.
THEOREM StorageVerdict == SpecViews => []StorageAgreesOnMoney
<1>1. MoneyInv /\ [NextViews]_allVars => MoneyInv'
  BY MoneyStep
<1> QED
  BY MoneyInit, <1>1, SameVerdict, PTL DEF SpecViews

=============================================================================
