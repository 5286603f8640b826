----------------------------- MODULE BlockTree -----------------------------
(***************************************************************************)
(* The blocks that exist and what the code computes from their headers.     *)
(*                                                                         *)
(* A block is named by its hash; a hash is a natural number because         *)
(* preferBlockVariant orders hashes.  Header fields and records are         *)
(* constants: a hash commits to them.  Every hash of Hash has a valid       *)
(* envelope (hash, Merkle root, signature, sizes and the stateless record   *)
(* checks); blocks without one are turned away before anything changes.     *)
(***************************************************************************)
EXTENDS Integers, FiniteSets, FiniteSetsExt

CONSTANTS
  Hash,     \* the blocks
  Genesis,  \* the block safire.conf pins
  Number,   \* block.number
  Parent,   \* block.previous_block_hash, None when empty
  PrevId,   \* block.previous_block_id, None when <= 0
  Records,  \* block.records, as a set of record hashes
  Branch    \* a block and all its ancestors by Parent

\* An absent key, an empty hash and a block number of -1.
None == 0

Slot == {Number[h] : h \in Hash}

ASSUME HashAssumption ==
  /\ Hash \subseteq Nat \ {None}
  /\ Genesis \in Hash
  /\ IsFiniteSet(Hash)

ASSUME HeaderAssumption ==
  /\ Number \in [Hash -> Nat \ {None}]
  /\ Parent \in [Hash -> Hash \cup {None}]
  /\ PrevId \in [Hash -> Nat]
  /\ Parent[Genesis] = None

\* Branch is the ancestry that the parent hashes define.
ASSUME BranchAssumption ==
  /\ Branch \in [Hash -> SUBSET Hash]
  /\ \A h \in Hash :
       Branch[h] = {h} \cup (IF Parent[h] = None THEN {} ELSE Branch[Parent[h]])

\* A block holds a list of records.
ASSUME RecordsAssumption == \A h \in Hash : IsFiniteSet(Records[h])

-----------------------------------------------------------------------------

\* More records win, then the smaller hash.
PreferBlockVariant(c, d) ==
  LET cSize == Cardinality(Records[c])
      dSize == Cardinality(Records[d])
  IN  cSize > dSize \/ (cSize = dSize /\ c < d)

MostPreferred(S) == CHOOSE c \in S : \A d \in S \ {c} : PreferBlockVariant(c, d)

ChildConnectsToParent(c, p) ==
  /\ Parent[c] = p
  /\ PrevId[c] = Number[p]
  /\ PrevId[c] < Number[c]

ChainLength(h) == Cardinality(Branch[h])

\* The first block of h's branch that is not on k's.
Diverging(h, k) ==
  CHOOSE x \in Branch[h] \ Branch[k] : \A y \in Branch[h] \ Branch[k] : Number[x] <= Number[y]

\* preferChainChild, applied at every fork from genesis up: a longer chain wins,
\* then the higher tip, then the preferred variant where the chains part.
PreferChain(h, k) ==
  \/ ChainLength(h) > ChainLength(k)
  \/ /\ ChainLength(h) = ChainLength(k)
     /\ \/ Number[h] > Number[k]
        \/ /\ Number[h] = Number[k]
           /\ PreferBlockVariant(Diverging(h, k), Diverging(k, h))

-----------------------------------------------------------------------------
(* An index f with the entries of a chain C, or of its parent-child links,  *)
(* written over what it held.                                              *)

PutCanonical(f, C) ==
  [n \in Slot |-> IF \E h \in C : Number[h] = n THEN CHOOSE h \in C : Number[h] = n ELSE f[n]]

PutNextHash(f, links) ==
  [p \in Hash |-> IF \E h \in links : Parent[h] = p
                  THEN CHOOSE h \in links : Parent[h] = p ELSE f[p]]

PutNextId(f, links) ==
  [n \in Slot |-> IF \E h \in links : PrevId[h] = n
                  THEN Number[CHOOSE h \in links : PrevId[h] = n] ELSE f[n]]
=============================================================================
