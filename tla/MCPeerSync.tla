---------------------------- MODULE MCPeerSync ----------------------------
(***************************************************************************)
(* Two nodes and a tree in which each of them makes a variant of slot 2, and *)
(* B's fork may become the longer one:                                      *)
(*                                                                         *)
(*      1 (slot 1) --- 3 (slot 2, A)                                        *)
(*               \--- 2 (slot 2, B) --- 4 (slot 3, B)                       *)
(***************************************************************************)
EXTENDS PeerSync, TLC

CONSTANTS A, B

MCNode == {A, B}

MCHash   == 1..4
MCNumber == <<1, 2, 2, 3>>
MCParent == <<None, 1, 1, 2>>
MCPrevId == [h \in MCHash |-> IF MCParent[h] = None THEN None ELSE MCNumber[MCParent[h]]]
MCRecords == [h \in MCHash |-> {h}]
MCCreator == <<A, B, A, B>>
MCBranch ==
  LET up[h \in MCHash] == {h} \cup (IF MCParent[h] = None THEN {} ELSE up[MCParent[h]])
  IN  up

\* B follows A; or each has the other as its peer.
Follower == {A :> {} @@ B :> {A}}
Mutual   == {A :> {B} @@ B :> {A}}

(* The smallest tree: one block after genesis. *)
PairHash    == 1..2
PairNumber  == <<1, 2>>
PairParent  == <<None, 1>>
PairPrevId  == <<None, 1>>
PairRecords == <<{1}, {2}>>
PairBranch  == <<{1}, {1, 2}>>
PairCreator == <<A, A>>
=============================================================================
