----------------------------- MODULE MCBlockDB -----------------------------
(***************************************************************************)
(* A small block tree for BlockDB.  Slot 2 holds two variants, and their    *)
(* branches grow in different slots:                                        *)
(*                                                                         *)
(*      1 (slot 1) --- 5 (slot 2) --- 4 (slot 3)                            *)
(*               \--- 3 (slot 2) --- 6 (slot 4) --- 2 (slot 5)              *)
(*                                                                         *)
(* Block 6 carries the record that block 5 carries on the other branch.     *)
(* Block 7 is a second genesis, which safire.conf does not pin.             *)
(***************************************************************************)
EXTENDS BlockDB

MCHash == 1..7

MCNumber == [h \in MCHash |->
  CASE h \in {1, 7} -> 1 [] h \in {3, 5} -> 2 [] h = 4 -> 3 [] h = 6 -> 4 [] h = 2 -> 5]

MCParent == [h \in MCHash |->
  CASE h \in {1, 7} -> None [] h \in {3, 5} -> 1 [] h = 4 -> 5 [] h = 6 -> 3 [] h = 2 -> 6]

MCPrevId == [h \in MCHash |-> IF MCParent[h] = None THEN None ELSE MCNumber[MCParent[h]]]

MCRecords == [h \in MCHash |->
  CASE h \in {1, 7} -> {"join"} [] h \in {5, 6} -> {"r1"} [] h = 3 -> {"r2"} [] OTHER -> {}]

MCBranch ==
  LET up[h \in MCHash] == {h} \cup (IF MCParent[h] = None THEN {} ELSE up[MCParent[h]])
  IN  up

(***************************************************************************)
(* A fork whose branches share no slot: 1 (slot 1) --- 2 (slot 4) against   *)
(* 1 --- 3 (slot 2) --- 4 (slot 3).                                         *)
(***************************************************************************)
GapHash    == 1..4
GapNumber  == [h \in GapHash |-> CASE h = 1 -> 1 [] h = 2 -> 4 [] h = 3 -> 2 [] h = 4 -> 3]
GapParent  == [h \in GapHash |-> CASE h = 1 -> None [] h = 2 -> 1 [] h = 3 -> 1 [] h = 4 -> 3]
GapPrevId  == [h \in GapHash |-> IF GapParent[h] = None THEN None ELSE GapNumber[GapParent[h]]]
GapRecords == [h \in GapHash |-> {h}]
GapBranch  ==
  LET up[h \in GapHash] == {h} \cup (IF GapParent[h] = None THEN {} ELSE up[GapParent[h]])
  IN  up

(***************************************************************************)
(* Two variants of slot 2, the less preferred of which has a child:         *)
(* 1 (slot 1) --- 3 (slot 2) --- 4 (slot 3) against 1 --- 2 (slot 2).       *)
(***************************************************************************)
TwinHash    == 1..4
TwinNumber  == [h \in TwinHash |-> CASE h = 1 -> 1 [] h \in {2, 3} -> 2 [] h = 4 -> 3]
TwinParent  == [h \in TwinHash |-> CASE h = 1 -> None [] h \in {2, 3} -> 1 [] h = 4 -> 3]
TwinPrevId  == [h \in TwinHash |-> IF TwinParent[h] = None THEN None ELSE TwinNumber[TwinParent[h]]]
TwinRecords == [h \in TwinHash |-> {h}]
TwinBranch  ==
  LET up[h \in TwinHash] == {h} \cup (IF TwinParent[h] = None THEN {} ELSE up[TwinParent[h]])
  IN  up
=============================================================================
