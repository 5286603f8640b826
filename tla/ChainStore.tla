----------------------------- MODULE ChainStore -----------------------------
(***************************************************************************)
(* What a node's block store promises the rest of the node: it learns a     *)
(* block only after the block's parent, and once it is open it forgets no   *)
(* block and its head, when it has one, is a block it knows.  A store that   *)
(* is not open yet may start over.  Which known block is the head is for     *)
(* the fork choice to say.                                                  *)
(***************************************************************************)
CONSTANTS Hash, Genesis, Parent, None

VARIABLES known, head, open

Init ==
  /\ known = {}
  /\ head = None
  /\ open = FALSE

Learn(b) ==
  /\ b = Genesis \/ Parent[b] \in known
  /\ known' = known \cup {b}
  /\ UNCHANGED <<head, open>>

ChooseHead ==
  /\ head' \in known
  /\ UNCHANGED <<known, open>>

Open ==
  /\ Genesis \in known
  /\ open' = TRUE
  /\ UNCHANGED <<known, head>>

Reset ==
  /\ ~open
  /\ known' = {}
  /\ head' = None
  /\ UNCHANGED open

Next == (\E b \in Hash : Learn(b)) \/ ChooseHead \/ Open \/ Reset

Spec == Init /\ [][Next]_<<known, head, open>>
=============================================================================
