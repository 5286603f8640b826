----------------------------- MODULE MCMempool -----------------------------
(***************************************************************************)
(* One wallet with transfers of nonce 1 (1, 2), the node, which is the      *)
(* founder, with its heartbeat (4), and bob, who asks to join (5).          *)
(***************************************************************************)
EXTENDS Mempool, TLC

CONSTANTS alice, bob, node

MCSender == [r \in Record |-> IF r \in Transfer THEN alice ELSE IF r \in Heartbeat THEN node ELSE bob]
MCNonce  == [r \in Transfer |-> 1]
=============================================================================
