------------------------------ MODULE MCTxPool ------------------------------
(***************************************************************************)
(* One account sends nonces 0 to 2, nonce 1 twice: a1x outbids a1 and      *)
(* expires at block 2.  The ready queue holds two transactions, the future *)
(* queue one, so that limits, replacement, expiry and promotion all occur. *)
(***************************************************************************)
EXTENDS TxPool
CONSTANTS a0, a1, a1x, a2
Nonce == (a0 :> 0) @@ (a1 :> 1) @@ (a1x :> 1) @@ (a2 :> 2)
MCProvides == [h \in Txs |-> {Nonce[h]}]
MCRequires == [h \in Txs |-> IF Nonce[h] = 0 THEN {} ELSE {Nonce[h] - 1}]
MCPriority == (a0 :> 1) @@ (a1 :> 1) @@ (a1x :> 2) @@ (a2 :> 2)
MCValidTill == [h \in Txs |-> IF h = a1x THEN 2 ELSE 9]
MCOrders == LET all == <<a0, a1, a1x, a2>> IN {Listed(Txs, all), Listed(Txs, Reverse(all))}
=============================================================================
