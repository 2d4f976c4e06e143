------------------------------- MODULE MCTxPool -------------------------------
(***************************************************************************)
(* Headers, bodies and a pool for TLC: one fork.  Two transactions of the  *)
(* losing block are seen in the pool as well; one of them shares its nonce *)
(* with a transaction of the winner, the other expires.                    *)
(***************************************************************************)
EXTENDS TxMonitor

CONSTANTS a1, b1, seen, stuck, replacement, k1, k2

MCBlock == {a1, b1}
MCMaxHeight == 1
MCNumber == [b \in MCBlock |-> 1]
MCParent == [b \in MCBlock |-> NoBlock]

MCTx == {seen, stuck, replacement}
MCKey == [t \in MCTx |-> IF t = seen THEN k1 ELSE k2]
MCDeath == [t \in MCTx |-> IF t = seen THEN 1 ELSE 2]
MCBody == [b \in MCBlock |-> IF b = b1 THEN {seen, stuck} ELSE {replacement}]

=============================================================================
