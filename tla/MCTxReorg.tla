------------------------------- MODULE MCTxReorg -------------------------------
(***************************************************************************)
(* Headers and bodies for TLC: two branches from height 1, of which that   *)
(* of a1 may go on to height 4.  Of the transactions in the losing blocks  *)
(* one is in the winner as well, one is replaced by another with its       *)
(* nonce, one is included again unchanged just when its grace period ends, *)
(* and one expires.                                                        *)
(***************************************************************************)
EXTENDS TxMonitor

CONSTANTS a1, b1, a2, b2, a3, a4, shared, lost, replacement, late, mortal, k1, k2, k3, k4

MCBlock == {a1, b1, a2, b2, a3, a4}
MCMaxHeight == 4
MCNumber ==
    [b \in MCBlock |->
        IF b \in {a1, b1} THEN 1 ELSE IF b \in {a2, b2} THEN 2 ELSE IF b = a3 THEN 3 ELSE 4]
MCParent ==
    [b \in MCBlock |->
        CASE b = a2 -> a1
          [] b = b2 -> b1
          [] b = a3 -> a2
          [] b = a4 -> a3
          [] OTHER  -> NoBlock]

MCTx == {shared, lost, replacement, late, mortal}
MCKey ==
    [t \in MCTx |->
        CASE t = shared -> k1
          [] t \in {lost, replacement} -> k2
          [] t = late -> k3
          [] t = mortal -> k4]
MCDeath == [t \in MCTx |-> IF t = mortal THEN 4 ELSE MCMaxHeight + 1]
MCBody ==
    [b \in MCBlock |->
        CASE b = a1 -> {shared}
          [] b = b1 -> {shared, lost, late}
          [] b = a2 -> {replacement}
          [] b = b2 -> {mortal}
          [] b = a3 -> {late}
          [] b = a4 -> {}]

=============================================================================
