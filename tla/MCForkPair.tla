------------------------------ MODULE MCForkPair ------------------------------
(***************************************************************************)
(* The smallest universe with a fork, for liveness: two competing blocks   *)
(* at height 1.  With PruneAfter = 0 the height can be forked, finalized,  *)
(* pruned and forked again.                                                *)
(***************************************************************************)
EXTENDS ForkMonitor

CONSTANTS a1, b1

MCBlock == {a1, b1}
MCMaxHeight == 1
MCNumber == [b \in MCBlock |-> 1]
MCParent == [b \in MCBlock |-> NoBlock]

=============================================================================
