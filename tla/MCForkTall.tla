----------------------------- MODULE MCForkTall -----------------------------
(***************************************************************************)
(* Headers for TLC: two branches over three heights, so that runs of       *)
(* forked heights, finality that skips heights, pruning below them and     *)
(* walks through pruned headers all occur, without a database.             *)
(***************************************************************************)
EXTENDS ForkMonitor, TLC

CONSTANTS a1, b1, a2, b2, a3

MCBlock == {a1, b1, a2, b2, a3}
MCMaxHeight == 3
MCNumber == [b \in MCBlock |-> IF b \in {a1, b1} THEN 1 ELSE IF b \in {a2, b2} THEN 2 ELSE 3]
MCParent == [b \in MCBlock |-> CASE b = a2 -> a1
                                 [] b = b2 -> b1
                                 [] b = a3 -> a2
                                 [] OTHER  -> NoBlock]

\* nodes are interchangeable
MCSymmetry == Permutations(Node)

=============================================================================
