------------------------------ MODULE MCForkLate ------------------------------
(***************************************************************************)
(* Headers for TLC: three competing blocks at height 1, so that a height   *)
(* is forked, updated by a third block, finalized and forked again, and    *)
(* one successor that lets finality skip height 1 and prune it.            *)
(***************************************************************************)
EXTENDS ForkMonitor, TLC

CONSTANTS a1, b1, c1, a2

MCBlock == {a1, b1, c1, a2}
MCMaxHeight == 2
MCNumber == [b \in MCBlock |-> IF b = a2 THEN 2 ELSE 1]
MCParent == [b \in MCBlock |-> IF b = a2 THEN a1 ELSE NoBlock]

\* nodes are interchangeable, and so are the two leaves at height 1
MCSymmetry == Permutations(Node) \cup Permutations({b1, c1})

=============================================================================
