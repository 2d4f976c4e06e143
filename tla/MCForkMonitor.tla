---------------------------- MODULE MCForkMonitor ----------------------------
(***************************************************************************)
(* Headers for TLC: a fork at each of two heights, both competing blocks   *)
(* of the upper one on the branch of a1.  Finality can take the heights    *)
(* one by one or skip the lower one, a node can lag a height behind, and   *)
(* the lower height can be pruned and forked again by late deliveries.     *)
(***************************************************************************)
EXTENDS ForkMonitor, TLC

CONSTANTS a1, b1, a2, b2

MCBlock == {a1, b1, a2, b2}
MCMaxHeight == 2
MCNumber == [b \in MCBlock |-> IF b \in {a2, b2} THEN 2 ELSE 1]
MCParent == [b \in MCBlock |-> IF b \in {a2, b2} THEN a1 ELSE NoBlock]

\* nodes are interchangeable, and so are the two leaves at height 2
MCSymmetry == Permutations(Node) \cup Permutations({a2, b2})

=============================================================================
