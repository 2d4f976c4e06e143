-------------------------- MODULE MCForkAttribution --------------------------
(* Three blocks: the first two built on different relay blocks of one number, *)
(* the third by the first one's author on the next relay block.  The inherent *)
(* of the second shows no relay number.                                       *)
EXTENDS ForkAttribution, TLC

CONSTANTS b1, b2, b3, al, bo

MCAuthor == b1 :> al @@ b2 :> bo @@ b3 :> al
MCParaParent == b1 :> "p" @@ b2 :> "p" @@ b3 :> "q"
MCRelayNumber == b1 :> 1 @@ b2 :> 1 @@ b3 :> 2
MCRelayRoot == b1 :> "x" @@ b2 :> "y" @@ b3 :> "z"

\* the first two on one relay block
MCSharedRoot == b1 :> "x" @@ b2 :> "x" @@ b3 :> "z"

=============================================================================
