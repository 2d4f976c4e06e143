------------------------------ MODULE BlockTree ------------------------------
(***************************************************************************)
(* The in-memory header store of one chain, src/src/monitor/block-tree.js. *)
(*                                                                         *)
(* A block stands for its hash.  What a header says of itself (its number  *)
(* and its parent) never changes, so both are constants; the rest of a     *)
(* BlockRecord does not influence the tree.  Record objects are identified *)
(* with their hash: a block that was pruned and is delivered again is      *)
(* again the same block, with a fresh seenByNodes.                         *)
(***************************************************************************)
EXTENDS Integers, Sequences, FiniteSets, Functions

CONSTANTS
    Node,       \* the configured nodes of the chain
    Block,      \* the block hashes that can ever be delivered
    NoBlock,    \* a hash no node ever delivers; also JavaScript's null
    MaxHeight,  \* the largest block number
    Number,     \* header.number
    Parent,     \* header.parentHash
    WalkSlack   \* the 100 in getCanonicalAncestorAt's iteration bound

ASSUME ChainAssumption ==
    /\ NoBlock \notin Block
    /\ MaxHeight \in Nat \ {0}
    /\ WalkSlack \in Nat
    /\ Number \in [Block -> 1..MaxHeight]
    /\ Parent \in [Block -> Block \cup {NoBlock}]
    /\ \A b \in Block : Parent[b] \in Block => Number[Parent[b]] = Number[b] - 1

VARIABLES
    byHeight,        \* blocksByHeight: the hashes at a height, in insertion order
    byHash,          \* blocksByHash: the record's seenByNodes, {} when there is no record
    bestHeight,      \* highest number ever added
    finalizedHeight  \* highest finalized number reported by any node

treeVars == <<byHeight, byHash, bestHeight, finalizedHeight>>

Height == 0..MaxHeight

InTree(b) == byHash[b] # {}

TreeTypeOK ==
    /\ byHeight \in [Height -> Seq(Block)]
    /\ byHash \in [Block -> SUBSET Node]
    /\ bestHeight \in Height
    /\ finalizedHeight \in Height

TreeInit ==
    /\ byHeight = [h \in Height |-> <<>>]
    /\ byHash = [b \in Block |-> {}]
    /\ bestHeight = 0
    /\ finalizedHeight = 0

-----------------------------------------------------------------------------
(* Operations *)

\* addBlock, first delivery of a hash
AddNewBlock(b, n) ==
    /\ ~InTree(b)
    /\ byHeight' = [byHeight EXCEPT ![Number[b]] = Append(@, b)]
    /\ byHash' = [byHash EXCEPT ![b] = {n}]
    /\ bestHeight' = IF Number[b] > bestHeight THEN Number[b] ELSE bestHeight

\* addBlock, the hash has a record already
AddKnownBlock(b, n) ==
    /\ InTree(b)
    /\ byHash' = [byHash EXCEPT ![b] = @ \cup {n}]
    /\ UNCHANGED <<byHeight, bestHeight>>

\* the hashes prune finds through the height index and removes from the hash index
PrunedBlocks(k) == UNION {Range(byHeight[h]) : h \in {g \in Height : g <= k}}

\* A variant: only the height index is pruned.
PruneHeightsOnly(k) ==
    /\ byHeight' = [h \in Height |-> IF h <= k THEN <<>> ELSE byHeight[h]]
    /\ UNCHANGED <<byHash, bestHeight>>

Prune(k) ==
    /\ byHeight' = [h \in Height |-> IF h <= k THEN <<>> ELSE byHeight[h]]
    /\ byHash' = [b \in Block |-> IF b \in PrunedBlocks(k) THEN {} ELSE byHash[b]]
    /\ UNCHANGED bestHeight

\* Variants: the height that comes next, and no Math.max.
AdvanceFinalizedPast(k) ==
    finalizedHeight' = IF k + 1 > finalizedHeight THEN k + 1 ELSE finalizedHeight

AdvanceFinalizedToReported(k) == finalizedHeight' = k

\* the assignment of the finalizedHeads handler: several nodes report, some lag
AdvanceFinalized(k) ==
    finalizedHeight' = IF k > finalizedHeight THEN k ELSE finalizedHeight

-----------------------------------------------------------------------------
(* Queries *)

Forked(h) == Len(byHeight[h]) > 1

ForkedHeights == {h \in Height : Forked(h)}

\* A variant: the walk starts at h, which is counted already.
ForkDepthFromSelf(h) ==
    LET run[k \in Height] == IF k > 0 /\ Forked(k) THEN run[k - 1] + 1 ELSE 0
    IN  1 + run[h]

\* consecutive forked heights ending at h, the walk of the while loop
ForkDepth(h) ==
    LET run[k \in Height] == IF k > 0 /\ Forked(k) THEN run[k - 1] + 1 ELSE 0
    IN  1 + run[h - 1]

Lookup(b) == IF b \in Block /\ InTree(b) THEN b ELSE NoBlock

\* A variant: the walk's last block is not compared with the target.
CanonicalAncestorUnchecked(from, target) ==
    LET bound   == bestHeight - target + WalkSlack
        steps   == IF bound > 0 THEN bound ELSE 0
        above(b) == b # NoBlock /\ Number[b] > target
        walk[i \in 0..steps] ==
            IF i = 0 THEN Lookup(from)
            ELSE IF above(walk[i - 1]) THEN Lookup(Parent[walk[i - 1]])
            ELSE walk[i - 1]
    IN  walk[steps]

\* getCanonicalAncestorAt: follow parent links through records still in the tree
CanonicalAncestorAt(from, target) ==
    LET bound   == bestHeight - target + WalkSlack
        steps   == IF bound > 0 THEN bound ELSE 0
        above(b) == b # NoBlock /\ Number[b] > target
        walk[i \in 0..steps] ==
            IF i = 0 THEN Lookup(from)
            ELSE IF above(walk[i - 1]) THEN Lookup(Parent[walk[i - 1]])
            ELSE walk[i - 1]
        last == walk[steps]
    IN  IF last # NoBlock /\ Number[last] = target THEN last ELSE NoBlock

-----------------------------------------------------------------------------
(* The tree on its own: deliveries by any node in any order, finality that  *)
(* may skip heights, and pruning at any height up to the finalized one.     *)

TreeNext ==
    \/ \E b \in Block, n \in Node : AddNewBlock(b, n) /\ UNCHANGED finalizedHeight
    \/ \E b \in Block, n \in Node : AddKnownBlock(b, n) /\ UNCHANGED finalizedHeight
    \/ \E k \in Height : AdvanceFinalized(k) /\ UNCHANGED <<byHeight, byHash, bestHeight>>
    \/ \E k \in 0..finalizedHeight : Prune(k) /\ UNCHANGED finalizedHeight

TreeSpec == TreeInit /\ [][TreeNext]_treeVars

-----------------------------------------------------------------------------
(* Properties *)

\* The two indexes describe the same blocks: a hash is found by its hash
\* exactly when it is found, once, at its own height (addBlock and prune
\* write both maps, prune deletes from one what it found in the other), and
\* bestHeight, which bounds the ancestor walk, is never below a stored block.
IndexesAgree ==
    /\ \A h \in Height : \A i \in DOMAIN byHeight[h] :
          InTree(byHeight[h][i]) /\ Number[byHeight[h][i]] = h
    /\ \A h \in Height : IsInjective(byHeight[h])
    /\ \A b \in Block : InTree(b) => b \in Range(byHeight[Number[b]])
    /\ \A b \in Block : InTree(b) => Number[b] <= bestHeight

\* measureForkDepth counts the forked heights up to and including h down to
\* the first height below h with a single block or none.
ForkDepthIsRunLength ==
    \A h \in ForkedHeights :
        \E lo \in 1..h :
            /\ \A k \in lo..h : Cardinality({b \in Block : InTree(b) /\ Number[b] = k}) > 1
            /\ lo = 1 \/ Cardinality({b \in Block : InTree(b) /\ Number[b] = lo - 1}) < 2
            /\ ForkDepth(h) = h - lo + 1

\* the chain from b down to its ancestor at height t, by the headers alone
Lineage[b \in Block] == {b} \cup (IF Parent[b] \in Block THEN Lineage[Parent[b]] ELSE {})

\* getCanonicalAncestorAt names the ancestor at the target height when every
\* block between is still in the tree, and null when one of them was pruned
\* or never delivered: it never names a competing block, and its iteration
\* bound never cuts a walk that could have succeeded.
CanonicalWalkExact ==
    \A f \in Block, t \in 1..MaxHeight :
        LET path == {b \in Lineage[f] : Number[b] >= t}
        IN  IF (\A b \in path : InTree(b)) /\ \E b \in path : Number[b] = t
            THEN CanonicalAncestorAt(f, t) = CHOOSE b \in path : Number[b] = t
            ELSE CanonicalAncestorAt(f, t) = NoBlock

=============================================================================
