--------------------------- MODULE BlockTree_proofs ---------------------------
(***************************************************************************)
(* What the operations of the block tree preserve, for every set of        *)
(* headers.                                                                *)
(***************************************************************************)
EXTENDS BlockTree, SequenceTheorems, FiniteSetTheorems, WellFoundedInduction, TLAPS

USE ChainAssumption

-----------------------------------------------------------------------------
(* Heights *)

\* Every block has a height above the genesis block's.
LEMMA NumberInHeight ==
    ASSUME NEW b \in Block
    PROVE  Number[b] \in Height /\ Number[b] \in Nat \ {0}
  BY DEF Height

-----------------------------------------------------------------------------
(* Smallest elements *)

\* Every non-empty set of natural numbers has a smallest element.
LEMMA LeastNumber ==
    ASSUME NEW S, S \subseteq Nat, S # {}
    PROVE  \E m \in S : \A j \in S : m <= j
  <1> DEFINE less == OpToRel(<, Nat)
  <1>1. IsWellFoundedOn(less, Nat)
    BY NatLessThanWellFounded
  <1>2. \A j, m \in Nat : j < m => <<j, m>> \in less
    BY DEF OpToRel
  <1> HIDE DEF less
  <1>3. PICK m \in S : \A j \in S : ~(<<j, m>> \in less)
    BY <1>1, WFMin
  <1>4. \A j \in S : ~(j < m)
    BY <1>2, <1>3
  <1>5. QED
    BY <1>4

\* Every non-empty set of blocks has a lowest one.
LEMMA LowestBlock ==
    ASSUME NEW S, S \subseteq Block, S # {}
    PROVE  \E x \in S : \A y \in S : Number[x] <= Number[y]
  <1> DEFINE numbers == {Number[x] : x \in S}
  <1>1. numbers \subseteq Nat /\ numbers # {}
    BY NumberInHeight
  <1>2. PICK m \in numbers : \A j \in numbers : m <= j
    BY <1>1, LeastNumber
  <1>3. PICK x \in S : m = Number[x]
    BY <1>2
  <1>4. QED
    BY <1>2, <1>3

-----------------------------------------------------------------------------
(* Lineages *)

\* What holds of a block when it holds of its parent, if delivered, holds of all.
LEMMA BlockInduction ==
    ASSUME NEW S, \A b \in Block : (Parent[b] \in Block => Parent[b] \in S) => b \in S
    PROVE  Block \subseteq S
  <1> SUFFICES ASSUME Block \ S # {}
               PROVE  FALSE
    OBVIOUS
  <1>1. PICK x \in Block \ S : \A y \in Block \ S : Number[x] <= Number[y]
    BY LowestBlock
  <1>2. Parent[x] \in Block /\ Parent[x] \notin S
    BY <1>1
  <1>3. Number[x] <= Number[Parent[x]]
    BY <1>1, <1>2
  <1>4. Number[Parent[x]] = Number[x] - 1 /\ Number[x] \in Nat
    BY <1>2, NumberInHeight
  <1>5. QED
    BY <1>3, <1>4

\* the blocks a path of parent links leads to from b
Path(p, n, b, c) ==
    /\ p \in [0..n -> Block] /\ p[0] = b /\ p[n] = c
    /\ \A i \in 0..n : i # n => p[i + 1] = Parent[p[i]]

Chain(b) == {c \in Block : \E n \in Nat : \E p : Path(p, n, b, c)}

\* The blocks paths lead to satisfy the recursion of Lineage: the first step
\* of a path is split off, or put in front of one.
LEMMA ChainStep ==
    ASSUME NEW b \in Block
    PROVE  Chain(b) = {b} \cup (IF Parent[b] \in Block THEN Chain(Parent[b]) ELSE {})
  <1>1. b \in Chain(b)
    <2> DEFINE p == [i \in 0..0 |-> b]
    <2>1. Path(p, 0, b, b)
      BY DEF Path
    <2> HIDE DEF p
    <2>2. QED
      BY <2>1 DEF Chain
  <1>2. ASSUME Parent[b] \in Block, NEW c \in Chain(Parent[b])
        PROVE  c \in Chain(b)
    <2>1. PICK n \in Nat : \E q : Path(q, n, Parent[b], c)
      BY DEF Chain
    <2>2. PICK q : Path(q, n, Parent[b], c)
      BY <2>1
    <2> DEFINE p == [i \in 0..(n + 1) |-> IF i = 0 THEN b ELSE q[i - 1]]
    <2>3. q \in [0..n -> Block] /\ q[0] = Parent[b] /\ q[n] = c
      BY <2>2 DEF Path
    <2>4. \A i \in 0..(n + 1) : i # 0 => i - 1 \in 0..n
      OBVIOUS
    <2>5. p \in [0..(n + 1) -> Block]
      BY <2>3, <2>4
    <2>6. p[0] = b /\ p[n + 1] = c
      BY <2>3
    <2>7. ASSUME NEW i \in 0..(n + 1), i # n + 1
          PROVE  p[i + 1] = Parent[p[i]]
      <3>1. p[i + 1] = q[i]
        BY <2>7
      <3>2. CASE i = 0
        BY <3>1, <3>2, <2>3, <2>6
      <3>3. CASE i # 0
        <4>1. p[i] = q[i - 1]
          BY <3>3
        <4>2. i - 1 \in 0..n /\ i - 1 # n /\ (i - 1) + 1 = i
          BY <2>7, <3>3
        <4>3. q[(i - 1) + 1] = Parent[q[i - 1]]
          BY <2>2, <4>2 DEF Path
        <4>4. QED
          BY <3>1, <4>1, <4>2, <4>3
      <3>4. QED
        BY <3>2, <3>3
    <2> HIDE DEF p
    <2>8. Path(p, n + 1, b, c)
      BY <2>5, <2>6, <2>7 DEF Path
    <2>9. n + 1 \in Nat /\ c \in Block
      BY DEF Chain
    <2>10. QED
      BY <2>8, <2>9 DEF Chain
  <1>3. ASSUME NEW c \in Chain(b), c # b
        PROVE  Parent[b] \in Block /\ c \in Chain(Parent[b])
    <2>1. PICK n \in Nat : \E p : Path(p, n, b, c)
      BY DEF Chain
    <2>2. PICK p : Path(p, n, b, c)
      BY <2>1
    <2>3. p \in [0..n -> Block] /\ p[0] = b /\ p[n] = c
      BY <2>2 DEF Path
    <2>4. n # 0 /\ n - 1 \in Nat /\ 0 \in 0..n /\ 0 # n
      BY <1>3, <2>3
    <2>5. p[0 + 1] = Parent[b]
      BY <2>2, <2>3, <2>4 DEF Path
    <2> DEFINE q == [i \in 0..(n - 1) |-> p[i + 1]]
    <2>6. \A i \in 0..(n - 1) : i + 1 \in 0..n
      BY <2>4
    <2>7. q \in [0..(n - 1) -> Block]
      BY <2>3, <2>6
    <2>8. q[0] = Parent[b] /\ q[n - 1] = c
      <3>1. q[0] = p[0 + 1] /\ q[n - 1] = p[(n - 1) + 1] /\ (n - 1) + 1 = n
        BY <2>4
      <3>2. QED
        BY <2>3, <2>5, <3>1
    <2>9. ASSUME NEW i \in 0..(n - 1), i # n - 1
          PROVE  q[i + 1] = Parent[q[i]]
      <3>1. q[i] = p[i + 1] /\ q[i + 1] = p[(i + 1) + 1] /\ i + 1 \in 0..n /\ i + 1 # n
        BY <2>4, <2>9
      <3>2. p[(i + 1) + 1] = Parent[p[i + 1]]
        BY <2>2, <3>1 DEF Path
      <3>3. QED
        BY <3>1, <3>2
    <2> HIDE DEF q
    <2>10. Path(q, n - 1, Parent[b], c)
      BY <2>7, <2>8, <2>9 DEF Path
    <2>11. Parent[b] \in Block
      <3>1. 0 + 1 \in 0..n
        BY <2>4
      <3>2. QED
        BY <2>3, <2>5, <3>1
    <2>12. c \in Block
      BY DEF Chain
    <2>13. QED
      BY <2>4, <2>10, <2>11, <2>12 DEF Chain
  <1>4. QED
    BY <1>1, <1>2, <1>3

\* The recursion that defines Lineage has a solution, so Lineage is one.
LEMMA LineageStep ==
    /\ Lineage = [b \in Block |-> Lineage[b]]
    /\ \A b \in Block :
          Lineage[b] = {b} \cup (IF Parent[b] \in Block THEN Lineage[Parent[b]] ELSE {})
  <1> DEFINE step(f) == [b \in Block |-> {b} \cup (IF Parent[b] \in Block THEN f[Parent[b]] ELSE {})]
             chain == [b \in Block |-> Chain(b)]
  <1>1. chain = step(chain)
    BY ChainStep
  <1>2. Lineage = CHOOSE f : f = step(f)
    BY DEF Lineage
  <1>3. Lineage = step(Lineage)
    <2> HIDE DEF chain, step
    <2>1. QED
      BY <1>1, <1>2
  <1>4. QED
    BY <1>3

\* The lineage of a block: it is in it, with the lineage of every member, and of
\* two members one is in the lineage of the other.
LEMMA LineageFacts ==
    /\ Lineage \in [Block -> SUBSET Block]
    /\ \A b \in Block : b \in Lineage[b]
    /\ \A b \in Block : \A c \in Lineage[b] : Lineage[c] \subseteq Lineage[b]
    /\ \A b \in Block : \A c, d \in Lineage[b] : c \in Lineage[d] \/ d \in Lineage[c]
  <1>1. \A b \in Block : b \in Lineage[b]
    BY LineageStep
  <1>2. ASSUME NEW b \in Block, NEW c \in Lineage[b], c # b
        PROVE  Parent[b] \in Block /\ c \in Lineage[Parent[b]] /\ Lineage[Parent[b]] \subseteq Lineage[b]
    BY <1>2, LineageStep
  <1>3. Lineage \in [Block -> SUBSET Block]
    <2> DEFINE S == {b \in Block : Lineage[b] \subseteq Block}
    <2>1. ASSUME NEW b \in Block, Parent[b] \in Block => Parent[b] \in S
          PROVE  b \in S
      BY <1>2, <2>1
    <2>2. Block \subseteq S
      <3> HIDE DEF S
      <3>1. QED
        BY <2>1, BlockInduction
    <2>3. \A b \in Block : Lineage[b] \in SUBSET Block
      BY <2>2
    <2>4. Lineage = [b \in Block |-> Lineage[b]]
      BY LineageStep
    <2>5. QED
      BY <2>3, <2>4
  <1>4. \A b \in Block : \A c \in Lineage[b] : Lineage[c] \subseteq Lineage[b]
    <2> DEFINE S == {b \in Block : \A c \in Lineage[b] : Lineage[c] \subseteq Lineage[b]}
    <2>1. ASSUME NEW b \in Block, Parent[b] \in Block => Parent[b] \in S
          PROVE  b \in S
      <3>1. ASSUME NEW c \in Lineage[b], c # b
            PROVE  Lineage[c] \subseteq Lineage[b]
        BY <1>2, <2>1, <3>1
      <3>2. QED
        BY <3>1
    <2>2. Block \subseteq S
      <3> HIDE DEF S
      <3>1. QED
        BY <2>1, BlockInduction
    <2>3. QED
      BY <2>2
  <1>5. \A b \in Block : \A c, d \in Lineage[b] : c \in Lineage[d] \/ d \in Lineage[c]
    <2> DEFINE S == {b \in Block : \A c, d \in Lineage[b] : c \in Lineage[d] \/ d \in Lineage[c]}
    <2>1. ASSUME NEW b \in Block, Parent[b] \in Block => Parent[b] \in S
          PROVE  b \in S
      <3>1. ASSUME NEW c \in Lineage[b], NEW d \in Lineage[b]
            PROVE  c \in Lineage[d] \/ d \in Lineage[c]
        <4>1. CASE c = b \/ d = b
          BY <3>1, <4>1
        <4>2. CASE c # b /\ d # b
          <5>1. Parent[b] \in Block /\ c \in Lineage[Parent[b]] /\ d \in Lineage[Parent[b]]
            BY <1>2, <4>2
          <5>2. QED
            BY <2>1, <5>1
        <4>3. QED
          BY <4>1, <4>2
      <3>2. QED
        BY <3>1
    <2>2. Block \subseteq S
      <3> HIDE DEF S
      <3>1. QED
        BY <2>1, BlockInduction
    <2>3. QED
      BY <2>2
  <1>6. QED
    BY <1>1, <1>3, <1>4, <1>5

-----------------------------------------------------------------------------
(* Types *)

\* Adding a block keeps the types of the tree.
LEMMA AddNewBlockType ==
    ASSUME TreeTypeOK, NEW b \in Block, NEW n \in Node, AddNewBlock(b, n)
    PROVE  /\ byHeight' \in [Height -> Seq(Block)]
           /\ byHash' \in [Block -> SUBSET Node]
           /\ bestHeight' \in Height
           /\ byHeight'[Number[b]] \in Seq(Block)
  <1>1. Append(byHeight[Number[b]], b) \in Seq(Block)
    BY NumberInHeight, AppendProperties DEF TreeTypeOK
  <1>2. QED
    BY <1>1, NumberInHeight DEF TreeTypeOK, AddNewBlock

\* Pruning keeps the types of the tree.
LEMMA PruneType ==
    ASSUME TreeTypeOK, NEW k \in Int, Prune(k)
    PROVE  /\ byHeight' \in [Height -> Seq(Block)]
           /\ byHash' \in [Block -> SUBSET Node]
           /\ bestHeight' \in Height
  <1>1. <<>> \in Seq(Block)
    BY EmptySeq
  <1>2. QED
    BY <1>1 DEF TreeTypeOK, Prune

\* finalizedHeight becomes at least the reported number and never decreases.
LEMMA AdvanceFinalizedBound ==
    ASSUME TreeTypeOK, NEW k \in Height, AdvanceFinalized(k)
    PROVE  /\ finalizedHeight' \in Height
           /\ finalizedHeight' >= finalizedHeight
           /\ finalizedHeight' >= k
  BY DEF TreeTypeOK, AdvanceFinalized, Height

-----------------------------------------------------------------------------
(* Forked heights *)

\* Adding a block can only turn its own height into a forked one.
LEMMA AddNewBlockForks ==
    ASSUME TreeTypeOK, NEW b \in Block, NEW n \in Node, AddNewBlock(b, n), NEW h \in Height
    PROVE  /\ Forked(h) => Forked(h)'
           /\ h # Number[b] => (Forked(h)' <=> Forked(h))
           /\ h = Number[b] => (Forked(h)' <=> Len(byHeight'[h]) > 1)
  <1>1. CASE h # Number[b]
    BY <1>1 DEF Forked, AddNewBlock, TreeTypeOK
  <1>2. CASE h = Number[b]
    <2>1. byHeight'[h] = Append(byHeight[h], b)
      BY <1>2 DEF AddNewBlock, TreeTypeOK
    <2>2. byHeight[h] \in Seq(Block)
      BY DEF TreeTypeOK
    <2>3. Len(Append(byHeight[h], b)) = Len(byHeight[h]) + 1
      BY <2>2, AppendProperties
    <2>4. Len(byHeight[h]) \in Nat
      BY <2>2, LenProperties
    <2>5. QED
      BY <1>2, <2>1, <2>3, <2>4 DEF Forked
  <1>3. QED
    BY <1>1, <1>2

\* After a prune the forked heights are those that were forked and are kept.
LEMMA PruneForks ==
    ASSUME TreeTypeOK, NEW k \in Int, Prune(k), NEW h \in Height
    PROVE  Forked(h)' <=> h > k /\ Forked(h)
  <1>1. Len(<<>>) = 0
    BY EmptySeq
  <1>2. h \in Int
    BY DEF Height
  <1>3. QED
    BY <1>1, <1>2 DEF Prune, Forked

-----------------------------------------------------------------------------
(* The two indexes *)

\* A new hash enters both indexes, at its own height and only once.
LEMMA AddNewBlockIndexes ==
    ASSUME TreeTypeOK, IndexesAgree, NEW b \in Block, NEW n \in Node, AddNewBlock(b, n)
    PROVE  IndexesAgree'
  <1> DEFINE g == Number[b]
             old == byHeight[g]
             new == byHeight'[g]
             held(x) == byHash'[x] # {}
  <1>1. /\ g \in Height /\ old \in Seq(Block) /\ Len(old) \in Nat
        /\ DOMAIN old = 1..Len(old)
    BY NumberInHeight, LenProperties DEF TreeTypeOK
  <1>2. /\ new = Append(old, b) /\ new \in Seq(Block)
        /\ \A h \in Height : h # g => byHeight'[h] = byHeight[h]
    BY <1>1, AddNewBlockType DEF AddNewBlock, TreeTypeOK
  <1>3. /\ Len(new) = Len(old) + 1
        /\ \A i \in 1..Len(old) : new[i] = old[i]
        /\ new[Len(old) + 1] = b
    BY <1>1, <1>2, AppendProperties
  <1>4. DOMAIN new = 1..(Len(old) + 1)
    BY <1>2, <1>3, LenProperties
  <1>5. \A c \in Block : held(c) <=> InTree(c) \/ c = b
    BY DEF AddNewBlock, InTree, TreeTypeOK
  <1>6. \A i \in 1..Len(old) : old[i] # b /\ InTree(old[i]) /\ Number[old[i]] = g
    BY <1>1 DEF IndexesAgree, AddNewBlock
  <1>7. \A h \in Height : \A i \in DOMAIN byHeight'[h] :
           held(byHeight'[h][i]) /\ Number[byHeight'[h][i]] = h
    <2>1. ASSUME NEW h \in Height, h # g, NEW i \in DOMAIN byHeight'[h]
          PROVE  held(byHeight'[h][i]) /\ Number[byHeight'[h][i]] = h
      <3>1. byHeight'[h] = byHeight[h] /\ byHeight[h] \in Seq(Block)
        BY <1>2, <2>1 DEF TreeTypeOK
      <3>2. byHeight[h][i] \in Block
        BY <2>1, <3>1, ElementOfSeq, LenProperties
      <3>3. InTree(byHeight[h][i]) /\ Number[byHeight[h][i]] = h
        BY <2>1, <3>1 DEF IndexesAgree
      <3>4. QED
        BY <1>5, <3>1, <3>2, <3>3
    <2>2. ASSUME NEW i \in DOMAIN new
          PROVE  held(new[i]) /\ Number[new[i]] = g
      <3>1. CASE i = Len(old) + 1
        BY <1>3, <1>5, <3>1
      <3>2. CASE i \in 1..Len(old)
        <4>1. new[i] = old[i] /\ old[i] \in Block
          BY <1>1, <1>3, <3>2, ElementOfSeq
        <4>2. QED
          BY <1>5, <1>6, <3>2, <4>1
      <3>3. QED
        BY <1>1, <1>4, <2>2, <3>1, <3>2
    <2>3. QED
      BY <2>1, <2>2
  <1>8. \A h \in Height : IsInjective(byHeight'[h])
    <2>1. ASSUME NEW h \in Height, h # g
          PROVE  IsInjective(byHeight'[h])
      BY <1>2, <2>1 DEF IndexesAgree
    <2>2. IsInjective(old)
      BY <1>1 DEF IndexesAgree
    <2>3. IsInjective(new)
      <3> SUFFICES ASSUME NEW i \in DOMAIN new, NEW j \in DOMAIN new, new[i] = new[j]
                   PROVE  i = j
        BY DEF IsInjective
      <3>1. i \in 1..Len(old) \/ i = Len(old) + 1
        BY <1>1, <1>4
      <3>2. j \in 1..Len(old) \/ j = Len(old) + 1
        BY <1>1, <1>4
      <3>3. QED
        BY <1>1, <1>3, <1>6, <2>2, <3>1, <3>2 DEF IsInjective
    <2>4. QED
      BY <2>1, <2>3
  <1>9. \A c \in Block : held(c) => c \in Range(byHeight'[Number[c]])
    <2> SUFFICES ASSUME NEW c \in Block, held(c)
                 PROVE  \E i \in DOMAIN byHeight'[Number[c]] : byHeight'[Number[c]][i] = c
      BY DEF Range
    <2>1. CASE c = b
      <3>1. Len(old) + 1 \in DOMAIN new
        BY <1>1, <1>4
      <3>2. QED
        BY <1>3, <2>1, <3>1
    <2>2. CASE c # b
      <3>1. InTree(c)
        BY <1>5, <2>2
      <3>2. PICK i \in DOMAIN byHeight[Number[c]] : byHeight[Number[c]][i] = c
        BY <3>1 DEF IndexesAgree, Range
      <3>3. CASE Number[c] = g
        <4>1. i \in 1..Len(old) /\ old[i] = c
          BY <1>1, <3>2, <3>3
        <4>2. i \in DOMAIN new /\ new[i] = c
          BY <1>1, <1>3, <1>4, <4>1
        <4>3. QED
          BY <3>3, <4>2
      <3>4. CASE Number[c] # g
        BY <1>2, <3>2, <3>4, NumberInHeight
      <3>5. QED
        BY <3>3, <3>4
    <2>3. QED
      BY <2>1, <2>2
  <1>10. \A c \in Block : held(c) => Number[c] <= bestHeight'
    <2>1. bestHeight \in Int /\ \A c \in Block : Number[c] \in Int
      BY NumberInHeight DEF TreeTypeOK, Height
    <2>2. bestHeight' = IF g > bestHeight THEN g ELSE bestHeight
      BY DEF AddNewBlock
    <2>3. QED
      BY <1>5, <2>1, <2>2 DEF IndexesAgree
  <1>11. QED
    BY <1>7, <1>8, <1>9, <1>10 DEF IndexesAgree, InTree

\* A repeated delivery changes neither index.
LEMMA AddKnownBlockIndexes ==
    ASSUME TreeTypeOK, IndexesAgree, NEW b \in Block, NEW n \in Node, AddKnownBlock(b, n)
    PROVE  IndexesAgree'
  <1> DEFINE held(x) == byHash'[x] # {}
  <1>1. UNCHANGED <<byHeight, bestHeight>>
    BY DEF AddKnownBlock
  <1>2. \A c \in Block : held(c) <=> InTree(c)
    BY DEF AddKnownBlock, InTree, TreeTypeOK
  <1>3. \A h \in Height : \A i \in DOMAIN byHeight[h] : byHeight[h][i] \in Block
    BY ElementOfSeq, LenProperties DEF TreeTypeOK
  <1>4. QED
    BY <1>1, <1>2, <1>3 DEF IndexesAgree, InTree

\* A prune removes the same blocks from both indexes: those at or below k.
LEMMA PruneIndexes ==
    ASSUME TreeTypeOK, IndexesAgree, NEW k \in Int, Prune(k)
    PROVE  /\ IndexesAgree'
           /\ \A b \in Block : InTree(b)' <=> InTree(b) /\ Number[b] > k
  <1> DEFINE held(x) == byHash'[x] # {}
  <1>1. \A h \in Height : \A i \in DOMAIN byHeight[h] :
           byHeight[h][i] \in Block /\ Number[byHeight[h][i]] = h
    BY ElementOfSeq, LenProperties DEF TreeTypeOK, IndexesAgree
  <1>2. \A b \in Block : Number[b] \in Height /\ Number[b] \in Int
    BY NumberInHeight
  <1>3. \A b \in Block : InTree(b) => (b \in PrunedBlocks(k) <=> Number[b] <= k)
    <2> SUFFICES ASSUME NEW b \in Block, InTree(b)
                 PROVE  b \in PrunedBlocks(k) <=> Number[b] <= k
      OBVIOUS
    <2>1. ASSUME b \in PrunedBlocks(k)
          PROVE  Number[b] <= k
      <3>1. PICK h \in Height : h <= k /\ b \in Range(byHeight[h])
        BY <2>1 DEF PrunedBlocks
      <3>2. Number[b] = h
        BY <1>1, <3>1 DEF Range
      <3>3. QED
        BY <3>1, <3>2
    <2>2. ASSUME Number[b] <= k
          PROVE  b \in PrunedBlocks(k)
      BY <1>2, <2>2 DEF PrunedBlocks, IndexesAgree
    <2>3. QED
      BY <2>1, <2>2
  <1>4. \A b \in Block : held(b) <=> InTree(b) /\ Number[b] > k
    BY <1>2, <1>3 DEF Prune, InTree
  <1>5. \A h \in Height : byHeight'[h] = IF h <= k THEN <<>> ELSE byHeight[h]
    BY DEF Prune
  <1>6. DOMAIN <<>> = {} /\ \A i, j \in DOMAIN <<>> : <<>>[i] = <<>>[j] => i = j
    BY EmptySeq, LenProperties
  <1>7. \A h \in Height : \A i \in DOMAIN byHeight'[h] :
           held(byHeight'[h][i]) /\ Number[byHeight'[h][i]] = h
    <2> SUFFICES ASSUME NEW h \in Height, NEW i \in DOMAIN byHeight'[h]
                 PROVE  held(byHeight'[h][i]) /\ Number[byHeight'[h][i]] = h
      OBVIOUS
    <2>1. ~(h <= k) /\ byHeight'[h] = byHeight[h]
      BY <1>5, <1>6
    <2>2. /\ byHeight[h][i] \in Block /\ Number[byHeight[h][i]] = h
          /\ InTree(byHeight[h][i])
      BY <1>1, <2>1 DEF IndexesAgree
    <2>3. Number[byHeight[h][i]] > k
      BY <1>2, <2>1, <2>2
    <2>4. QED
      BY <1>4, <2>1, <2>2, <2>3
  <1>8. \A h \in Height : IsInjective(byHeight'[h])
    BY <1>5, <1>6 DEF IndexesAgree, IsInjective
  <1>9. \A b \in Block : held(b) => b \in Range(byHeight'[Number[b]])
    BY <1>2, <1>4, <1>5 DEF IndexesAgree
  <1>10. \A b \in Block : held(b) => Number[b] <= bestHeight'
    BY <1>4 DEF Prune, IndexesAgree
  <1>11. QED
    BY <1>4, <1>7, <1>8, <1>9, <1>10 DEF IndexesAgree, InTree

\* The empty tree.
LEMMA TreeInitIndexes == TreeInit => TreeTypeOK /\ IndexesAgree
  <1>1. <<>> \in Seq(Block) /\ DOMAIN <<>> = {}
    BY EmptySeq, LenProperties
  <1>2. 0 \in Height
    BY DEF Height
  <1>3. QED
    BY <1>1, <1>2 DEF TreeInit, TreeTypeOK, IndexesAgree, InTree, IsInjective

\* However blocks are added and pruned, both indexes hold the same blocks.
THEOREM IndexesAlwaysAgree == TreeSpec => [](TreeTypeOK /\ IndexesAgree)
  <1>1. TreeTypeOK /\ IndexesAgree /\ [TreeNext]_treeVars => TreeTypeOK' /\ IndexesAgree'
    <2> SUFFICES ASSUME TreeTypeOK, IndexesAgree, [TreeNext]_treeVars
                 PROVE  TreeTypeOK' /\ IndexesAgree'
      OBVIOUS
    <2>1. ASSUME NEW b \in Block, NEW n \in Node, AddNewBlock(b, n), UNCHANGED finalizedHeight
          PROVE  TreeTypeOK' /\ IndexesAgree'
      BY <2>1, AddNewBlockType, AddNewBlockIndexes DEF TreeTypeOK
    <2>2. ASSUME NEW b \in Block, NEW n \in Node, AddKnownBlock(b, n), UNCHANGED finalizedHeight
          PROVE  TreeTypeOK' /\ IndexesAgree'
      BY <2>2, AddKnownBlockIndexes DEF TreeTypeOK, AddKnownBlock
    <2>3. ASSUME NEW k \in Height, AdvanceFinalized(k), UNCHANGED <<byHeight, byHash, bestHeight>>
          PROVE  TreeTypeOK' /\ IndexesAgree'
      BY <2>3, AdvanceFinalizedBound DEF TreeTypeOK, IndexesAgree, InTree
    <2>4. ASSUME NEW k \in 0..finalizedHeight, Prune(k), UNCHANGED finalizedHeight
          PROVE  TreeTypeOK' /\ IndexesAgree'
      BY <2>4, PruneType, PruneIndexes DEF TreeTypeOK
    <2>5. CASE UNCHANGED treeVars
      BY <2>5 DEF treeVars, TreeTypeOK, IndexesAgree, InTree
    <2>6. QED
      BY <2>1, <2>2, <2>3, <2>4, <2>5 DEF TreeNext
  <1>2. QED
    BY <1>1, TreeInitIndexes, PTL DEF TreeSpec

-----------------------------------------------------------------------------
(* Recursion over a range of numbers *)

\* A set of numbers that has 0 and the successor of each of its members has all.
LEMMA NatSetInduction ==
    ASSUME NEW S, 0 \in S, \A n \in Nat : n \in S => n + 1 \in S
    PROVE  Nat \subseteq S
  <1> SUFFICES ASSUME Nat \ S # {}
               PROVE  FALSE
    OBVIOUS
  <1>1. PICK m \in Nat \ S : \A j \in Nat \ S : m <= j
    BY LeastNumber
  <1>2. m # 0
    OBVIOUS
  <1>3. m - 1 \in Nat /\ (m - 1) + 1 = m
    BY <1>2
  <1>4. m - 1 \in S
    BY <1>1, <1>3
  <1>5. QED
    BY <1>3, <1>4

\* g gives, from base on, each value from the one before it.
Solves(g, D, base, n, next) ==
    /\ g \in [0..n -> D]
    /\ g[0] = base
    /\ \A i \in 0..n : i # 0 => g[i] = next[i][g[i - 1]]

\* A recursion that gives each value from the one before it has a solution.
LEMMA RecursionSolved ==
    ASSUME NEW D, NEW base \in D, NEW n \in Nat, NEW next \in [Nat -> [D -> D]]
    PROVE  \E g : Solves(g, D, base, n, next)
  <1> DEFINE solves(g, m) == g[0] = base /\ \A i \in 0..m : i # 0 => g[i] = next[i][g[i - 1]]
             S == {m \in Nat : \E g \in [0..m -> D] : solves(g, m)}
  <1>1. 0 \in S
    <2> DEFINE g == [i \in 0..0 |-> base]
    <2>1. g \in [0..0 -> D]
      OBVIOUS
    <2>2. solves(g, 0)
      OBVIOUS
    <2>3. QED
      BY <2>1, <2>2
  <1>2. ASSUME NEW m \in Nat, m \in S
        PROVE  m + 1 \in S
    <2>1. PICK g \in [0..m -> D] : solves(g, m)
      BY <1>2
    <2> DEFINE v == next[m + 1][g[m]]
               q == [i \in 0..(m + 1) |-> IF i = m + 1 THEN v ELSE g[i]]
    <2>2. v \in D
      <3>1. g[m] \in D /\ m + 1 \in Nat
        BY <2>1
      <3>2. QED
        BY <3>1
    <2>3. \A i \in 0..(m + 1) : i # m + 1 => i \in 0..m
      OBVIOUS
    <2> HIDE DEF v
    <2>4. q \in [0..(m + 1) -> D]
      BY <2>1, <2>2, <2>3
    <2>5. ASSUME NEW i \in 0..(m + 1)
          PROVE  (i = 0 => q[i] = base) /\ (i # 0 => q[i] = next[i][q[i - 1]])
      <3>1. CASE i = m + 1
        <4>1. i # 0 /\ i - 1 = m /\ m \in 0..(m + 1) /\ m # m + 1
          BY <3>1
        <4>2. q[i - 1] = g[m] /\ q[i] = v
          BY <3>1, <4>1
        <4>3. QED
          BY <3>1, <4>1, <4>2 DEF v
      <3>2. CASE i = 0
        <4>1. i # m + 1 /\ 0 \in 0..m
          BY <3>2
        <4>2. q[i] = g[0] /\ g[0] = base
          BY <2>1, <3>2, <4>1
        <4>3. QED
          BY <3>2, <4>2
      <3>3. CASE i # 0 /\ i # m + 1
        <4>1. i \in 0..m /\ i - 1 \in 0..(m + 1) /\ i - 1 # m + 1
          BY <3>3
        <4>2. q[i] = g[i] /\ q[i - 1] = g[i - 1]
          BY <3>3, <4>1
        <4>3. g[i] = next[i][g[i - 1]]
          BY <2>1, <3>3, <4>1
        <4>4. QED
          BY <3>3, <4>2, <4>3
      <3>4. QED
        BY <3>1, <3>2, <3>3
    <2>6. solves(q, m + 1)
      <3>1. 0 \in 0..(m + 1)
        OBVIOUS
      <3> HIDE DEF q
      <3>2. QED
        BY <2>5, <3>1
    <2> HIDE DEF q
    <2>7. m + 1 \in Nat
      OBVIOUS
    <2>8. QED
      <3> HIDE DEF solves
      <3>1. QED
        BY <2>4, <2>6, <2>7
  <1>3. Nat \subseteq S
    <2> HIDE DEF S
    <2>1. QED
      BY <1>1, <1>2, NatSetInduction
  <1>4. PICK g \in [0..n -> D] : solves(g, n)
    BY <1>3
  <1>5. QED
    BY <1>4 DEF Solves

-----------------------------------------------------------------------------
(* Numbers within a lineage *)

\* Numbers go down along a lineage, so it has one block of each number at most.
LEMMA LineageNumbers ==
    /\ \A b \in Block : \A c \in Lineage[b] : c = b \/ Number[c] < Number[b]
    /\ \A b \in Block : \A c, d \in Lineage[b] : Number[c] = Number[d] => c = d
  <1> DEFINE S == {b \in Block : \A c \in Lineage[b] : c = b \/ Number[c] < Number[b]}
  <1>1. ASSUME NEW b \in Block, Parent[b] \in Block => Parent[b] \in S
        PROVE  b \in S
    <2> SUFFICES ASSUME NEW c \in Lineage[b], c # b
                 PROVE  Number[c] < Number[b]
      OBVIOUS
    <2>1. Parent[b] \in Block /\ c \in Lineage[Parent[b]]
      BY LineageStep
    <2>2. c = Parent[b] \/ Number[c] < Number[Parent[b]]
      BY <1>1, <2>1
    <2>3. Number[Parent[b]] = Number[b] - 1 /\ Number[b] \in Nat
      BY <2>1, NumberInHeight
    <2>4. c \in Block /\ Number[c] \in Nat
      BY LineageFacts, NumberInHeight
    <2>5. QED
      BY <2>2, <2>3, <2>4
  <1>2. Block \subseteq S
    <2> HIDE DEF S
    <2>1. QED
      BY <1>1, BlockInduction
  <1>3. \A b \in Block : \A c \in Lineage[b] : c = b \/ Number[c] < Number[b]
    BY <1>2
  <1>4. ASSUME NEW b \in Block, NEW c \in Lineage[b], NEW d \in Lineage[b], Number[c] = Number[d]
        PROVE  c = d
    <2>1. c \in Block /\ d \in Block /\ Number[c] \in Nat /\ Number[d] \in Nat
      BY LineageFacts, NumberInHeight
    <2>2. c \in Lineage[d] \/ d \in Lineage[c]
      BY LineageFacts
    <2>3. QED
      BY <1>3, <1>4, <2>1, <2>2
  <1>5. QED
    BY <1>3, <1>4

-----------------------------------------------------------------------------
(* The walk to an ancestor *)

\* The recursion that names the blocks the walk passes has a solution.
LEMMA WalkExists ==
    ASSUME NEW from \in Block, NEW target \in Int, NEW steps \in Nat
    PROVE  \E w : w = [i \in 0..steps |->
              IF i = 0 THEN Lookup(from)
              ELSE IF w[i - 1] # NoBlock /\ Number[w[i - 1]] > target
                   THEN Lookup(Parent[w[i - 1]])
                   ELSE w[i - 1]]
  <1> DEFINE D == Block \cup {NoBlock}
             above(b) == b # NoBlock /\ Number[b] > target
             one == [b \in D |-> IF above(b) THEN Lookup(Parent[b]) ELSE b]
             next == [i \in Nat |-> one]
             start == Lookup(from)
             step(w) == [i \in 0..steps |-> IF i = 0 THEN start
                                            ELSE IF above(w[i - 1]) THEN Lookup(Parent[w[i - 1]])
                                            ELSE w[i - 1]]
  <1>1. (\A b : Lookup(b) \in D) /\ start \in D
    BY DEF Lookup
  <1>2. one \in [D -> D]
    <2> HIDE DEF above
    <2>1. QED
      BY <1>1
  <1>3. next \in [Nat -> [D -> D]]
    <2> HIDE DEF one
    <2>1. QED
      BY <1>2
  <1>4. PICK g : Solves(g, D, start, steps, next)
    <2> HIDE DEF next, D, start
    <2>1. QED
      BY <1>1, <1>3, RecursionSolved
  <1>5. /\ g \in [0..steps -> D] /\ g[0] = start
        /\ \A i \in 0..steps : i # 0 => g[i] = next[i][g[i - 1]]
    <2> HIDE DEF next, D, start
    <2>1. QED
      BY <1>4 DEF Solves
  <1>6. g = step(g)
    <2>1. ASSUME NEW i \in 0..steps
          PROVE  g[i] = step(g)[i]
      <3>1. CASE i = 0
        BY <1>5, <3>1
      <3>2. CASE i # 0
        <4>1. i - 1 \in 0..steps /\ i \in Nat
          BY <3>2
        <4>2. g[i - 1] \in D
          <5> HIDE DEF D
          <5>1. QED
            BY <1>5, <4>1
        <4>3. g[i] = next[i][g[i - 1]]
          <5> HIDE DEF next, start
          <5>1. QED
            BY <1>5, <3>2
        <4>4. next[i] = one
          BY <4>1
        <4>5. one[g[i - 1]] = IF above(g[i - 1]) THEN Lookup(Parent[g[i - 1]]) ELSE g[i - 1]
          <5> HIDE DEF above
          <5>1. QED
            BY <4>2
        <4>6. QED
          <5> HIDE DEF above, one, next
          <5>1. QED
            BY <3>2, <4>3, <4>4, <4>5
      <3>3. QED
        BY <3>1, <3>2
    <2>2. g = [i \in 0..steps |-> g[i]] /\ step(g) = [i \in 0..steps |-> step(g)[i]]
      BY <1>5
    <2>3. QED
      <3> HIDE DEF step
      <3>1. QED
        BY <2>1, <2>2
  <1>7. QED
    BY <1>6

\* A solution starts at the looked-up block and goes from parent to parent down
\* to the target, or ends at no block.
LEMMA WalkSteps ==
    ASSUME NEW from \in Block, NEW target \in Int, NEW steps \in Nat, NEW walk,
           walk = [i \in 0..steps |->
                      IF i = 0 THEN Lookup(from)
                      ELSE IF walk[i - 1] # NoBlock /\ Number[walk[i - 1]] > target
                           THEN Lookup(Parent[walk[i - 1]])
                           ELSE walk[i - 1]]
    PROVE  /\ walk[0] = Lookup(from)
           /\ \A i \in 0..steps : i # steps =>
                 walk[i + 1] = IF walk[i] # NoBlock /\ Number[walk[i]] > target
                               THEN Lookup(Parent[walk[i]])
                               ELSE walk[i]
           /\ \A i \in 0..steps : walk[i] \in Block \cup {NoBlock}
  <1> DEFINE D == Block \cup {NoBlock}
             above(b) == b # NoBlock /\ Number[b] > target
             S == {i \in Nat : i <= steps => walk[i] \in D}
  <1>1. \A b : Lookup(b) \in D
    BY DEF Lookup
  <1>2. walk[0] = Lookup(from)
    OBVIOUS
  <1>3. ASSUME NEW i \in 0..steps, i # steps
        PROVE  walk[i + 1] = IF above(walk[i]) THEN Lookup(Parent[walk[i]]) ELSE walk[i]
    <2>1. i + 1 \in 0..steps /\ i + 1 # 0 /\ (i + 1) - 1 = i
      BY <1>3
    <2>2. QED
      BY <2>1
  <1>4. 0 \in S
    BY <1>1, <1>2
  <1>5. ASSUME NEW i \in Nat, i \in S
        PROVE  i + 1 \in S
    <2> SUFFICES ASSUME i + 1 <= steps
                 PROVE  walk[i + 1] \in D
      OBVIOUS
    <2>1. i \in 0..steps /\ i # steps /\ walk[i] \in D
      BY <1>5
    <2>2. walk[i + 1] = IF above(walk[i]) THEN Lookup(Parent[walk[i]]) ELSE walk[i]
      BY <1>3, <2>1
    <2>3. QED
      <3> HIDE DEF above
      <3>1. QED
        BY <1>1, <2>1, <2>2
  <1>6. Nat \subseteq S
    <2> HIDE ChainAssumption DEF S
    <2>1. \A i \in Nat : i \in S => i + 1 \in S
      BY <1>5
    <2>2. QED
      BY <1>4, <2>1, NatSetInduction
  <1>7. ASSUME NEW i \in 0..steps
        PROVE  walk[i] \in D
    <2>1. i \in Nat /\ i <= steps
      OBVIOUS
    <2>2. i \in S
      <3> HIDE DEF S
      <3>1. QED
        BY <1>6, <2>1
    <2>3. QED
      BY <2>1, <2>2
  <1>8. QED
    BY <1>2, <1>3, <1>7

\* Where the walk is after i steps.  At a block: it is an ancestor of from in the
\* tree, nothing at or above it is missing, and it is i heights down unless the
\* target is reached.  At no block: an ancestor above the target is missing, or
\* the lineage ends above the target.
WalkReached(from, target, i, w) ==
    /\ w # NoBlock =>
          /\ w \in Lineage[from] /\ InTree(w)
          /\ \A d \in Lineage[from] : Number[d] >= Number[w] => InTree(d)
          /\ Number[w] <= target \/ Number[w] = Number[from] - i
          /\ w = from \/ Number[w] >= target
    /\ w = NoBlock =>
          \/ \E d \in Lineage[from] : Number[d] >= target /\ ~InTree(d)
          \/ \A d \in Lineage[from] : Number[d] # target

\* The first look-up.
LEMMA WalkStarts ==
    ASSUME NEW from \in Block, NEW target \in Int
    PROVE  WalkReached(from, target, 0, Lookup(from))
  <1>1. from \in Lineage[from] /\ from # NoBlock /\ Number[from] \in Nat
    BY LineageFacts, NumberInHeight
  <1>2. \A d \in Lineage[from] : d \in Block /\ Number[d] \in Nat
    BY LineageFacts, NumberInHeight
  <1>3. \A d \in Lineage[from] : d = from \/ Number[d] < Number[from]
    BY LineageNumbers
  <1>4. CASE InTree(from)
    <2>1. Lookup(from) = from
      BY <1>4 DEF Lookup
    <2>2. \A d \in Lineage[from] : Number[d] >= Number[from] => d = from
      BY <1>1, <1>2, <1>3
    <2>3. QED
      BY <1>1, <1>4, <2>1, <2>2 DEF WalkReached
  <1>5. CASE ~InTree(from)
    <2>1. Lookup(from) = NoBlock
      BY <1>5 DEF Lookup
    <2>2. Number[from] >= target \/ \A d \in Lineage[from] : Number[d] # target
      BY <1>1, <1>2, <1>3
    <2>3. QED
      BY <1>1, <1>5, <2>1, <2>2 DEF WalkReached
  <1>6. QED
    BY <1>4, <1>5

\* One step of the walk.
LEMMA WalkGoesOn ==
    ASSUME NEW from \in Block, NEW target \in Int, NEW i \in Nat,
           NEW w \in Block \cup {NoBlock}, WalkReached(from, target, i, w),
           NEW v, v = IF w # NoBlock /\ Number[w] > target THEN Lookup(Parent[w]) ELSE w
    PROVE  WalkReached(from, target, i + 1, v)
  <1>1. CASE w = NoBlock
    BY <1>1 DEF WalkReached
  <1>2. CASE w # NoBlock /\ ~(Number[w] > target)
    <2>1. v = w /\ Number[w] <= target
      BY <1>2, NumberInHeight
    <2>2. QED
      BY <1>2, <2>1 DEF WalkReached
  <1>3. CASE w # NoBlock /\ Number[w] > target
    <2> DEFINE p == Parent[w]
    <2>1. /\ w \in Block /\ w \in Lineage[from] /\ InTree(w)
          /\ \A d \in Lineage[from] : Number[d] >= Number[w] => InTree(d)
          /\ Number[w] \in Nat /\ Number[from] \in Nat
          /\ Number[w] = Number[from] - i
      BY <1>3, NumberInHeight DEF WalkReached
    <2>2. v = Lookup(p)
      BY <1>3
    <2>3. CASE p \notin Block
      <3>1. v = NoBlock
        BY <2>2, <2>3 DEF Lookup
      <3>2. Lineage[w] = {w}
        BY <2>1, <2>3, LineageStep
      <3>3. ASSUME NEW d \in Lineage[from], Number[d] = target
            PROVE  FALSE
        <4>1. d \in Block /\ Number[d] \in Nat
          BY LineageFacts, NumberInHeight
        <4>2. d \in Lineage[w] \/ w \in Lineage[d]
          BY <2>1, LineageFacts
        <4>3. d = w \/ Number[w] < Number[d]
          BY <3>2, <4>1, <4>2, LineageNumbers
        <4>4. QED
          BY <1>3, <2>1, <3>3, <4>1, <4>3
      <3>4. QED
        BY <3>1, <3>3 DEF WalkReached
    <2>4. CASE p \in Block
      <3>1. p \in Lineage[from] /\ Number[p] = Number[w] - 1 /\ Number[p] >= target
        <4>1. p \in Lineage[w]
          BY <2>1, <2>4, LineageStep, LineageFacts
        <4>2. p \in Lineage[from]
          BY <2>1, <4>1, LineageFacts
        <4>3. Number[p] = Number[w] - 1
          BY <2>1, <2>4
        <4>4. QED
          BY <1>3, <2>1, <4>2, <4>3
      <3>2. CASE ~InTree(p)
        <4>1. v = NoBlock
          BY <2>2, <3>2 DEF Lookup
        <4>2. QED
          BY <3>1, <3>2, <4>1 DEF WalkReached
      <3>3. CASE InTree(p)
        <4>1. v = p /\ p # NoBlock
          BY <2>2, <2>4, <3>3 DEF Lookup
        <4>2. ASSUME NEW d \in Lineage[from], Number[d] >= Number[p]
              PROVE  InTree(d)
          <5>1. d \in Block /\ Number[d] \in Nat
            BY LineageFacts, NumberInHeight
          <5>2. Number[d] >= Number[w] \/ Number[d] = Number[p]
            BY <2>1, <3>1, <4>2, <5>1
          <5>3. Number[d] = Number[p] => d = p
            BY <3>1, LineageNumbers
          <5>4. QED
            BY <2>1, <3>3, <5>2, <5>3
        <4>3. Number[p] = Number[from] - (i + 1)
          BY <2>1, <3>1
        <4> HIDE DEF p
        <4>4. QED
          BY <3>1, <3>3, <4>1, <4>2, <4>3 DEF WalkReached
      <3>4. QED
        BY <3>2, <3>3
    <2>5. QED
      BY <2>3, <2>4
  <1>4. QED
    BY <1>1, <1>2, <1>3

\* A walk of enough steps names the ancestor at the target height, or none.
LEMMA WalkEnds ==
    ASSUME TreeTypeOK, IndexesAgree, NEW from \in Block, NEW target \in 1..MaxHeight,
           NEW steps \in Nat, steps >= bestHeight - target,
           NEW last, WalkReached(from, target, steps, last), last \in Block \cup {NoBlock},
           NEW path, path = {b \in Lineage[from] : Number[b] >= target}
    PROVE  IF (\A b \in path : InTree(b)) /\ \E b \in path : Number[b] = target
           THEN last = (CHOOSE b \in path : Number[b] = target) /\ Number[last] = target
           ELSE ~(last # NoBlock /\ Number[last] = target)
  <1>1. path \subseteq Lineage[from]
    OBVIOUS
  <1>2. \A d \in Lineage[from] : d \in Block /\ Number[d] \in Nat
    BY LineageFacts, NumberInHeight
  <1>3. CASE last = NoBlock
    <2>1. \/ \E d \in Lineage[from] : Number[d] >= target /\ ~InTree(d)
          \/ \A d \in Lineage[from] : Number[d] # target
      BY <1>3 DEF WalkReached
    <2>2. ~((\A b \in path : InTree(b)) /\ \E b \in path : Number[b] = target)
      BY <2>1
    <2>3. QED
      BY <1>3, <2>2
  <1>4. CASE last # NoBlock
    <2>1. /\ last \in Lineage[from] /\ last \in Block /\ Number[last] \in Nat
          /\ \A d \in Lineage[from] : Number[d] >= Number[last] => InTree(d)
          /\ Number[last] <= target \/ Number[last] = Number[from] - steps
          /\ last = from \/ Number[last] >= target
      BY <1>2, <1>4 DEF WalkReached
    <2>2. /\ from \in Lineage[from] /\ Number[from] \in Nat
          /\ last = from \/ Number[last] < Number[from]
      BY <2>1, LineageFacts, LineageNumbers, NumberInHeight
    <2>3. InTree(from)
      BY <2>1, <2>2
    <2>4. Number[from] <= bestHeight /\ bestHeight \in Int
      BY <2>3 DEF IndexesAgree, TreeTypeOK, Height
    <2>5. Number[last] <= target
      BY <2>1, <2>2, <2>4
    <2>6. CASE Number[last] = target
      <3>1. \A b \in path : InTree(b)
        BY <2>1, <2>6
      <3>2. last \in path
        BY <2>1, <2>6
      <3>3. \A b \in path : Number[b] = target => b = last
        BY <1>1, <2>1, <2>6, LineageNumbers
      <3>4. (CHOOSE b \in path : Number[b] = target) = last
        BY <2>6, <3>2, <3>3
      <3>5. QED
        BY <2>6, <3>1, <3>2, <3>4
    <2>7. CASE Number[last] # target
      <3>1. last = from /\ Number[from] < target
        BY <2>1, <2>5, <2>7
      <3>2. \A d \in Lineage[from] : Number[d] <= Number[from]
        BY <1>2, <2>2, LineageNumbers
      <3>3. \A b \in path : Number[b] # target
        BY <1>2, <2>2, <3>1, <3>2
      <3>4. QED
        BY <2>7, <3>3
    <2>8. QED
      BY <2>6, <2>7
  <1>5. QED
    BY <1>3, <1>4

\* While the two indexes agree, the walk up from any block is exact.
LEMMA WalkExact == TreeTypeOK /\ IndexesAgree => CanonicalWalkExact
  <1> SUFFICES ASSUME TreeTypeOK, IndexesAgree, NEW from \in Block, NEW target \in 1..MaxHeight
               PROVE  LET path == {b \in Lineage[from] : Number[b] >= target}
                      IN  IF (\A b \in path : InTree(b)) /\ \E b \in path : Number[b] = target
                          THEN CanonicalAncestorAt(from, target) = CHOOSE b \in path : Number[b] = target
                          ELSE CanonicalAncestorAt(from, target) = NoBlock
    BY DEF CanonicalWalkExact
  <1> DEFINE path     == {b \in Lineage[from] : Number[b] >= target}
             bound    == bestHeight - target + WalkSlack
             steps    == IF bound > 0 THEN bound ELSE 0
             above(b) == b # NoBlock /\ Number[b] > target
             step(w)  == [i \in 0..steps |-> IF i = 0 THEN Lookup(from)
                                             ELSE IF above(w[i - 1]) THEN Lookup(Parent[w[i - 1]])
                                             ELSE w[i - 1]]
             walk     == CHOOSE w : w = step(w)
             last     == walk[steps]
             named    == IF last # NoBlock /\ Number[last] = target THEN last ELSE NoBlock
  <1>1. CanonicalAncestorAt(from, target) = named
    BY DEF CanonicalAncestorAt
  <1>2. steps \in Nat /\ steps >= bestHeight - target /\ target \in Int
    BY DEF TreeTypeOK, Height
  <1> HIDE DEF steps
  <1>3. \E w : w = step(w)
    BY <1>2, WalkExists
  <1>4. walk = step(walk)
    <2> HIDE DEF step
    <2>1. QED
      BY <1>3
  <1> HIDE DEF walk
  <1>5. /\ walk[0] = Lookup(from)
        /\ \A i \in 0..steps : i # steps =>
              walk[i + 1] = IF above(walk[i]) THEN Lookup(Parent[walk[i]]) ELSE walk[i]
        /\ \A i \in 0..steps : walk[i] \in Block \cup {NoBlock}
    BY <1>2, <1>4, WalkSteps
  <1> DEFINE S == {i \in Nat : i <= steps => WalkReached(from, target, i, walk[i])}
  <1>6. Nat \subseteq S
    <2>1. 0 \in S
      BY <1>2, <1>5, WalkStarts
    <2>2. ASSUME NEW i \in Nat, i \in S
          PROVE  i + 1 \in S
      <3> SUFFICES ASSUME i + 1 <= steps
                   PROVE  WalkReached(from, target, i + 1, walk[i + 1])
        OBVIOUS
      <3>1. i \in 0..steps /\ i # steps /\ WalkReached(from, target, i, walk[i])
        BY <1>2, <2>2
      <3>2. walk[i + 1] = IF above(walk[i]) THEN Lookup(Parent[walk[i]]) ELSE walk[i]
        BY <1>5, <3>1
      <3>3. walk[i] \in Block \cup {NoBlock}
        BY <1>5, <3>1
      <3>4. QED
        BY <1>2, <3>1, <3>2, <3>3, WalkGoesOn
    <2>3. QED
      <3> HIDE ChainAssumption DEF S
      <3>1. \A i \in Nat : i \in S => i + 1 \in S
        BY <2>2
      <3>2. QED
        BY <2>1, <3>1, NatSetInduction
  <1>7. WalkReached(from, target, steps, last) /\ last \in Block \cup {NoBlock}
    <2>1. steps \in Nat /\ steps <= steps /\ steps \in 0..steps
      BY <1>2
    <2>2. steps \in S
      <3> HIDE DEF S
      <3>1. QED
        BY <1>6, <2>1
    <2>3. QED
      BY <1>5, <2>1, <2>2
  <1> HIDE DEF path, last
  <1>8. path = {b \in Lineage[from] : Number[b] >= target}
    BY DEF path
  <1>9. IF (\A b \in path : InTree(b)) /\ \E b \in path : Number[b] = target
        THEN last = (CHOOSE b \in path : Number[b] = target) /\ Number[last] = target
        ELSE ~(last # NoBlock /\ Number[last] = target)
    BY <1>2, <1>7, <1>8, WalkEnds
  <1>10. CASE (\A b \in path : InTree(b)) /\ \E b \in path : Number[b] = target
    <2>1. PICK b \in path : Number[b] = target
      BY <1>10
    <2>2. (CHOOSE c \in path : Number[c] = target) \in path
      BY <2>1
    <2>3. last # NoBlock
      BY <1>8, <1>9, <1>10, <2>2, LineageFacts
    <2>4. named = CHOOSE c \in path : Number[c] = target
      BY <1>9, <1>10, <2>3
    <2>5. QED
      BY <1>1, <1>10, <2>4 DEF path
  <1>11. CASE ~((\A b \in path : InTree(b)) /\ \E b \in path : Number[b] = target)
    <2>1. named = NoBlock
      BY <1>9, <1>11
    <2>2. QED
      BY <1>1, <1>11, <2>1 DEF path
  <1>12. QED
    BY <1>10, <1>11

-----------------------------------------------------------------------------
(* The depth of a fork *)

\* The blocks the tree holds at a height.
BlocksAt(h) == {b \in Block : InTree(b) /\ Number[b] = h}

\* The hashes indexed at a height are those of its blocks, each once, so a height
\* is forked when it has more than one block.
LEMMA ForkedMeansTwoBlocks ==
    ASSUME TreeTypeOK, IndexesAgree, NEW h \in Height
    PROVE  /\ Cardinality(BlocksAt(h)) = Len(byHeight[h])
           /\ Forked(h) <=> Cardinality(BlocksAt(h)) > 1
           /\ Forked(h) => h # 0
  <1> DEFINE s == byHeight[h]
             n == Len(s)
  <1>1. s \in Seq(Block) /\ n \in Nat /\ DOMAIN s = 1..n
    BY LenProperties DEF TreeTypeOK
  <1>2. \A i \in 1..n : s[i] \in BlocksAt(h)
    BY <1>1, ElementOfSeq DEF IndexesAgree, BlocksAt
  <1>3. \A i, j \in 1..n : s[i] = s[j] => i = j
    BY <1>1 DEF IndexesAgree, IsInjective
  <1>4. \A b \in BlocksAt(h) : \E i \in 1..n : s[i] = b
    BY <1>1 DEF IndexesAgree, BlocksAt, Range
  <1>5. s \in [1..n -> BlocksAt(h)]
    <2>1. s = [i \in 1..n |-> s[i]]
      BY <1>1
    <2>2. QED
      BY <1>2, <2>1
  <1> HIDE DEF n, s
  <1>6. s \in Bijection(1..n, BlocksAt(h))
    BY <1>3, <1>4, <1>5 DEF Bijection, Injection, Surjection, IsInjective
  <1>7. ExistsBijection(1..n, BlocksAt(h))
    BY <1>6 DEF ExistsBijection
  <1>8. Cardinality(BlocksAt(h)) = n
    BY <1>1, <1>7, FS_CountingElements
  <1>9. ASSUME n > 1
        PROVE  h # 0
    <2>1. 1 \in 1..n
      BY <1>1, <1>9
    <2>2. s[1] \in Block /\ Number[s[1]] = h
      BY <1>2, <2>1 DEF BlocksAt
    <2>3. QED
      BY <2>2, NumberInHeight
  <1>10. Forked(h) <=> n > 1
    BY DEF Forked, n, s
  <1>11. QED
    BY <1>8, <1>9, <1>10 DEF n, s

\* The count of consecutive forked heights has a solution.
LEMMA RunExists ==
    ASSUME NEW top \in Nat
    PROVE  \E r \in [0..top -> Nat] :
              r = [k \in 0..top |-> IF k > 0 /\ Forked(k) THEN r[k - 1] + 1 ELSE 0]
  <1> DEFINE one(k) == [n \in Nat |-> IF Forked(k) THEN n + 1 ELSE 0]
             next == [k \in Nat |-> one(k)]
  <1>1. \A k \in Nat : one(k) \in [Nat -> Nat]
    OBVIOUS
  <1>2. next \in [Nat -> [Nat -> Nat]]
    <2> HIDE DEF one
    <2>1. QED
      BY <1>1
  <1>3. PICK g : Solves(g, Nat, 0, top, next)
    <2> HIDE DEF next
    <2>1. QED
      BY <1>2, RecursionSolved
  <1>4. /\ g \in [0..top -> Nat] /\ g[0] = 0
        /\ \A i \in 0..top : i # 0 => g[i] = next[i][g[i - 1]]
    <2> HIDE DEF next
    <2>1. QED
      BY <1>3 DEF Solves
  <1>5. ASSUME NEW k \in 0..top
        PROVE  g[k] = IF k > 0 /\ Forked(k) THEN g[k - 1] + 1 ELSE 0
    <2>1. CASE k = 0
      BY <1>4, <2>1
    <2>2. CASE k # 0
      <3>1. k \in 0..top /\ k \in Nat /\ k > 0 /\ k - 1 \in 0..top
        BY <2>2
      <3>2. g[k - 1] \in Nat
        BY <1>4, <3>1
      <3>3. g[k] = next[k][g[k - 1]] /\ next[k] = one(k)
        <4>1. g[k] = next[k][g[k - 1]]
          <5> HIDE DEF next
          <5>1. QED
            BY <1>4, <2>2, <3>1
        <4>2. next[k] = one(k)
          <5> HIDE DEF one
          <5>1. QED
            BY <3>1
        <4>3. QED
          BY <4>1, <4>2
      <3>4. one(k)[g[k - 1]] = IF Forked(k) THEN g[k - 1] + 1 ELSE 0
        BY <3>2
      <3>5. QED
        <4> HIDE DEF one, next
        <4>1. QED
          BY <3>1, <3>3, <3>4
    <2>3. QED
      BY <2>1, <2>2
  <1>6. g = [k \in 0..top |-> IF k > 0 /\ Forked(k) THEN g[k - 1] + 1 ELSE 0]
    <2>1. g = [k \in 0..top |-> g[k]]
      BY <1>4
    <2>2. QED
      BY <1>5, <2>1
  <1>7. QED
    BY <1>4, <1>6

\* What the count is: every height it counts is forked, and the one below is not.
LEMMA RunCounts ==
    ASSUME NEW r, r = [k \in Height |-> IF k > 0 /\ Forked(k) THEN r[k - 1] + 1 ELSE 0],
           NEW h \in Height
    PROVE  /\ r[h] \in Nat /\ r[h] <= h
           /\ \A k \in Height : k > h - r[h] /\ k <= h => Forked(k)
           /\ h - r[h] = 0 \/ ~Forked(h - r[h])
  <1> DEFINE right(m) == /\ r[m] \in Nat /\ r[m] <= m
                         /\ \A k \in Height : k > m - r[m] /\ k <= m => Forked(k)
                         /\ m - r[m] = 0 \/ ~Forked(m - r[m])
             S == {m \in Nat : m \in Height => right(m)}
  <1>1. \A m \in Height : r[m] = IF m > 0 /\ Forked(m) THEN r[m - 1] + 1 ELSE 0
    OBVIOUS
  <1>2. 0 \in S
    <2>1. 0 \in Height /\ \A k \in Height : k \in Nat
      BY DEF Height
    <2>2. r[0] = 0
      BY <1>1, <2>1
    <2>3. right(0)
      BY <2>1, <2>2
    <2>4. QED
      BY <2>3
  <1>3. ASSUME NEW m \in Nat, m \in S
        PROVE  m + 1 \in S
    <2> SUFFICES ASSUME m + 1 \in Height
                 PROVE  right(m + 1)
      OBVIOUS
    <2>1. m \in Height /\ (m + 1) - 1 = m /\ m + 1 > 0 /\ \A k \in Height : k \in Nat
      BY DEF Height
    <2>2. right(m)
      BY <1>3, <2>1
    <2>3. CASE ~Forked(m + 1)
      <3>1. r[m + 1] = 0
        BY <1>1, <2>3
      <3>2. (m + 1) - r[m + 1] = m + 1
        BY <3>1
      <3>3. \A k \in Height : ~(k > m + 1 /\ k <= m + 1)
        BY <2>1
      <3>4. QED
        BY <2>3, <3>1, <3>2, <3>3
    <2>4. CASE Forked(m + 1)
      <3>1. r[m + 1] = r[m] + 1
        BY <1>1, <2>1, <2>4
      <3>2. (m + 1) - r[m + 1] = m - r[m]
        BY <2>2, <3>1
      <3>3. \A k \in Height : k <= m + 1 => k <= m \/ k = m + 1
        BY <2>1
      <3>4. \A k \in Height : k > m - r[m] /\ k <= m + 1 => Forked(k)
        BY <2>2, <2>4, <3>3
      <3>5. r[m + 1] \in Nat /\ r[m + 1] <= m + 1
        BY <2>2, <3>1
      <3>6. QED
        BY <2>2, <3>2, <3>4, <3>5
    <2>5. QED
      BY <2>3, <2>4
  <1>4. Nat \subseteq S
    <2> HIDE ChainAssumption DEF S
    <2>1. \A m \in Nat : m \in S => m + 1 \in S
      BY <1>3
    <2>2. QED
      BY <1>2, <2>1, NatSetInduction
  <1>5. h \in S
    <2> HIDE DEF S
    <2>1. h \in Nat
      BY DEF Height
    <2>2. QED
      BY <1>4, <2>1
  <1>6. QED
    BY <1>5

\* While the two indexes agree, measureForkDepth counts the run of forked heights.
LEMMA DepthIsRunLength == TreeTypeOK /\ IndexesAgree => ForkDepthIsRunLength
  <1> SUFFICES ASSUME TreeTypeOK, IndexesAgree, NEW h \in ForkedHeights
               PROVE  \E lo \in 1..h :
                         /\ \A k \in lo..h : Cardinality(BlocksAt(k)) > 1
                         /\ lo = 1 \/ Cardinality(BlocksAt(lo - 1)) < 2
                         /\ ForkDepth(h) = h - lo + 1
    BY DEF ForkDepthIsRunLength, BlocksAt
  <1> DEFINE step(r) == [k \in Height |-> IF k > 0 /\ Forked(k) THEN r[k - 1] + 1 ELSE 0]
             run == CHOOSE r : r = step(r)
             lo == h - run[h - 1]
  <1>1. ForkDepth(h) = 1 + run[h - 1]
    BY DEF ForkDepth
  <1>2. run = step(run)
    <2>1. \E r : r = step(r)
      BY RunExists DEF Height
    <2>2. QED
      <3> HIDE DEF step
      <3>1. QED
        BY <2>1
  <1> HIDE DEF run
  <1>3. h \in Height /\ Forked(h) /\ h # 0 /\ h \in Nat /\ h - 1 \in Height
    <2>1. h \in Height /\ Forked(h)
      BY DEF ForkedHeights
    <2>2. h # 0
      BY <2>1, ForkedMeansTwoBlocks
    <2>3. QED
      BY <2>1, <2>2 DEF Height
  <1>4. /\ run[h - 1] \in Nat /\ run[h - 1] <= h - 1
        /\ \A k \in Height : k > (h - 1) - run[h - 1] /\ k <= h - 1 => Forked(k)
        /\ (h - 1) - run[h - 1] = 0 \/ ~Forked((h - 1) - run[h - 1])
    BY <1>2, <1>3, RunCounts
  <1>5. lo \in 1..h /\ lo - 1 = (h - 1) - run[h - 1] /\ lo - 1 \in Height
    BY <1>3, <1>4 DEF Height
  <1>6. ASSUME NEW k \in lo..h
        PROVE  Cardinality(BlocksAt(k)) > 1
    <2>1. k \in Height /\ k > lo - 1 /\ (k <= h - 1 \/ k = h)
      BY <1>3, <1>5 DEF Height
    <2>2. Forked(k)
      BY <1>3, <1>4, <1>5, <2>1
    <2>3. QED
      BY <2>1, <2>2, ForkedMeansTwoBlocks
  <1>7. lo = 1 \/ Cardinality(BlocksAt(lo - 1)) < 2
    <2>1. CASE lo - 1 = 0
      BY <1>5, <2>1
    <2>2. CASE ~Forked(lo - 1)
      <3>1. Cardinality(BlocksAt(lo - 1)) = Len(byHeight[lo - 1]) /\ ~(Cardinality(BlocksAt(lo - 1)) > 1)
        BY <1>5, <2>2, ForkedMeansTwoBlocks
      <3>2. Len(byHeight[lo - 1]) \in Nat
        BY <1>5, LenProperties DEF TreeTypeOK
      <3>3. QED
        BY <3>1, <3>2
    <2>3. QED
      BY <1>4, <1>5, <2>1, <2>2
  <1>8. ForkDepth(h) = h - lo + 1
    BY <1>1, <1>3, <1>4
  <1> HIDE DEF lo
  <1>9. QED
    BY <1>5, <1>6, <1>7, <1>8

\* In the tree on its own, the ancestor walk and the depth count are always exact.
THEOREM TreeQueriesExact == TreeSpec => [](CanonicalWalkExact /\ ForkDepthIsRunLength)
  <1>1. TreeTypeOK /\ IndexesAgree => CanonicalWalkExact /\ ForkDepthIsRunLength
    BY WalkExact, DepthIsRunLength
  <1>2. QED
    BY <1>1, IndexesAlwaysAgree, PTL

=============================================================================
