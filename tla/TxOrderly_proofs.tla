---------------------------- MODULE TxOrderly_proofs ----------------------------
(***************************************************************************)
(* What TxMonitor promises of an orderly feed, for any chain and any       *)
(* bodies: the winner of a fork is never reviewed, no transaction of a     *)
(* loser goes unnoticed, and no alert is false.                            *)
(***************************************************************************)
EXTENDS TxMonitor_proofs

-----------------------------------------------------------------------------
(* Where an orderly feed stands *)

\* What was reported as final, and which blocks were announced, captured and
\* pruned.
FeedInv ==
    /\ finalizedHeight = IF finalizedTip = NoBlock THEN 0 ELSE Number[finalizedTip]
    /\ lastCanonicalWalkHeight = IF finalizedTip = NoBlock THEN -1 ELSE Number[finalizedTip]
    /\ finalizedTip # NoBlock => bodyAt[finalizedTip] # "none"
    /\ \A k \in awaitPrune : k <= finalizedHeight
    /\ \A b \in Block :
          /\ bodyAt[b] # "lost"
          /\ BodyPending(b) => Number[b] > finalizedHeight
          /\ bodyAt[b] # "none" /\ Parent[b] \in Block => bodyAt[Parent[b]] # "none"
          /\ InTree(b) => bodyAt[b] # "none"
          /\ InTree(b) /\ bodyAt[b] = "captured" => b \in blockExtrinsics

\* What was announced and is not in the tree was pruned, with all below it.
PrunedFromBelow ==
    \A b \in Block : bodyAt[b] # "none" /\ ~InTree(b) =>
        /\ Number[b] <= finalizedHeight
        /\ \A c \in Block : Number[c] <= Number[b] => ~InTree(c)

TreeFeedInv == IndexesAgree /\ FeedInv /\ PrunedFromBelow

\* The ancestors of a block that was announced were announced.
LEMMA AncestorsAnnounced ==
    ASSUME FeedInv, NEW b \in Block, bodyAt[b] # "none", NEW c \in Lineage[b]
    PROVE  c \in Block /\ bodyAt[c] # "none"
  <1> DEFINE S == {x \in Block : bodyAt[x] # "none" => \A y \in Lineage[x] : bodyAt[y] # "none"}
  <1>1. ASSUME NEW x \in Block, Parent[x] \in Block => Parent[x] \in S
        PROVE  x \in S
    <2> SUFFICES ASSUME bodyAt[x] # "none", NEW y \in Lineage[x], y # x
                 PROVE  bodyAt[y] # "none"
      OBVIOUS
    <2>1. Parent[x] \in Block /\ y \in Lineage[Parent[x]]
      BY LineageStep
    <2>2. bodyAt[Parent[x]] # "none"
      BY <2>1 DEF FeedInv
    <2>3. QED
      BY <1>1, <2>1, <2>2
  <1>2. Block \subseteq S
    <2> HIDE DEF S
    <2>1. QED
      BY <1>1, BlockInduction
  <1>3. bodyAt[c] # "none"
    BY <1>2
  <1>4. QED
    BY <1>3, LineageFacts

\* A lineage has a block at every height between two of its blocks.
LEMMA LineageUnbroken ==
    ASSUME NEW b \in Block, NEW c \in Lineage[b], NEW h \in Nat,
           Number[c] <= h, h <= Number[b]
    PROVE  \E d \in Lineage[b] : Number[d] = h
  <1> DEFINE S == {x \in Block : \A y \in Lineage[x] : \A k \in Nat :
                      Number[y] <= k /\ k <= Number[x] => \E d \in Lineage[x] : Number[d] = k}
  <1>1. ASSUME NEW x \in Block, Parent[x] \in Block => Parent[x] \in S
        PROVE  x \in S
    <2> SUFFICES ASSUME NEW y \in Lineage[x], NEW k \in Nat, Number[y] <= k, k <= Number[x]
                 PROVE  \E d \in Lineage[x] : Number[d] = k
      OBVIOUS
    <2>0. x \in Lineage[x] /\ y \in Block
      BY LineageFacts
    <2>n. Number[x] \in Nat /\ Number[y] \in Nat
      BY <2>0, NumberInHeight
    <2>1. CASE k = Number[x]
      BY <2>0, <2>1
    <2>2. CASE k # Number[x]
      <3>1. y # x
        BY <2>2, <2>n
      <3>2. Parent[x] \in Block /\ y \in Lineage[Parent[x]] /\ Lineage[Parent[x]] \subseteq Lineage[x]
        BY <3>1, LineageStep
      <3>3. Number[Parent[x]] = Number[x] - 1
        BY <3>2, ChainAssumption
      <3>4. k <= Number[Parent[x]]
        BY <2>2, <2>n, <3>3
      <3>5. \E d \in Lineage[Parent[x]] : Number[d] = k
        BY <1>1, <3>2, <3>4
      <3>6. QED
        BY <3>2, <3>5
    <2>3. QED
      BY <2>1, <2>2
  <1>2. Block \subseteq S
    <2> HIDE DEF S
    <2>1. QED
      BY <1>1, BlockInduction
  <1>3. QED
    BY <1>2

\* Of a block and one above it in a lineage, the lower one is in the lineage of
\* the higher one.
LEMMA LowerInLineage ==
    ASSUME NEW b \in Block, NEW c \in Lineage[b], NEW d \in Lineage[b], Number[c] <= Number[d]
    PROVE  c \in Lineage[d]
  <1>1. c \in Block /\ d \in Block
    BY LineageFacts
  <1>2. Number[c] \in Nat /\ Number[d] \in Nat
    BY <1>1, NumberInHeight
  <1>3. c \in Lineage[d] \/ d \in Lineage[c]
    BY LineageFacts
  <1>4. d \in Lineage[c] => d = c
    BY <1>1, <1>2, LineageNumbers
  <1>5. QED
    BY <1>1, <1>3, <1>4, LineageFacts

\* Two blocks in the tree at one height make it a forked height.
LEMMA TwoBlocksFork ==
    ASSUME TreeTypeOK, IndexesAgree, NEW c \in Block, NEW d \in Block, c # d,
           InTree(c), InTree(d), Number[c] = Number[d]
    PROVE  Number[c] \in ForkedHeights /\ c \in Range(byHeight[Number[c]])
  <1> DEFINE s == byHeight[Number[c]]
  <1>1. Number[c] \in Height
    BY NumberInHeight
  <1>2. s \in Seq(Block) /\ c \in Range(s) /\ d \in Range(s)
    BY <1>1 DEF TreeTypeOK, IndexesAgree
  <1>3. Len(s) \in Nat /\ DOMAIN s = 1..Len(s)
    BY <1>2, LenProperties
  <1>4. PICK i \in 1..Len(s), j \in 1..Len(s) : s[i] = c /\ s[j] = d
    BY <1>2, <1>3 DEF Range
  <1>5. Len(s) > 1
    <2>1. i # j
      BY <1>4
    <2> HIDE DEF s
    <2>2. QED
      BY <1>3, <2>1
  <1>6. QED
    BY <1>1, <1>2, <1>5 DEF ForkedHeights, Forked

\* What is indexed at a height is in the tree, at that height.
LEMMA IndexedInTree ==
    ASSUME TreeTypeOK, IndexesAgree, NEW h \in Height, NEW c \in Range(byHeight[h])
    PROVE  c \in Block /\ InTree(c) /\ Number[c] = h
  <1>1. byHeight[h] \in Seq(Block)
    BY DEF TreeTypeOK
  <1>2. PICK i \in DOMAIN byHeight[h] : c = byHeight[h][i]
    BY DEF Range
  <1>3. c \in Block
    BY <1>1, <1>2, LenProperties, ElementOfSeq
  <1>4. QED
    BY <1>2, <1>3 DEF IndexesAgree

\* The ancestor walk finds nothing but ancestors, and finds the ancestor that is
\* in the tree: no block between was pruned.
LEMMA AncestorFound ==
    ASSUME TypeOK, TreeFeedInv, NEW b \in Block, bodyAt[b] # "none",
           NEW h \in 1..MaxHeight
    PROVE  /\ CanonicalAncestorAt(b, h) \in Lineage[b] \cup {NoBlock}
           /\ \A c \in Lineage[b] : InTree(c) /\ Number[c] = h => CanonicalAncestorAt(b, h) = c
  <1> DEFINE path == {x \in Lineage[b] : Number[x] >= h}
  <1>1. IF (\A x \in path : InTree(x)) /\ \E x \in path : Number[x] = h
        THEN CanonicalAncestorAt(b, h) = CHOOSE x \in path : Number[x] = h
        ELSE CanonicalAncestorAt(b, h) = NoBlock
    <2>1. CanonicalWalkExact
      BY WalkExact DEF TypeOK, TreeFeedInv
    <2>2. QED
      BY <2>1 DEF CanonicalWalkExact
  <1>2. path \subseteq Lineage[b]
    OBVIOUS
  <1>3. CanonicalAncestorAt(b, h) \in Lineage[b] \cup {NoBlock}
    <2> HIDE DEF path
    <2>1. CASE \E x \in path : Number[x] = h
      <3>1. (CHOOSE x \in path : Number[x] = h) \in path
        BY <2>1
      <3>2. QED
        BY <1>1, <1>2, <3>1
    <2>2. QED
      BY <1>1, <2>1
  <1>4. ASSUME NEW c \in Lineage[b], InTree(c), Number[c] = h
        PROVE  CanonicalAncestorAt(b, h) = c
    <2>0. h \in Nat /\ c \in Block
      BY LineageFacts, ChainAssumption
    <2>1. ASSUME NEW x \in path
          PROVE  InTree(x)
      <3>1. x \in Block /\ bodyAt[x] # "none"
        BY AncestorsAnnounced DEF TreeFeedInv
      <3>2. Number[c] <= Number[x]
        BY <1>4, <2>0, <3>1, NumberInHeight
      <3>3. QED
        BY <1>4, <2>0, <3>1, <3>2 DEF TreeFeedInv, PrunedFromBelow
    <2>2. c \in path
      BY <1>4, <2>0
    <2>3. \A x \in path : Number[x] = h => x = c
      BY <1>4, LineageNumbers
    <2> HIDE DEF path
    <2>4. QED
      BY <1>1, <1>4, <2>1, <2>2, <2>3
  <1>5. QED
    BY <1>3, <1>4

\* Where a finalized head leads: lower blocks of the chain change nothing, and
\* any other block becomes the top of the finalized chain.
LEMMA TipMoves ==
    ASSUME TypeOK, FeedInv, Orderly,
           NEW b \in Block, NEW connected \in BOOLEAN, FinalizedHead(b, connected)
    PROVE  /\ finalizedTip' \in Block /\ b \in Lineage[finalizedTip']
           /\ finalizedHeight' = Number[finalizedTip']
           /\ lastCanonicalWalkHeight' = Number[finalizedTip']
           /\ finalizedHeight <= finalizedHeight' /\ Number[b] <= finalizedHeight'
           /\ bodyAt[finalizedTip'] # "none"
           /\ \/ finalizedTip # NoBlock /\ finalizedTip' = finalizedTip /\ b \in Lineage[finalizedTip]
              \/ /\ finalizedTip' = b
                 /\ finalizedTip # NoBlock => /\ finalizedTip \in Lineage[b]
                                              /\ Number[finalizedTip] < Number[b]
  <1>1. /\ finalizedTip \in Block \cup {NoBlock}
        /\ finalizedTip # NoBlock => finalizedTip \in Lineage[b] \/ b \in Lineage[finalizedTip]
        /\ finalizedTip' = IF finalizedTip # NoBlock /\ b \in Lineage[finalizedTip]
                           THEN finalizedTip ELSE b
        /\ bodyAt[b] # "none"
    BY DEF TypeOK, FinalizedHead, MayFinalize
  <1>2. /\ finalizedHeight' = IF Number[b] > finalizedHeight THEN Number[b] ELSE finalizedHeight
        /\ lastCanonicalWalkHeight' = Later(Number[b], lastCanonicalWalkHeight)
    BY DEF FinalizedHead, AdvanceFinalized, TrackerFinalized
  <1>3. /\ finalizedHeight = IF finalizedTip = NoBlock THEN 0 ELSE Number[finalizedTip]
        /\ lastCanonicalWalkHeight = IF finalizedTip = NoBlock THEN -1 ELSE Number[finalizedTip]
        /\ finalizedTip # NoBlock => bodyAt[finalizedTip] # "none"
    BY DEF FeedInv
  <1>4. Number[b] \in Nat \ {0} /\ b \in Lineage[b]
    BY NumberInHeight, LineageFacts
  <1>5. CASE finalizedTip = NoBlock
    <2>1. finalizedTip' = b
      BY <1>1, <1>5
    <2>2. finalizedHeight' = Number[b] /\ lastCanonicalWalkHeight' = Number[b]
      BY <1>2, <1>3, <1>4, <1>5 DEF Later
    <2>3. finalizedHeight <= finalizedHeight'
      BY <1>3, <1>4, <1>5, <2>2
    <2>4. QED
      BY <1>1, <1>4, <1>5, <2>1, <2>2, <2>3
  <1>6. CASE finalizedTip # NoBlock /\ b \in Lineage[finalizedTip]
    <2>1. finalizedTip \in Block /\ finalizedTip' = finalizedTip /\ Number[finalizedTip] \in Nat
      BY <1>1, <1>6, NumberInHeight
    <2>2. b = finalizedTip \/ Number[b] < Number[finalizedTip]
      BY <1>6, <2>1, LineageNumbers
    <2>3. finalizedHeight' = Number[finalizedTip] /\ lastCanonicalWalkHeight' = Number[finalizedTip]
      BY <1>2, <1>3, <1>4, <1>6, <2>1, <2>2 DEF Later
    <2>4. finalizedHeight <= finalizedHeight' /\ Number[b] <= finalizedHeight'
      BY <1>3, <1>4, <1>6, <2>1, <2>2, <2>3
    <2>5. QED
      BY <1>3, <1>6, <2>1, <2>3, <2>4
  <1>7. CASE finalizedTip # NoBlock /\ b \notin Lineage[finalizedTip]
    <2>1. finalizedTip \in Block /\ finalizedTip' = b /\ finalizedTip \in Lineage[b]
          /\ Number[finalizedTip] \in Nat
      BY <1>1, <1>7, NumberInHeight
    <2>2. Number[finalizedTip] < Number[b]
      BY <1>4, <1>7, <2>1, LineageNumbers
    <2>3. finalizedHeight' = Number[b] /\ lastCanonicalWalkHeight' = Number[b]
      BY <1>2, <1>3, <1>4, <1>7, <2>1, <2>2 DEF Later
    <2>4. finalizedHeight <= finalizedHeight'
      BY <1>3, <1>4, <1>7, <2>1, <2>2, <2>3
    <2>5. QED
      BY <1>1, <1>4, <2>1, <2>2, <2>3, <2>4
  <1>8. QED
    BY <1>5, <1>6, <1>7

\* A block that was announced and does not wait for its body was captured.
LEMMA AnnouncedIsCaptured ==
    ASSUME TypeOK, FeedInv, NEW c \in Block, bodyAt[c] # "none", ~BodyPending(c)
    PROVE  bodyAt[c] = "captured"
  <1>1. bodyAt[c] \in BodyStage /\ bodyAt[c] # "lost"
    BY DEF TypeOK, FeedInv
  <1>2. QED
    BY <1>1 DEF BodyStage, BodyPending

\* The feed starts with nothing.
LEMMA InitFeed == Init => TreeFeedInv
  <1> SUFFICES ASSUME Init
               PROVE  TreeFeedInv
    OBVIOUS
  <1>1. IndexesAgree
    BY TreeInitIndexes DEF Init
  <1>2. \A b \in Block : ~InTree(b) /\ bodyAt[b] = "none"
    BY DEF Init, TreeInit, InTree
  <1>3. finalizedTip = NoBlock /\ awaitPrune = {} /\ finalizedHeight = 0 /\ lastCanonicalWalkHeight = -1
    BY DEF Init, TreeInit, TrackerInit
  <1>4. FeedInv /\ PrunedFromBelow
    BY <1>2, <1>3 DEF FeedInv, PrunedFromBelow, BodyPending
  <1>5. QED
    BY <1>1, <1>4 DEF TreeFeedInv

\* Stretches of other parts.
LEMMA FeedKept ==
    ASSUME TreeFeedInv,
           UNCHANGED <<treeVars, bodyAt, awaitPrune, finalizedTip, lastCanonicalWalkHeight, blockExtrinsics>>
    PROVE  TreeFeedInv'
  <1>1. \A b \in Block : InTree(b)' <=> InTree(b)
    BY DEF treeVars, InTree
  <1>2. \A b \in Block : BodyPending(b)' <=> BodyPending(b)
    BY DEF BodyPending
  <1>3. FeedInv'
    BY <1>1, <1>2 DEF TreeFeedInv, FeedInv, treeVars
  <1>4. PrunedFromBelow'
    BY <1>1 DEF TreeFeedInv, PrunedFromBelow, treeVars
  <1>5. IndexesAgree'
    BY DEF TreeFeedInv, IndexesAgree, treeVars, InTree
  <1>6. QED
    BY <1>3, <1>4, <1>5 DEF TreeFeedInv

\* A block is announced once, above the finalized height and after its parent.
LEMMA AnnounceKeepsFeed ==
    ASSUME TypeOK, TreeFeedInv, Orderly, NEW n \in Node, NEW b \in Block, MayAnnounce(b),
           AddNewBlock(b, n), NEW stage \in {"forked", "getBlock"}, MoveBody(b, stage),
           UNCHANGED <<finalizedHeight, lastCanonicalWalkHeight, awaitPrune, finalizedTip, blockExtrinsics>>
    PROVE  TreeFeedInv'
  <1>1. IndexesAgree'
    BY AddNewBlockIndexes DEF TypeOK, TreeFeedInv
  <1>2. /\ bodyAt[b] = "none"
        /\ Parent[b] \in Block => bodyAt[Parent[b]] # "none"
        /\ Number[b] > finalizedHeight
    BY DEF MayAnnounce
  <1>3. /\ bodyAt'[b] = stage
        /\ \A c \in Block : c # b => bodyAt'[c] = bodyAt[c]
    BY DEF MoveBody, TypeOK
  <1>4. /\ InTree(b)'
        /\ \A c \in Block : c # b => (InTree(c)' <=> InTree(c))
    BY DEF AddNewBlock, InTree, TypeOK, TreeTypeOK
  <1>5. BodyPending(b)' /\ \A c \in Block : c # b => (BodyPending(c)' <=> BodyPending(c))
    BY <1>3 DEF BodyPending
  <1>6. FeedInv'
    <2>1. finalizedTip # NoBlock => finalizedTip # b
      BY <1>2 DEF TreeFeedInv, FeedInv
    <2>2. finalizedTip' # NoBlock => bodyAt'[finalizedTip'] # "none"
      BY <1>3, <2>1 DEF TreeFeedInv, FeedInv, TypeOK
    <2>3. ASSUME NEW c \in Block
          PROVE  /\ bodyAt'[c] # "lost"
                 /\ BodyPending(c)' => Number[c] > finalizedHeight
                 /\ bodyAt'[c] # "none" /\ Parent[c] \in Block => bodyAt'[Parent[c]] # "none"
                 /\ InTree(c)' => bodyAt'[c] # "none"
                 /\ InTree(c)' /\ bodyAt'[c] = "captured" => c \in blockExtrinsics
      <3>1. CASE c = b
        <4>1. Parent[b] \in Block => bodyAt'[Parent[b]] # "none"
          BY <1>2, <1>3
        <4>2. QED
          BY <1>2, <1>3, <3>1, <4>1
      <3>2. CASE c # b
        <4>1. bodyAt[c] # "none" /\ Parent[c] \in Block => bodyAt'[Parent[c]] # "none"
          BY <1>3 DEF TreeFeedInv, FeedInv
        <4>2. QED
          BY <1>3, <1>4, <1>5, <3>2, <4>1 DEF TreeFeedInv, FeedInv
      <3>3. QED
        BY <3>1, <3>2
    <2>4. QED
      BY <2>2, <2>3 DEF TreeFeedInv, FeedInv
  <1>7. PrunedFromBelow'
    <2>1. SUFFICES ASSUME NEW c \in Block, bodyAt'[c] # "none", ~InTree(c)'
                   PROVE  /\ Number[c] <= finalizedHeight
                          /\ \A d \in Block : Number[d] <= Number[c] => ~InTree(d)'
      BY DEF PrunedFromBelow
    <2>2. c # b /\ bodyAt[c] # "none" /\ ~InTree(c)
      BY <1>3, <1>4, <2>1
    <2>3. Number[c] <= finalizedHeight /\ \A d \in Block : Number[d] <= Number[c] => ~InTree(d)
      BY <2>2 DEF TreeFeedInv, PrunedFromBelow
    <2>4. ~(Number[b] <= Number[c])
      BY <1>2, <2>3, NumberInHeight DEF TypeOK, TreeTypeOK, Height
    <2>5. QED
      BY <1>4, <2>3, <2>4
  <1>8. QED
    BY <1>1, <1>6, <1>7 DEF TreeFeedInv

\* A body that moves on keeps the feed, if what is captured is remembered.
LEMMA BodyKeepsFeed ==
    ASSUME TypeOK, TreeFeedInv, NEW b \in Block, BodyPending(b),
           NEW stage \in {"getBlock", "captured"}, MoveBody(b, stage),
           blockExtrinsics \subseteq blockExtrinsics', stage = "captured" => b \in blockExtrinsics',
           UNCHANGED <<treeVars, lastCanonicalWalkHeight, awaitPrune, finalizedTip>>
    PROVE  TreeFeedInv'
  <1>1. /\ bodyAt'[b] = stage
        /\ \A c \in Block : c # b => bodyAt'[c] = bodyAt[c]
    BY DEF MoveBody, TypeOK
  <1>2. \A c \in Block : InTree(c)' <=> InTree(c)
    BY DEF treeVars, InTree
  <1>3. \A c \in Block : BodyPending(c)' => BodyPending(c)
    BY <1>1 DEF BodyPending
  <1>4. \A c \in Block : bodyAt'[c] # "none" <=> bodyAt[c] # "none"
    BY <1>1 DEF BodyPending
  <1>5. \A c \in Block : /\ bodyAt'[c] # "lost"
                         /\ InTree(c)' /\ bodyAt'[c] = "captured" => c \in blockExtrinsics'
    BY <1>1, <1>2 DEF TreeFeedInv, FeedInv
  <1>6. FeedInv'
    <2>1. finalizedTip' # NoBlock => bodyAt'[finalizedTip'] # "none"
      BY <1>4 DEF TreeFeedInv, FeedInv, TypeOK
    <2>2. \A c \in Block : /\ BodyPending(c)' => Number[c] > finalizedHeight
                           /\ bodyAt'[c] # "none" /\ Parent[c] \in Block => bodyAt'[Parent[c]] # "none"
                           /\ InTree(c)' => bodyAt'[c] # "none"
      BY <1>2, <1>3, <1>4 DEF TreeFeedInv, FeedInv
    <2>3. QED
      BY <1>5, <2>1, <2>2 DEF TreeFeedInv, FeedInv, treeVars
  <1>7. PrunedFromBelow'
    BY <1>2, <1>4 DEF TreeFeedInv, PrunedFromBelow, treeVars
  <1>8. IndexesAgree'
    BY DEF TreeFeedInv, IndexesAgree, treeVars, InTree
  <1>9. QED
    BY <1>6, <1>7, <1>8 DEF TreeFeedInv

\* A finalized head comes when every body up to it was captured.
LEMMA FinalizedKeepsFeed ==
    ASSUME TypeOK, TreeFeedInv, Orderly,
           NEW b \in Block, NEW connected \in BOOLEAN, FinalizedHead(b, connected)
    PROVE  TreeFeedInv'
  <1>f. FeedInv /\ PrunedFromBelow
    BY DEF TreeFeedInv
  <1>1. /\ finalizedTip' \in Block
        /\ finalizedHeight' = Number[finalizedTip']
        /\ lastCanonicalWalkHeight' = Number[finalizedTip']
        /\ finalizedHeight <= finalizedHeight' /\ Number[b] <= finalizedHeight'
        /\ bodyAt[finalizedTip'] # "none"
        /\ \/ finalizedTip # NoBlock /\ finalizedTip' = finalizedTip
           \/ finalizedTip' = b
    BY <1>f, TipMoves
  <1>2. /\ UNCHANGED <<byHeight, byHash, bestHeight, bodyAt, blockExtrinsics>>
        /\ awaitPrune' = awaitPrune \cup {Number[b]}
        /\ \A c \in Block : Number[c] <= Number[b] => ~BodyPending(c)
    BY DEF FinalizedHead, TrackerFinalized, MayFinalize
  <1>3. \A c \in Block : (InTree(c)' <=> InTree(c)) /\ (BodyPending(c)' <=> BodyPending(c))
    BY <1>2 DEF InTree, BodyPending
  <1>4. /\ finalizedHeight \in Nat /\ finalizedHeight' \in Nat
        /\ \A k \in awaitPrune : k \in Nat
        /\ \A c \in Block : Number[c] \in Nat
    BY <1>1, NumberInHeight DEF TypeOK, TreeTypeOK, Height
  <1>5. \A c \in Block : BodyPending(c) => Number[c] > finalizedHeight'
    <2>1. CASE finalizedTip # NoBlock /\ finalizedTip' = finalizedTip
      BY <1>1, <1>f, <2>1 DEF FeedInv
    <2>2. CASE finalizedTip' = b
      BY <1>1, <1>2, <1>4, <2>2
    <2>3. QED
      BY <1>1, <2>1, <2>2
  <1>6. \A k \in awaitPrune' : k <= finalizedHeight'
    BY <1>1, <1>2, <1>4, <1>f DEF FeedInv
  <1>7. finalizedTip' # NoBlock
    BY <1>1, ChainAssumption
  <1>8. FeedInv'
    BY <1>1, <1>2, <1>3, <1>5, <1>6, <1>7, <1>f DEF FeedInv
  <1>9. PrunedFromBelow'
    BY <1>1, <1>2, <1>3, <1>4, <1>f DEF PrunedFromBelow
  <1>10. IndexesAgree'
    BY <1>2 DEF TreeFeedInv, IndexesAgree, InTree
  <1>11. QED
    BY <1>8, <1>9, <1>10 DEF TreeFeedInv

\* The headers and the bodies of the same heights are pruned together.
LEMMA PruneKeepsFeed ==
    ASSUME TypeOK, TreeFeedInv, NEW k \in Height, FinalizedHeadResolved(k)
    PROVE  TreeFeedInv'
  <1> DEFINE m == k - PruneAfter
  <1>f. FeedInv /\ PrunedFromBelow /\ IndexesAgree /\ TreeTypeOK
    BY DEF TreeFeedInv, TypeOK
  <1>1. /\ k \in awaitPrune /\ Prune(m) /\ awaitPrune' = awaitPrune \ {k}
        /\ blockExtrinsics' = {b \in blockExtrinsics : Number[b] > m}
        /\ UNCHANGED <<finalizedHeight, bodyAt, finalizedTip, lastCanonicalWalkHeight>>
    BY DEF FinalizedHeadResolved, PruneTracker
  <1>2. k <= finalizedHeight
    BY <1>1, <1>f DEF FeedInv
  <1>3. m \in Int /\ m <= finalizedHeight /\ finalizedHeight \in Nat
    BY <1>2, <1>f, FeedAssumption DEF TreeTypeOK, Height
  <1> HIDE DEF m
  <1>4. IndexesAgree'
    BY <1>1, <1>3, <1>f, PruneIndexes
  <1>5. \A c \in Block : InTree(c)' <=> InTree(c) /\ Number[c] > m
    <2> SUFFICES ASSUME NEW c \in Block
                 PROVE  InTree(c)' <=> InTree(c) /\ Number[c] > m
      OBVIOUS
    <2>1. byHash' = [b \in Block |-> IF b \in PrunedBlocks(m) THEN {} ELSE byHash[b]]
      BY <1>1 DEF Prune
    <2>2. InTree(c) => (c \in PrunedBlocks(m) <=> Number[c] <= m)
      <3>1. ASSUME InTree(c), Number[c] <= m
            PROVE  c \in PrunedBlocks(m)
        <4>1. c \in Range(byHeight[Number[c]]) /\ Number[c] \in Height
          BY <1>f, <3>1, NumberInHeight DEF IndexesAgree
        <4>2. QED
          BY <3>1, <4>1 DEF PrunedBlocks
      <3>2. ASSUME c \in PrunedBlocks(m)
            PROVE  Number[c] <= m
        <4>1. PICK h \in Height : h <= m /\ c \in Range(byHeight[h])
          BY <3>2 DEF PrunedBlocks
        <4>2. Number[c] = h
          BY <1>f, <4>1, IndexedInTree
        <4>3. QED
          BY <4>1, <4>2
      <3>3. QED
        BY <3>1, <3>2
    <2>3. Number[c] \in Nat
      BY NumberInHeight
    <2>4. InTree(c)' <=> InTree(c) /\ c \notin PrunedBlocks(m)
      BY <2>1 DEF InTree
    <2>5. QED
      BY <1>3, <2>2, <2>3, <2>4
  <1>6. FeedInv'
    <2>1. \A c \in Block : BodyPending(c)' <=> BodyPending(c)
      BY <1>1 DEF BodyPending
    <2>2. \A j \in awaitPrune' : j <= finalizedHeight'
      BY <1>1, <1>f DEF FeedInv
    <2>3. \A c \in Block : InTree(c)' /\ bodyAt[c] = "captured" => c \in blockExtrinsics'
      BY <1>1, <1>5, <1>f DEF FeedInv
    <2>4. QED
      BY <1>1, <1>5, <1>f, <2>1, <2>2, <2>3 DEF FeedInv
  <1>7. PrunedFromBelow'
    <2> SUFFICES ASSUME NEW c \in Block, bodyAt[c] # "none", ~InTree(c)'
                 PROVE  /\ Number[c] <= finalizedHeight
                        /\ \A d \in Block : Number[d] <= Number[c] => ~InTree(d)'
      BY <1>1 DEF PrunedFromBelow
    <2>1. CASE ~InTree(c)
      BY <1>5, <1>f, <2>1 DEF PrunedFromBelow
    <2>2. CASE InTree(c)
      <3>1. Number[c] <= m
        BY <1>3, <1>5, <2>2, NumberInHeight
      <3>2. \A d \in Block : Number[d] <= Number[c] => ~(Number[d] > m)
        BY <1>3, <3>1, NumberInHeight
      <3>3. QED
        BY <1>3, <1>5, <3>1, <3>2, NumberInHeight
    <2>3. QED
      BY <2>1, <2>2
  <1>8. QED
    BY <1>4, <1>6, <1>7 DEF TreeFeedInv

\* Every step keeps the feed.
LEMMA NextFeed ==
    ASSUME Orderly, TypeOK, TreeFeedInv, [Next]_vars
    PROVE  TreeFeedInv'
  <1>1. ASSUME NEW n \in Node, NEW b \in Block, HeadKnown(n, b)
        PROVE  TreeFeedInv'
    <2>1. /\ AddKnownBlock(b, n)
          /\ UNCHANGED <<finalizedHeight, trackerVars, monitorVars>>
      BY <1>1 DEF HeadKnown
    <2>2. \A c \in Block : InTree(c)' <=> InTree(c)
      BY <2>1 DEF AddKnownBlock, InTree, TypeOK, TreeTypeOK
    <2>3. \A c \in Block : BodyPending(c)' <=> BodyPending(c)
      BY <2>1 DEF monitorVars, BodyPending
    <2>4. FeedInv'
      BY <2>1, <2>2, <2>3 DEF TreeFeedInv, FeedInv, trackerVars, monitorVars
    <2>5. PrunedFromBelow'
      BY <2>1, <2>2 DEF TreeFeedInv, PrunedFromBelow, monitorVars
    <2>6. IndexesAgree'
      BY <2>1, AddKnownBlockIndexes DEF TreeFeedInv, TypeOK
    <2>7. QED
      BY <2>4, <2>5, <2>6 DEF TreeFeedInv
  <1>2. ASSUME NEW n \in Node, NEW b \in Block, HeadAlone(n, b)
        PROVE  TreeFeedInv'
    <2>1. /\ MayAnnounce(b) /\ AddNewBlock(b, n) /\ MoveBody(b, "getBlock")
          /\ UNCHANGED <<finalizedHeight, lastCanonicalWalkHeight, awaitPrune, finalizedTip, blockExtrinsics>>
      BY <1>2 DEF HeadAlone
    <2>2. "getBlock" \in {"forked", "getBlock"}
      OBVIOUS
    <2>3. QED
      BY <2>1, <2>2, AnnounceKeepsFeed
  <1>3. ASSUME NEW n \in Node, NEW b \in Block, HeadForked(n, b)
        PROVE  TreeFeedInv'
    <2>1. /\ MayAnnounce(b) /\ AddNewBlock(b, n) /\ MoveBody(b, "forked")
          /\ UNCHANGED <<finalizedHeight, lastCanonicalWalkHeight, awaitPrune, finalizedTip, blockExtrinsics>>
      BY <1>3 DEF HeadForked, trackerVars
    <2>2. "forked" \in {"forked", "getBlock"}
      OBVIOUS
    <2>3. QED
      BY <2>1, <2>2, AnnounceKeepsFeed
  <1>4. ASSUME NEW b \in Block, ForkHandled(b)
        PROVE  TreeFeedInv'
    <2>1. /\ BodyPending(b) /\ MoveBody(b, "getBlock") /\ blockExtrinsics \subseteq blockExtrinsics'
          /\ UNCHANGED <<treeVars, lastCanonicalWalkHeight, awaitPrune, finalizedTip>>
      BY <1>4 DEF ForkHandled, BodyPending
    <2>2. "getBlock" \in {"getBlock", "captured"} /\ "getBlock" # "captured"
      OBVIOUS
    <2>3. QED
      BY <2>1, <2>2, BodyKeepsFeed
  <1>5. ASSUME NEW b \in Block, BodyArrives(b)
        PROVE  TreeFeedInv'
    <2>1. /\ BodyPending(b) /\ MoveBody(b, "captured") /\ blockExtrinsics \subseteq blockExtrinsics'
          /\ b \in blockExtrinsics'
          /\ UNCHANGED <<treeVars, lastCanonicalWalkHeight, awaitPrune, finalizedTip>>
      BY <1>5 DEF BodyArrives, CaptureBody, BodyPending
    <2>2. "captured" \in {"getBlock", "captured"}
      OBVIOUS
    <2>3. QED
      BY <2>1, <2>2, BodyKeepsFeed
  <1>6. ASSUME NEW b \in Block, BodyFails(b)
        PROVE  TreeFeedInv'
    BY <1>6 DEF BodyFails
  <1>7. ASSUME NEW b \in Block, NEW connected \in BOOLEAN, FinalizedHead(b, connected)
        PROVE  TreeFeedInv'
    BY <1>7, FinalizedKeepsFeed
  <1>8. ASSUME NEW k \in Height, FinalizedHeadResolved(k)
        PROVE  TreeFeedInv'
    BY <1>8, PruneKeepsFeed
  <1>9. ASSUME NEW pool \in SUBSET PoolTx, NEW connected \in BOOLEAN, PoolPolled(pool, connected)
        PROVE  TreeFeedInv'
    BY <1>9, FeedKept DEF PoolPolled, PoolAnswered, monitorVars
  <1>10. ASSUME NEW t \in Tx, NEW connected \in BOOLEAN, RetryTimer(t, connected)
         PROVE  TreeFeedInv'
    BY <1>10, FeedKept DEF RetryTimer, RetryTick, monitorVars
  <1>11. CASE UNCHANGED vars
    BY <1>11, FeedKept DEF vars, trackerVars, monitorVars
  <1>12. QED
    BY <1>1, <1>2, <1>3, <1>4, <1>5, <1>6, <1>7, <1>8, <1>9, <1>10, <1>11 DEF Next

-----------------------------------------------------------------------------
(* What a finalized head makes canonical, and what it queues for review *)

\* A finalized head walks over exactly what it adds to the finalized chain, and
\* every body of that was captured.
LEMMA WalkIsNew ==
    ASSUME TypeOK, TreeFeedInv, Orderly,
           NEW b \in Block, NEW connected \in BOOLEAN, FinalizedHead(b, connected)
    PROVE  /\ CanonicalWalk(b) = {c \in Lineage[finalizedTip'] : ~OnFinalChain(c)}
           /\ CanonicalWalk(b) \subseteq blockExtrinsics
  <1> DEFINE floor == IF lastCanonicalWalkHeight = -1 THEN Number[b] - 1 ELSE lastCanonicalWalkHeight
  <1>f. FeedInv /\ PrunedFromBelow
    BY DEF TreeFeedInv
  <1>1. /\ finalizedTip' \in Block /\ b \in Lineage[finalizedTip']
        /\ finalizedHeight <= finalizedHeight' /\ Number[b] <= finalizedHeight'
        /\ \/ finalizedTip # NoBlock /\ finalizedTip' = finalizedTip /\ b \in Lineage[finalizedTip]
           \/ /\ finalizedTip' = b
              /\ finalizedTip # NoBlock => /\ finalizedTip \in Lineage[b]
                                           /\ Number[finalizedTip] < Number[b]
    BY <1>f, TipMoves
  <1>2. /\ finalizedHeight = IF finalizedTip = NoBlock THEN 0 ELSE Number[finalizedTip]
        /\ lastCanonicalWalkHeight = IF finalizedTip = NoBlock THEN -1 ELSE Number[finalizedTip]
        /\ finalizedTip \in Block \cup {NoBlock}
    BY <1>f DEF FeedInv, TypeOK
  <1>3. /\ bodyAt[b] # "none"
        /\ \A c \in Block : Number[c] <= Number[b] => ~BodyPending(c)
        /\ lastCanonicalWalkHeight = -1 => \A c \in Block : bodyAt[c] # "none" => Number[b] <= Number[c]
    BY DEF FinalizedHead, MayFinalize, FirstFinal
  <1>4. \A c \in Lineage[b] : /\ c \in Block /\ bodyAt[c] # "none"
                              /\ c = b \/ Number[c] < Number[b]
                              /\ Number[c] \in Nat \ {0}
    BY <1>3, <1>f, AncestorsAnnounced, LineageNumbers, NumberInHeight
  <1>5. CanonicalWalk(b) = {c \in Lineage[b] :
                              /\ Number[c] > floor
                              /\ \A d \in Lineage[b] : Number[d] >= Number[c] => InTree(d)}
    BY DEF CanonicalWalk
  <1>6. ASSUME NEW c \in CanonicalWalk(b)
        PROVE  c \in blockExtrinsics
    <2>1. c \in Lineage[b] /\ InTree(c)
      BY <1>4, <1>5
    <2>2. bodyAt[c] = "captured"
      <3>1. Number[c] <= Number[b]
        BY <1>4, <2>1, NumberInHeight
      <3>2. c \in Block /\ bodyAt[c] # "none" /\ ~BodyPending(c)
        BY <1>3, <1>4, <2>1, <3>1
      <3>3. QED
        BY <1>f, <3>2, AnnouncedIsCaptured
    <2>3. QED
      BY <1>4, <1>f, <2>1, <2>2 DEF FeedInv
  <1>7. CASE finalizedTip # NoBlock /\ finalizedTip' = finalizedTip /\ b \in Lineage[finalizedTip]
    <2>1. finalizedTip \in Block /\ (b = finalizedTip \/ Number[b] < Number[finalizedTip])
      BY <1>2, <1>7, LineageNumbers
    <2>2. floor = Number[finalizedTip] /\ Number[finalizedTip] \in Nat
      BY <1>2, <1>7, NumberInHeight
    <2>3. \A c \in Lineage[b] : ~(Number[c] > floor)
      BY <1>4, <2>1, <2>2, NumberInHeight
    <2>4. CanonicalWalk(b) = {}
      BY <1>5, <2>3
    <2>5. {c \in Lineage[finalizedTip'] : ~OnFinalChain(c)} = {}
      BY <1>7 DEF OnFinalChain
    <2>6. QED
      BY <2>4, <2>5
  <1>8. CASE finalizedTip' = b /\ finalizedTip # NoBlock /\ finalizedTip \in Lineage[b]
             /\ Number[finalizedTip] < Number[b]
    <2>1. finalizedTip \in Block /\ floor = Number[finalizedTip] /\ Number[finalizedTip] \in Nat
          /\ finalizedHeight = floor
      BY <1>2, <1>8, NumberInHeight
    <2>2. ASSUME NEW c \in Lineage[b], Number[c] > floor
          PROVE  InTree(c)
      BY <1>4, <1>f, <2>1, <2>2 DEF PrunedFromBelow
    <2>3. ASSUME NEW c \in Lineage[b]
          PROVE  Number[c] > floor <=> ~OnFinalChain(c)
      <3>1. ASSUME Number[c] > floor, c \in Lineage[finalizedTip]
            PROVE  FALSE
        <4>1. c = finalizedTip \/ Number[c] < Number[finalizedTip]
          BY <2>1, <3>1, LineageNumbers
        <4>2. QED
          BY <1>4, <2>1, <3>1, <4>1
      <3>2. ASSUME ~(Number[c] > floor)
            PROVE  c \in Lineage[finalizedTip]
        <4>1. Number[c] <= Number[finalizedTip]
          BY <1>4, <2>1, <3>2
        <4>2. QED
          BY <1>8, <4>1, LowerInLineage
      <3>3. QED
        BY <1>8, <3>1, <3>2 DEF OnFinalChain
    <2>4. \A c \in Lineage[b] : Number[c] > floor =>
             \A d \in Lineage[b] : Number[d] >= Number[c] => InTree(d)
      BY <1>4, <2>1, <2>2
    <2> HIDE DEF floor
    <2>5. QED
      BY <1>5, <1>6, <1>8, <2>3, <2>4
  <1>9. CASE finalizedTip' = b /\ finalizedTip = NoBlock
    <2>1. \A c \in Lineage[b] : c = b
      BY <1>2, <1>3, <1>4, <1>9, NumberInHeight
    <2>2. b \in Lineage[b] /\ Number[b] \in Nat \ {0}
      BY LineageFacts, NumberInHeight
    <2>3. floor = Number[b] - 1
      BY <1>2, <1>9
    <2>4. InTree(b)
      BY <1>2, <1>3, <1>9, <1>f, <2>2 DEF PrunedFromBelow
    <2>5. CanonicalWalk(b) = {b}
      BY <1>5, <2>1, <2>2, <2>3, <2>4
    <2>6. {c \in Lineage[b] : ~OnFinalChain(c)} = {b}
      BY <1>9, <2>1, <2>2 DEF OnFinalChain
    <2>7. QED
      BY <1>6, <1>9, <2>5, <2>6
  <1>10. QED
    BY <1>1, <1>6, <1>7, <1>8, <1>9

\* A key that some captured block of the walk uses gets a transaction of the walk.
LEMMA MarkedWhenHeld ==
    ASSUME TrackerTypeOK, NEW walk, walk \subseteq Block, NEW d \in walk, d \in blockExtrinsics,
           NEW u \in Body[d], Key[u] \in SignerNonce
    PROVE  /\ MarkedCanonical(walk)[Key[u]] \in Tx
           /\ Key[MarkedCanonical(walk)[Key[u]]] = Key[u]
           /\ \E c \in walk : MarkedCanonical(walk)[Key[u]] \in Body[c]
  <1> DEFINE k  == Key[u]
             H  == {c \in walk \cap blockExtrinsics : \E t \in Body[c] : Key[t] = k}
             c0 == CHOOSE x \in H : \A y \in H : Number[x] <= Number[y]
             t0 == CHOOSE t \in Body[c0] : Key[t] = k
  <1>1. MarkedCanonical(walk)[k] = IF H = {} THEN latestBySignerNonce[k] ELSE t0
    BY DEF MarkedCanonical
  <1>2. H # {} /\ H \subseteq Block /\ \A x \in H : x \in walk /\ \E t \in Body[x] : Key[t] = k
    OBVIOUS
  <1> HIDE DEF H
  <1>3. \E x \in H : \A y \in H : Number[x] <= Number[y]
    BY <1>2, LowestBlock
  <1>4. c0 \in H
    BY <1>3
  <1> HIDE DEF c0
  <1>5. t0 \in Body[c0] /\ Key[t0] = k
    BY <1>2, <1>4
  <1> HIDE DEF t0
  <1>6. Body[c0] \subseteq Tx
    BY <1>2, <1>4, TxAssumption
  <1>7. QED
    BY <1>1, <1>2, <1>4, <1>5, <1>6

\* The transactions of the finalized chain are canonical for their keys.
FinalIsCanonical ==
    \A b \in Block : \A t \in Body[b] :
        OnFinalChain(b) /\ Key[t] # NoKey => latestBySignerNonce[Key[t]] = t

\* So they stay: the walk reaches all that is new, and a chain uses a nonce once.
LEMMA FinalizedKeepsCanonical ==
    ASSUME TypeOK, TreeFeedInv, FinalIsCanonical, Orderly,
           NEW b \in Block, NEW connected \in BOOLEAN, FinalizedHead(b, connected)
    PROVE  FinalIsCanonical'
  <1> DEFINE walk == CanonicalWalk(b)
             new == latestBySignerNonce'
             final == Lineage[finalizedTip']
  <1>t. TrackerTypeOK
    BY DEF TypeOK
  <1>1. walk = {c \in final : ~OnFinalChain(c)} /\ walk \subseteq blockExtrinsics
    BY WalkIsNew
  <1>2. finalizedTip' \in Block
    BY TipMoves DEF TreeFeedInv
  <1>3. new = MarkedCanonical(walk)
    BY DEF FinalizedHead, TrackerFinalized
  <1>4. final \subseteq Block /\ walk \subseteq final
    BY <1>1, <1>2, LineageFacts
  <1>5. ASSUME NEW c \in final, NEW d \in final, NEW t \in Body[c], NEW u \in Body[d],
               Key[t] = Key[u], Key[t] # NoKey
        PROVE  t = u
    <2>1. c \in Block /\ d \in Block
      BY <1>4
    <2>2. c \in Lineage[d] \/ d \in Lineage[c]
      BY <1>2, LineageFacts
    <2>3. QED
      BY <1>5, <2>1, <2>2, TxAssumption
  <1> HIDE DEF walk, new, final
  <1>6. SUFFICES ASSUME NEW c \in Block, NEW t \in Body[c], OnFinalChain(c)', Key[t] # NoKey
                 PROVE  new[Key[t]] = t
    BY DEF FinalIsCanonical, new
  <1>7. c \in final /\ t \in Tx /\ Key[t] \in SignerNonce
    BY <1>6, TxAssumption DEF OnFinalChain, final
  <1>8. CASE c \in walk
    <2>1. /\ new[Key[t]] \in Tx /\ Key[new[Key[t]]] = Key[t]
          /\ \E d \in walk : new[Key[t]] \in Body[d]
      BY <1>1, <1>3, <1>4, <1>7, <1>8, <1>t, MarkedWhenHeld
    <2>2. QED
      BY <1>4, <1>5, <1>6, <1>7, <2>1
  <1>9. CASE c \notin walk
    <2>1. OnFinalChain(c)
      BY <1>1, <1>7, <1>9
    <2>2. latestBySignerNonce[Key[t]] = t
      BY <1>6, <2>1 DEF FinalIsCanonical
    <2>3. walk \subseteq Block
      BY <1>4
    <2>4. \/ new[Key[t]] = latestBySignerNonce[Key[t]]
          \/ Key[new[Key[t]]] = Key[t] /\ \E d \in walk : new[Key[t]] \in Body[d]
      BY <1>3, <1>7, <1>t, <2>3, MarkedEffect
    <2>5. QED
      BY <1>4, <1>5, <1>6, <1>7, <2>2, <2>4
  <1>10. QED
    BY <1>8, <1>9

\* The forked heights a finalized head looks at, and what it queues there
NewHeights(b) == {h \in ForkedHeights : h <= Number[b]} \ processedForkHeights

Queued(b) == UNION {LosingEntries(b, h) : h \in NewHeights(b)}

\* What is queued is below the head, and not on the finalized chain.
LEMMA QueuedLost ==
    ASSUME TypeOK, TreeFeedInv, Orderly,
           NEW b \in Block, NEW connected \in BOOLEAN, FinalizedHead(b, connected),
           NEW e \in Queued(b)
    PROVE  e \in ReviewEntry /\ Number[e.block] <= Number[b] /\ e.block \notin Lineage[finalizedTip']
  <1>1. PICK h \in NewHeights(b) : e \in LosingEntries(b, h)
    BY DEF Queued
  <1>2. h \in Height /\ Forked(h) /\ h <= Number[b]
    BY DEF NewHeights, ForkedHeights
  <1>3. /\ e \in ReviewEntry
        /\ e.block \in Range(byHeight[h])
        /\ e.block # CanonicalAncestorAt(b, h)
    BY <1>1 DEF LosingEntries
  <1>4. e.block \in Block /\ InTree(e.block) /\ Number[e.block] = h
    BY <1>2, <1>3, IndexedInTree DEF TypeOK, TreeFeedInv
  <1>5. h \in 1..MaxHeight
    BY <1>4, ChainAssumption
  <1>6. bodyAt[b] # "none"
    BY DEF FinalizedHead, MayFinalize
  <1>7. e.block \notin Lineage[b]
    BY <1>3, <1>4, <1>5, <1>6, AncestorFound
  <1>8. finalizedTip' \in Block /\ b \in Lineage[finalizedTip']
    BY TipMoves DEF TreeFeedInv
  <1>9. QED
    BY <1>2, <1>3, <1>4, <1>7, <1>8, LowerInLineage

\* Nothing that was captured on a losing branch, and that the head passes, is
\* left out: the finalized chain has a block at its height.
LEMMA LosersQueued ==
    ASSUME TypeOK, TreeFeedInv, Orderly, \A h \in processedForkHeights : h <= finalizedHeight,
           NEW b \in Block, NEW connected \in BOOLEAN, FinalizedHead(b, connected),
           NEW c \in Block, bodyAt[c] = "captured", c \notin Lineage[finalizedTip'],
           finalizedHeight < Number[c], Number[c] <= finalizedHeight',
           NEW t \in Body[c]
    PROVE  [tx |-> t, block |-> c] \in Queued(b)
  <1> DEFINE h == Number[c]
             e == [tx |-> t, block |-> c]
  <1>f. FeedInv /\ PrunedFromBelow /\ IndexesAgree /\ TreeTypeOK
    BY DEF TreeFeedInv, TypeOK
  <1>n. /\ finalizedHeight \in Nat /\ finalizedHeight' \in Nat /\ \A x \in Block : Number[x] \in Nat
    <2>1. finalizedHeight' = Number[finalizedTip'] /\ finalizedTip' \in Block
      BY <1>f, TipMoves
    <2>2. QED
      BY <1>f, <2>1, NumberInHeight DEF TreeTypeOK, Height
  <1>1. /\ finalizedTip' = b /\ finalizedHeight' = Number[b]
        /\ finalizedTip # NoBlock => finalizedTip \in Lineage[b] /\ finalizedHeight = Number[finalizedTip]
        /\ bodyAt[b] # "none"
    <2>1. /\ finalizedHeight' = Number[finalizedTip']
          /\ \/ finalizedTip # NoBlock /\ finalizedTip' = finalizedTip
             \/ finalizedTip' = b /\ (finalizedTip # NoBlock => finalizedTip \in Lineage[b])
          /\ bodyAt[finalizedTip'] # "none"
      BY <1>f, TipMoves
    <2>2. finalizedTip # NoBlock => finalizedHeight = Number[finalizedTip]
      BY <1>f DEF FeedInv
    <2>3. ~(finalizedTip # NoBlock /\ finalizedTip' = finalizedTip)
      BY <1>n, <2>1, <2>2
    <2>4. QED
      BY <2>1, <2>2, <2>3
  <1>2. \A x \in Block : bodyAt[x] # "none" /\ Number[x] > finalizedHeight => InTree(x)
    BY <1>f, <1>n DEF PrunedFromBelow
  <1>3. PICK d \in Lineage[b] : Number[d] = h
    <2>1. CASE finalizedTip = NoBlock
      <3>1. lastCanonicalWalkHeight = -1
        BY <1>f, <2>1 DEF FeedInv
      <3>2. Number[b] <= h
        BY <3>1 DEF FinalizedHead, FirstFinal
      <3>3. b \in Lineage[b] /\ Number[b] = h
        BY <1>1, <1>n, <3>2, LineageFacts
      <3>4. QED
        BY <3>3
    <2>2. CASE finalizedTip # NoBlock
      <3>1. finalizedTip \in Lineage[b] /\ Number[finalizedTip] <= h /\ h <= Number[b] /\ h \in Nat
        BY <1>1, <1>n, <2>2 DEF TypeOK
      <3> HIDE DEF h
      <3>2. QED
        BY <3>1, LineageUnbroken
    <2>3. QED
      BY <2>1, <2>2
  <1>4. d \in Block /\ bodyAt[d] # "none"
    BY <1>1, <1>f, AncestorsAnnounced
  <1>5. InTree(c) /\ InTree(d) /\ c # d
    BY <1>1, <1>2, <1>3, <1>4
  <1>6. h \in ForkedHeights /\ c \in Range(byHeight[h])
    BY <1>3, <1>4, <1>5, <1>f, TwoBlocksFork
  <1>7. h \in NewHeights(b)
    BY <1>1, <1>6, <1>n DEF NewHeights
  <1>8. c # CanonicalAncestorAt(b, h)
    <2>1. CanonicalAncestorAt(b, h) \in Lineage[b] \cup {NoBlock}
      BY <1>1, AncestorFound, ChainAssumption
    <2>2. QED
      BY <1>1, <2>1, ChainAssumption
  <1>9. c \in blockExtrinsics
    BY <1>5, <1>f DEF FeedInv
  <1>10. e \in ReviewEntry /\ e.block = c /\ e.tx = t
    BY TxAssumption DEF ReviewEntry
  <1> HIDE DEF e
  <1>11. e \in LosingEntries(b, h)
    BY <1>6, <1>8, <1>9, <1>10 DEF LosingEntries
  <1>12. QED
    BY <1>7, <1>11 DEF Queued, e

-----------------------------------------------------------------------------
(* The reviews *)

\* Whatever was looked at is not above the finalized height.
ReviewedBelow ==
    /\ \A h \in processedForkHeights : h <= finalizedHeight
    /\ \A e \in pendingReorgReview : Number[e.block] <= finalizedHeight

\* What is remembered as reported was reported.
RememberedReported == \A t \in finalizedHashes : submittedTxs[t] # <<>>

ReviewInv ==
    /\ ReviewedBelow
    /\ RememberedReported
    /\ FinalIsCanonical
    /\ WinnerNeverReviewed
    /\ LosersAccounted

\* finalize() leaves every hash it is given reported, now or before.
LEMMA FinalizeReports ==
    ASSUME TrackerTypeOK, RememberedReported, NEW txs, txs \subseteq Tx,
           NEW status, status \in [txs -> Status], Finalize(txs, status)
    PROVE  /\ RememberedReported'
           /\ \A t \in Tx : t \in txs \/ submittedTxs[t] # <<>> => submittedTxs'[t] # <<>>
  <1> DEFINE new == txs \ finalizedHashes
  <1>1. /\ finalizedHashes' \in Remember(finalizedHashes, new)
        /\ submittedTxs' = [t \in Tx |-> IF t \in new THEN Append(submittedTxs[t], status[t])
                                         ELSE submittedTxs[t]]
    BY DEF Finalize
  <1>2. finalizedHashes' \subseteq finalizedHashes \cup new
    <2> HIDE DEF new
    <2>1. QED
      BY <1>1 DEF Remember
  <1>3. \A t \in Tx : t \in new \/ submittedTxs[t] # <<>> => submittedTxs'[t] # <<>>
    <2> SUFFICES ASSUME NEW t \in Tx, t \in new \/ submittedTxs[t] # <<>>
                 PROVE  submittedTxs'[t] # <<>>
      OBVIOUS
    <2>1. CASE t \in new
      <3>1. status[t] \in Status /\ submittedTxs[t] \in Seq(Status)
        BY <2>1 DEF TrackerTypeOK
      <3>2. Append(submittedTxs[t], status[t]) # <<>>
        <4>1. /\ Len(Append(submittedTxs[t], status[t])) = Len(submittedTxs[t]) + 1
              /\ Len(submittedTxs[t]) \in Nat /\ Len(<<>>) = 0
          BY <3>1, AppendProperties, LenProperties, EmptySeq
        <4>2. QED
          BY <4>1
      <3>3. QED
        BY <1>1, <2>1, <3>2
    <2>2. CASE t \notin new
      BY <1>1, <2>2
    <2>3. QED
      BY <2>1, <2>2
  <1>4. \A t \in finalizedHashes' : t \in Tx /\ (t \in new \/ submittedTxs[t] # <<>>)
    BY <1>2 DEF RememberedReported, TrackerTypeOK
  <1>5. \A t \in txs : t \in new \/ submittedTxs[t] # <<>>
    BY DEF RememberedReported
  <1>6. QED
    BY <1>3, <1>4, <1>5 DEF RememberedReported

\* A finalized head keeps under review what is not due, and reports what is due
\* and not included: that and nothing else.
LEMMA ReviewEffect ==
    ASSUME TypeOK, RememberedReported,
           NEW b \in Block, NEW connected \in BOOLEAN, FinalizedHead(b, connected)
    PROVE  /\ processedForkHeights' = processedForkHeights \cup NewHeights(b)
           /\ pendingReorgReview' \subseteq pendingReorgReview \cup Queued(b)
           /\ \A e \in pendingReorgReview \cup Queued(b) :
                 \/ e \in pendingReorgReview'
                 \/ InclusionFor(latestBySignerNonce', e.tx) = e.tx
                 \/ submittedTxs'[e.tx] # <<>>
           /\ \A t \in Tx : submittedTxs'[t] # submittedTxs[t] =>
                               InclusionFor(latestBySignerNonce', t) # t
           /\ \A t \in Tx : submittedTxs[t] # <<>> => submittedTxs'[t] # <<>>
           /\ RememberedReported'
  <1> DEFINE k       == Number[b]
             known   == Later(k, lastKnownHeight)
             latest  == MarkedCanonical(CanonicalWalk(b))
             heights == {h \in ForkedHeights : h <= k} \ processedForkHeights
             queued  == UNION {LosingEntries(b, h) : h \in heights}
             due     == {e \in pendingReorgReview \cup queued : k >= Number[e.block] + GraceBlocks}
             alerted == {e.tx : e \in {d \in due : InclusionFor(latest, d.tx) # d.tx}}
             status  == [t \in alerted |-> ReviewStatus(t, latest, known)]
  <1>1. /\ latestBySignerNonce' = latest
        /\ processedForkHeights' = processedForkHeights \cup heights
        /\ pendingReorgReview' = (pendingReorgReview \cup queued) \ due
        /\ Finalize(alerted, status)
    BY DEF FinalizedHead, TrackerFinalized
  <1>2. heights = NewHeights(b) /\ queued = Queued(b)
    BY DEF NewHeights, Queued
  <1>3. pendingReorgReview \cup queued \subseteq ReviewEntry
    <2>1. \A h : LosingEntries(b, h) \subseteq ReviewEntry
      BY DEF LosingEntries
    <2>2. QED
      BY <2>1 DEF TypeOK, TrackerTypeOK
  <1>4. \A e \in ReviewEntry : e.tx \in Tx
    BY DEF ReviewEntry
  <1>5. due \subseteq pendingReorgReview \cup queued
    OBVIOUS
  <1>6. /\ \A e \in due : InclusionFor(latest, e.tx) # e.tx => e.tx \in alerted
        /\ \A t \in alerted : InclusionFor(latest, t) # t /\ \E e \in due : t = e.tx
    OBVIOUS
  <1> HIDE DEF known, latest, heights, queued, due, alerted
  <1>7. alerted \subseteq Tx
    BY <1>3, <1>4, <1>5, <1>6
  <1>8. status \in [alerted -> Status]
    BY DEF ReviewStatus, Status
  <1> HIDE DEF status
  <1>9. TrackerTypeOK
    BY DEF TypeOK
  <1>10. /\ RememberedReported'
         /\ \A t \in Tx : t \in alerted \/ submittedTxs[t] # <<>> => submittedTxs'[t] # <<>>
    BY <1>1, <1>7, <1>8, <1>9, FinalizeReports
  <1>11. \A t \in Tx : submittedTxs'[t] # submittedTxs[t] => t \in alerted
    BY <1>1, <1>7, <1>8, <1>9, ReportedBy
  <1>12. ASSUME NEW e \in pendingReorgReview \cup queued
         PROVE  \/ e \in pendingReorgReview'
                \/ InclusionFor(latest, e.tx) = e.tx
                \/ submittedTxs'[e.tx] # <<>>
    BY <1>1, <1>3, <1>4, <1>6, <1>10
  <1>13. QED
    BY <1>1, <1>2, <1>6, <1>10, <1>11, <1>12

\* A finalized head keeps the reviews right.
LEMMA FinalizedKeepsReviews ==
    ASSUME TypeOK, RescueInv, RescueInv', TreeFeedInv, ReviewInv, Orderly,
           NEW b \in Block, NEW connected \in BOOLEAN, FinalizedHead(b, connected)
    PROVE  ReviewInv'
  <1>r. /\ ReviewedBelow /\ RememberedReported /\ FinalIsCanonical
        /\ WinnerNeverReviewed /\ LosersAccounted
    BY DEF ReviewInv
  <1>1. /\ finalizedTip' \in Block
        /\ finalizedHeight <= finalizedHeight' /\ Number[b] <= finalizedHeight'
        /\ \/ finalizedTip # NoBlock /\ finalizedTip' = finalizedTip
           \/ finalizedTip' = b /\ (finalizedTip # NoBlock => finalizedTip \in Lineage[b])
    BY TipMoves DEF TreeFeedInv
  <1>2. /\ processedForkHeights' = processedForkHeights \cup NewHeights(b)
        /\ pendingReorgReview' \subseteq pendingReorgReview \cup Queued(b)
        /\ \A e \in pendingReorgReview \cup Queued(b) :
              \/ e \in pendingReorgReview'
              \/ InclusionFor(latestBySignerNonce', e.tx) = e.tx
              \/ submittedTxs'[e.tx] # <<>>
        /\ \A t \in Tx : submittedTxs[t] # <<>> => submittedTxs'[t] # <<>>
        /\ RememberedReported'
    BY <1>r, ReviewEffect
  <1>3. /\ finalizedHeight \in Nat /\ finalizedHeight' \in Nat
        /\ \A c \in Block : Number[c] \in Nat
        /\ \A h \in processedForkHeights \cup NewHeights(b) : h \in Nat
    <2>1. finalizedHeight' = Number[finalizedTip']
      BY TipMoves DEF TreeFeedInv
    <2>2. processedForkHeights \subseteq Height /\ NewHeights(b) \subseteq Height
      BY DEF TypeOK, TrackerTypeOK, NewHeights, ForkedHeights
    <2>3. QED
      BY <1>1, <2>1, <2>2, NumberInHeight DEF TypeOK, TreeTypeOK, Height
  <1>4. \A e \in Queued(b) : e \in ReviewEntry /\ Number[e.block] <= Number[b]
                             /\ e.block \notin Lineage[finalizedTip']
    BY QueuedLost
  <1>5. /\ pendingReorgReview \subseteq ReviewEntry
        /\ \A e \in ReviewEntry : e.block \in Block /\ e.tx \in Tx
    BY DEF TypeOK, TrackerTypeOK, ReviewEntry
  <1>6. ReviewedBelow'
    <2>1. \A h \in NewHeights(b) : h <= Number[b]
      BY DEF NewHeights
    <2>2. \A h \in processedForkHeights' : h <= finalizedHeight'
      BY <1>1, <1>2, <1>3, <1>r, <2>1 DEF ReviewedBelow
    <2>3. \A e \in pendingReorgReview' : Number[e.block] <= finalizedHeight'
      <3> SUFFICES ASSUME NEW e \in pendingReorgReview'
                   PROVE  Number[e.block] <= finalizedHeight'
        OBVIOUS
      <3>1. e.block \in Block
        BY <1>2, <1>4, <1>5
      <3>2. Number[e.block] <= finalizedHeight \/ Number[e.block] <= Number[b]
        BY <1>2, <1>4, <1>r DEF ReviewedBelow
      <3>3. QED
        BY <1>1, <1>3, <3>1, <3>2
    <2>4. QED
      BY <2>2, <2>3 DEF ReviewedBelow
  <1>7. FinalIsCanonical'
    BY <1>r, FinalizedKeepsCanonical
  \* what is reported as final below the finalized height was so before
  <1>8. ASSUME NEW c \in Block, Number[c] <= finalizedHeight, OnFinalChain(c)'
        PROVE  OnFinalChain(c)
    <2>1. c \in Lineage[finalizedTip']
      BY <1>8 DEF OnFinalChain
    <2>2. CASE finalizedTip # NoBlock /\ finalizedTip' = finalizedTip
      BY <2>1, <2>2 DEF OnFinalChain
    <2>3. CASE finalizedTip' = b /\ finalizedTip # NoBlock /\ finalizedTip \in Lineage[b]
      <3>1. finalizedHeight = Number[finalizedTip]
        BY <2>3 DEF TreeFeedInv, FeedInv
      <3>2. c \in Lineage[finalizedTip]
        BY <1>8, <2>1, <2>3, <3>1, LowerInLineage
      <3>3. QED
        BY <2>3, <3>2 DEF OnFinalChain
    <2>4. CASE finalizedTip = NoBlock
      <3>1. finalizedHeight = 0
        BY <2>4 DEF TreeFeedInv, FeedInv
      <3>2. QED
        BY <1>8, <3>1, NumberInHeight
    <2>5. QED
      BY <1>1, <2>2, <2>3, <2>4
  <1>9. WinnerNeverReviewed'
    <2> SUFFICES ASSUME NEW e \in pendingReorgReview', OnFinalChain(e.block)'
                 PROVE  FALSE
      BY DEF WinnerNeverReviewed
    <2>1. CASE e \in Queued(b)
      BY <1>4, <2>1 DEF OnFinalChain
    <2>2. CASE e \in pendingReorgReview
      <3>1. e.block \in Block /\ Number[e.block] <= finalizedHeight
        BY <1>5, <1>r, <2>2 DEF ReviewedBelow
      <3>2. OnFinalChain(e.block)
        BY <1>8, <3>1
      <3>3. QED
        BY <1>r, <2>2, <3>2 DEF WinnerNeverReviewed
    <2>3. QED
      BY <1>2, <2>1, <2>2
  <1>10. LosersAccounted'
    <2> SUFFICES ASSUME NEW c \in Block, NEW t \in Body[c],
                        bodyAt'[c] = "captured", Number[c] <= finalizedHeight', ~OnFinalChain(c)'
                 PROVE  \/ \E e \in pendingReorgReview' : e.tx = t
                        \/ submittedTxs'[t] # <<>>
                        \/ \E d \in Block : OnFinalChain(d)' /\ t \in Body[d]
      BY DEF LosersAccounted
    <2>1. /\ t \in Tx /\ bodyAt[c] = "captured" /\ c \notin Lineage[finalizedTip']
      BY <1>1, TxAssumption, ChainAssumption DEF FinalizedHead, OnFinalChain
    <2>2. ASSUME NEW e \in pendingReorgReview \cup Queued(b), e.tx = t
          PROVE  \/ \E x \in pendingReorgReview' : x.tx = t
                 \/ submittedTxs'[t] # <<>>
                 \/ \E d \in Block : OnFinalChain(d)' /\ t \in Body[d]
      <3>1. CASE InclusionFor(latestBySignerNonce', t) = t
        <4>1. Key[t] \in SignerNonce /\ latestBySignerNonce'[Key[t]] = t /\ t # NoInclusion
          BY <2>1, <3>1, TxAssumption DEF InclusionFor
        <4>2. CanonicalOnlyFromFinalized'
          BY DEF RescueInv
        <4>3. QED
          BY <4>1, <4>2 DEF CanonicalOnlyFromFinalized
      <3>2. CASE InclusionFor(latestBySignerNonce', t) # t
        BY <1>2, <2>2, <3>2
      <3>3. QED
        BY <3>1, <3>2
    <2>3. CASE Number[c] <= finalizedHeight
      <3>1. ~OnFinalChain(c)
        <4>1. finalizedTip # NoBlock => Lineage[finalizedTip] \subseteq Lineage[finalizedTip']
          BY TipGrows
        <4>2. QED
          BY <2>1, <4>1 DEF OnFinalChain
      <3>2. \/ \E e \in pendingReorgReview : e.tx = t
            \/ submittedTxs[t] # <<>>
            \/ \E d \in Block : OnFinalChain(d) /\ t \in Body[d]
        BY <1>r, <2>1, <2>3, <3>1 DEF LosersAccounted
      <3>3. ASSUME NEW d \in Block, OnFinalChain(d)
            PROVE  OnFinalChain(d)'
        <4>1. finalizedTip # NoBlock => Lineage[finalizedTip] \subseteq Lineage[finalizedTip']
          BY TipGrows
        <4>2. QED
          BY <1>1, <3>3, <4>1, ChainAssumption DEF OnFinalChain
      <3>4. QED
        BY <1>2, <2>1, <2>2, <3>2, <3>3
    <2>4. CASE ~(Number[c] <= finalizedHeight)
      <3>1. finalizedHeight < Number[c]
        BY <1>3, <2>4
      <3>2. [tx |-> t, block |-> c] \in Queued(b)
        BY <1>r, <2>1, <3>1, LosersQueued DEF ReviewedBelow
      <3>3. QED
        BY <2>2, <3>2
    <2>5. QED
      BY <2>3, <2>4
  <1>11. QED
    BY <1>2, <1>6, <1>7, <1>9, <1>10 DEF ReviewInv

\* Steps between finalized heads keep the reviews right.
LEMMA QuietKeepsReviews ==
    ASSUME TreeTypeOK, TrackerTypeOK, ReviewInv, RememberedReported',
           UNCHANGED <<finalizedHeight, finalizedTip, latestBySignerNonce, pendingReorgReview>>,
           processedForkHeights' \subseteq processedForkHeights,
           \A t \in Tx : submittedTxs[t] # <<>> => submittedTxs'[t] # <<>>,
           \A c \in Block : bodyAt'[c] = "captured" =>
               bodyAt[c] = "captured" \/ Number[c] > finalizedHeight
    PROVE  ReviewInv'
  <1>1. \A c \in Block : OnFinalChain(c)' <=> OnFinalChain(c)
    BY DEF OnFinalChain
  <1>2. ReviewedBelow'
    BY DEF ReviewInv, ReviewedBelow
  <1>3. FinalIsCanonical'
    BY <1>1 DEF ReviewInv, FinalIsCanonical
  <1>4. WinnerNeverReviewed'
    BY <1>1 DEF ReviewInv, WinnerNeverReviewed, TrackerTypeOK, ReviewEntry
  <1>5. LosersAccounted'
    <2> SUFFICES ASSUME NEW c \in Block, NEW t \in Body[c],
                        bodyAt'[c] = "captured", Number[c] <= finalizedHeight, ~OnFinalChain(c)
                 PROVE  \/ \E e \in pendingReorgReview' : e.tx = t
                        \/ submittedTxs'[t] # <<>>
                        \/ \E d \in Block : OnFinalChain(d)' /\ t \in Body[d]
      BY <1>1 DEF LosersAccounted
    <2>1. t \in Tx /\ ~(Number[c] > finalizedHeight)
      BY TxAssumption, NumberInHeight DEF TreeTypeOK, Height
    <2>2. \/ \E e \in pendingReorgReview : e.tx = t
          \/ submittedTxs[t] # <<>>
          \/ \E d \in Block : OnFinalChain(d) /\ t \in Body[d]
      BY <2>1 DEF ReviewInv, LosersAccounted
    <2>3. QED
      BY <1>1, <2>1, <2>2
  <1>6. QED
    BY <1>2, <1>3, <1>4, <1>5 DEF ReviewInv

\* There is nothing to review at start.
LEMMA InitReviews == Init => ReviewInv
  <1> SUFFICES ASSUME Init
               PROVE  ReviewInv
    OBVIOUS
  <1>1. /\ finalizedTip = NoBlock /\ pendingReorgReview = {} /\ processedForkHeights = {}
        /\ finalizedHashes = {} /\ \A b \in Block : bodyAt[b] = "none"
    BY DEF Init, TrackerInit
  <1>2. QED
    BY <1>1 DEF ReviewInv, ReviewedBelow, RememberedReported, FinalIsCanonical, WinnerNeverReviewed,
                LosersAccounted, OnFinalChain

\* Every step keeps the reviews right.
LEMMA NextReviews ==
    ASSUME Orderly, TypeOK, RescueInv, RescueInv', TreeFeedInv, ReviewInv, [Next]_vars
    PROVE  ReviewInv'
  <1>t. TreeTypeOK /\ TrackerTypeOK /\ RememberedReported /\ FeedInv
    BY DEF TypeOK, ReviewInv, TreeFeedInv
  \* steps that report nothing
  <1>q. ASSUME UNCHANGED <<finalizedHeight, finalizedTip, latestBySignerNonce, pendingReorgReview,
                           finalizedHashes, submittedTxs>>,
               processedForkHeights' \subseteq processedForkHeights,
               \A c \in Block : bodyAt'[c] = "captured" =>
                   bodyAt[c] = "captured" \/ Number[c] > finalizedHeight
        PROVE  ReviewInv'
    <2>1. RememberedReported'
      BY <1>q, <1>t DEF RememberedReported
    <2>2. \A t \in Tx : submittedTxs[t] # <<>> => submittedTxs'[t] # <<>>
      BY <1>q
    <2>3. QED
      BY <1>q, <1>t, <2>1, <2>2, QuietKeepsReviews
  \* a body on its way
  <1>m. ASSUME NEW b \in Block, NEW stage, MoveBody(b, stage),
               stage = "captured" => Number[b] > finalizedHeight
        PROVE  \A c \in Block : bodyAt'[c] = "captured" =>
                   bodyAt[c] = "captured" \/ Number[c] > finalizedHeight
    BY <1>m DEF MoveBody, TypeOK
  <1>1. ASSUME NEW n \in Node, NEW b \in Block, HeadKnown(n, b)
        PROVE  ReviewInv'
    BY <1>1, <1>q DEF HeadKnown, trackerVars, monitorVars
  <1>2. ASSUME NEW n \in Node, NEW b \in Block, HeadAlone(n, b)
        PROVE  ReviewInv'
    <2>1. MoveBody(b, "getBlock") /\ "getBlock" # "captured"
      BY <1>2 DEF HeadAlone
    <2>2. QED
      BY <1>2, <1>m, <1>q, <2>1 DEF HeadAlone
  <1>3. ASSUME NEW n \in Node, NEW b \in Block, HeadForked(n, b)
        PROVE  ReviewInv'
    <2>1. MoveBody(b, "forked") /\ "forked" # "captured"
      BY <1>3 DEF HeadForked
    <2>2. QED
      BY <1>3, <1>m, <1>q, <2>1 DEF HeadForked, trackerVars
  <1>4. ASSUME NEW b \in Block, ForkHandled(b)
        PROVE  ReviewInv'
    <2>1. MoveBody(b, "getBlock") /\ "getBlock" # "captured"
      BY <1>4 DEF ForkHandled
    <2>2. QED
      BY <1>4, <1>m, <1>q, <2>1 DEF ForkHandled, treeVars
  <1>5. ASSUME NEW b \in Block, BodyArrives(b)
        PROVE  ReviewInv'
    <2>1. MoveBody(b, "captured") /\ Number[b] > finalizedHeight
      BY <1>5, <1>t DEF BodyArrives, FeedInv, BodyPending
    <2>2. QED
      BY <1>5, <1>m, <1>q, <2>1 DEF BodyArrives, treeVars
  <1>6. ASSUME NEW b \in Block, BodyFails(b)
        PROVE  ReviewInv'
    BY <1>6 DEF BodyFails
  <1>7. ASSUME NEW b \in Block, NEW connected \in BOOLEAN, FinalizedHead(b, connected)
        PROVE  ReviewInv'
    BY <1>7, FinalizedKeepsReviews
  <1>8. ASSUME NEW k \in Height, FinalizedHeadResolved(k)
        PROVE  ReviewInv'
    BY <1>8, <1>q DEF FinalizedHeadResolved, PruneTracker
  <1>9. ASSUME NEW pool \in SUBSET PoolTx, NEW connected \in BOOLEAN, PoolPolled(pool, connected)
        PROVE  ReviewInv'
    <2>1. PoolAnswered(pool, connected) /\ pool \subseteq Tx
      BY <1>9, FeedAssumption DEF PoolPolled
    <2>2. PICK txs \in SUBSET (Tx \ includedHashes) : \E status \in [txs -> Status] : Finalize(txs, status)
      BY <1>t, <2>1, PoolAnsweredEffect
    <2>3. PICK status \in [txs -> Status] : Finalize(txs, status)
      BY <2>2
    <2>4. RememberedReported' /\ \A t \in Tx : submittedTxs[t] # <<>> => submittedTxs'[t] # <<>>
      BY <1>t, <2>3, FinalizeReports
    <2>5. /\ UNCHANGED <<finalizedHeight, finalizedTip, latestBySignerNonce, pendingReorgReview, bodyAt>>
          /\ processedForkHeights' \subseteq processedForkHeights
      BY <1>9 DEF PoolPolled, PoolAnswered, treeVars, monitorVars
    <2>6. QED
      BY <1>t, <2>4, <2>5, QuietKeepsReviews
  <1>10. ASSUME NEW t \in Tx, NEW connected \in BOOLEAN, RetryTimer(t, connected)
         PROVE  ReviewInv'
    BY <1>10, <1>q DEF RetryTimer, RetryTick, treeVars, monitorVars
  <1>11. CASE UNCHANGED vars
    BY <1>11, <1>q DEF vars, treeVars, trackerVars, monitorVars
  <1>12. QED
    BY <1>1, <1>2, <1>3, <1>4, <1>5, <1>6, <1>7, <1>8, <1>9, <1>10, <1>11 DEF Next

\* All of it holds in every state an orderly feed leads to.
LEMMA OrderlyInvariant == Orderly /\ Spec => [](TypeOK /\ CountInv /\ RescueInv /\ TreeFeedInv /\ ReviewInv)
  <1> DEFINE Inv == TypeOK /\ CountInv /\ RescueInv /\ TreeFeedInv /\ ReviewInv
  <1>1. Init => Inv
    BY InitCounts, InitRescue, InitFeed, InitReviews
  <1>2. ASSUME Orderly
        PROVE  Inv /\ [Next]_vars => Inv'
    <2> SUFFICES ASSUME Inv, [Next]_vars
                 PROVE  Inv'
      OBVIOUS
    <2>1. TypeOK' /\ CountInv'
      BY NextCounts
    <2>2. RescueInv'
      BY NextRescue
    <2>3. TreeFeedInv'
      BY <1>2, NextFeed
    <2>4. ReviewInv'
      BY <1>2, <2>2, NextReviews
    <2>5. QED
      BY <2>1, <2>2, <2>3, <2>4
  <1> HIDE DEF Inv
  <1>3. Orderly => (Spec => []Inv)
    <2> SUFFICES ASSUME Orderly
                 PROVE  Spec => []Inv
      OBVIOUS
    <2>1. Inv /\ [Next]_vars => Inv'
      BY <1>2
    <2>2. QED
      BY <1>1, <2>1, PTL DEF Spec
  <1>4. QED
    BY <1>3 DEF Inv

-----------------------------------------------------------------------------
(* Alerts *)

\* On the finalized chain every body was captured, so every hash of it was seen.
LEMMA FinalIsSeen ==
    ASSUME TypeOK, RescueInv, FeedInv, NEW c \in Block, OnFinalChain(c), NEW t \in Body[c]
    PROVE  t \in includedHashes
  <1>1. /\ finalizedTip \in Block /\ c \in Lineage[finalizedTip] /\ bodyAt[finalizedTip] # "none"
        /\ finalizedHeight = Number[finalizedTip]
    BY DEF OnFinalChain, TypeOK, FeedInv
  <1>2. bodyAt[c] # "none"
    BY <1>1, AncestorsAnnounced
  <1>3. c = finalizedTip \/ Number[c] < Number[finalizedTip]
    BY <1>1, LineageNumbers
  <1>4. ~BodyPending(c)
    BY <1>1, <1>3, NumberInHeight DEF FeedInv
  <1>5. bodyAt[c] = "captured"
    BY <1>2, <1>4, AnnouncedIsCaptured
  <1>6. QED
    BY <1>5 DEF RescueInv, SeenInv

\* What a step reports is not in a block of the finalized chain.
LEMMA AlertsReal ==
    ASSUME Orderly, TypeOK, RescueInv, TreeFeedInv, ReviewInv, [Next]_vars, ReviewInv',
           NEW t \in Tx, Reported(t), Key[t] # NoKey,
           NEW c \in Block, OnFinalChain(c)', t \in Body[c]
    PROVE  FALSE
  <1>t. TrackerTypeOK /\ RememberedReported
    BY DEF TypeOK, ReviewInv
  <1>k. submittedTxs'[t] # submittedTxs[t]
    <2>1. submittedTxs[t] \in Seq(Status)
      BY <1>t DEF TrackerTypeOK
    <2>2. Len(submittedTxs[t]) \in Nat
      BY <2>1, LenProperties
    <2>3. QED
      BY <2>2 DEF Reported
  <1>1. ASSUME NEW b \in Block, NEW connected \in BOOLEAN, FinalizedHead(b, connected)
        PROVE  FALSE
    <2>1. InclusionFor(latestBySignerNonce', t) # t
      BY <1>1, <1>k, <1>t, ReviewEffect
    <2>2. latestBySignerNonce'[Key[t]] = t
      BY DEF ReviewInv, FinalIsCanonical
    <2>3. QED
      BY <2>1, <2>2 DEF InclusionFor
  <1>2. ASSUME NEW pool \in SUBSET PoolTx, NEW connected \in BOOLEAN, PoolPolled(pool, connected)
        PROVE  FALSE
    <2>1. PoolAnswered(pool, connected) /\ pool \subseteq Tx
      BY <1>2, FeedAssumption DEF PoolPolled
    <2>2. PICK txs \in SUBSET (Tx \ includedHashes) : \E status \in [txs -> Status] : Finalize(txs, status)
      BY <1>t, <2>1, PoolAnsweredEffect
    <2>3. PICK status \in [txs -> Status] : Finalize(txs, status)
      BY <2>2
    <2>4. t \in txs
      BY <1>k, <1>t, <2>3, ReportedBy
    <2>5. OnFinalChain(c)
      BY <1>2 DEF PoolPolled, monitorVars, OnFinalChain
    <2>6. t \in includedHashes
      BY <2>5, FinalIsSeen DEF TreeFeedInv
    <2>7. QED
      BY <2>4, <2>6
  <1>3. ASSUME NEW k \in Height, FinalizedHeadResolved(k)
        PROVE  FALSE
    BY <1>3, <1>k DEF FinalizedHeadResolved, PruneTracker
  <1>4. ASSUME NEW u \in Tx, NEW connected \in BOOLEAN, RetryTimer(u, connected)
        PROVE  FALSE
    BY <1>4, <1>k DEF RetryTimer, RetryTick
  <1>5. ASSUME NEW n \in Node, NEW b \in Block,
               HeadKnown(n, b) \/ HeadAlone(n, b) \/ HeadForked(n, b)
        PROVE  FALSE
    BY <1>5, <1>k DEF HeadKnown, HeadAlone, HeadForked, trackerVars
  <1>6. ASSUME NEW b \in Block, ForkHandled(b) \/ BodyArrives(b) \/ BodyFails(b)
        PROVE  FALSE
    BY <1>6, <1>k DEF ForkHandled, BodyArrives, BodyFails, trackerVars
  <1>7. CASE UNCHANGED vars
    BY <1>7, <1>k DEF vars, trackerVars
  <1>8. QED
    BY <1>1, <1>2, <1>3, <1>4, <1>5, <1>6, <1>7 DEF Next

-----------------------------------------------------------------------------
(* Theorems *)

\* With an orderly feed the winner of a fork is never under review: the walk
\* from the finalized block to a forked height meets no pruned header, and what
\* is queued once is never overtaken by the finalized chain.
THEOREM WinnerSpared == Orderly /\ Spec => []WinnerNeverReviewed
  <1>1. ReviewInv => WinnerNeverReviewed
    BY DEF ReviewInv
  <1>2. QED
    BY <1>1, OrderlyInvariant, PTL

\* With an orderly feed every transaction of a losing block below the finalized
\* height is under review, was reported, or is in the finalized chain, however
\* many heights one finalized head covers and whatever was pruned since.
THEOREM NoLoserForgotten == Orderly /\ Spec => []LosersAccounted
  <1>1. ReviewInv => LosersAccounted
    BY DEF ReviewInv
  <1>2. QED
    BY <1>1, OrderlyInvariant, PTL

\* With an orderly feed nothing that is in the finalized chain is reported, by
\* the reviews of losing blocks or by the polls of the pool.
THEOREM NoFalseAlarm == Orderly /\ Spec => AlertsAreReal
  <1> DEFINE A == \A t \in Tx : Reported(t) /\ Key[t] # NoKey =>
                      ~\E b \in Block : OnFinalChain(b)' /\ Number[b] <= finalizedHeight' /\ t \in Body[b]
             Inv == TypeOK /\ CountInv /\ RescueInv /\ TreeFeedInv /\ ReviewInv
  <1>1. ASSUME Orderly
        PROVE  Inv /\ Inv' /\ [Next]_vars => [A]_vars
    BY <1>1, AlertsReal
  <1>2. Orderly => (Spec => [][A]_vars)
    <2> SUFFICES ASSUME Orderly
                 PROVE  Spec => [][A]_vars
      OBVIOUS
    <2>1. Inv /\ Inv' /\ [Next]_vars => [A]_vars
      BY <1>1
    <2>2. Spec => []Inv
      BY OrderlyInvariant, PTL
    <2> HIDE DEF Inv, A
    <2>3. QED
      BY <2>1, <2>2, PTL DEF Spec
  <1>3. QED
    BY <1>2 DEF AlertsAreReal

=============================================================================
