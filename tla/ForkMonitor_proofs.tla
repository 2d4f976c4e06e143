-------------------------- MODULE ForkMonitor_proofs --------------------------
(***************************************************************************)
(* Safety of the fork life cycle for every set of nodes and blocks, every  *)
(* header, every PruneAfter, and with or without a database that fails.    *)
(***************************************************************************)
EXTENDS ForkMonitor, BlockTree_proofs, FiniteSetTheorems

USE ChainAssumption, RingAssumption, MonitorAssumption

-----------------------------------------------------------------------------
(* Facts about the operators *)

\* A set of heights is finite, so its size is a natural number.
LEMMA HeightsFinite ==
    ASSUME NEW S, S \subseteq Height
    PROVE  IsFiniteSet(S) /\ Cardinality(S) \in Nat
  <1>1. IsFiniteSet(Height)
    BY FS_Interval DEF Height
  <1>2. IsFiniteSet(S)
    BY <1>1, FS_Subset
  <1>3. QED
    BY <1>2, FS_CardinalityType

\* The push onto the ring buffer yields a buffer.
LEMMA PushRecentType ==
    ASSUME NEW ring \in Seq(ForkEntry), NEW e \in ForkEntry
    PROVE  PushRecent(ring, e) \in Seq(ForkEntry)
  <1>1. Append(ring, e) \in Seq(ForkEntry) /\ Append(ring, e) # <<>>
    BY AppendProperties
  <1>2. Tail(Append(ring, e)) \in Seq(ForkEntry)
    BY <1>1, HeadTailProperties
  <1>3. QED
    BY <1>1, <1>2 DEF PushRecent

\* Marking entries as resolved yields a buffer.
LEMMA MarkResolvedType ==
    ASSUME DetectorTypeOK, NEW k \in Int, MarkResolved(k)
    PROVE  /\ recentForks' \in Seq(ForkEntry)
           /\ totalForkCount' \in Nat
           /\ activeForkHeights' \in Int
  <1>1. recentForks \in [1..Len(recentForks) -> ForkEntry] /\ Len(recentForks) \in Nat
    BY LenProperties DEF DetectorTypeOK
  <1>2. recentForks' \in [1..Len(recentForks) -> ForkEntry]
    BY <1>1 DEF MarkResolved, ForkEntry
  <1>3. recentForks' \in Seq(ForkEntry)
    BY <1>1, <1>2, SeqDef
  <1>4. Cardinality(ResolvedBy(k)) \in Nat
    BY HeightsFinite DEF ResolvedBy, DetectorTypeOK
  <1>5. QED
    BY <1>3, <1>4 DEF MarkResolved, DetectorTypeOK

\* Moving a callback keeps the types of its position and its insert loop.
LEMMA MoveHeadType ==
    ASSUME TypeOK, NEW n \in Node, NEW b \in Block,
           NEW stage \in HeadStage, NEW blocks \in Seq(Block),
           MoveHead(n, b, stage, blocks)
    PROVE  /\ headAt' \in [Node -> [Block -> HeadStage]]
           /\ toInsert' \in [Node -> [Block -> Seq(Block)]]
  BY DEF TypeOK, MoveHead

\* What a callback still has to insert is never empty while it inserts.
InsertLoops ==
    \A n \in Node, b \in Block :
        headAt[n][b] \in {"detected", "updated"} => toInsert[n][b] # <<>>

\* A callback that is moved to an insert loop with something to insert keeps
\* that property of all callbacks.
LEMMA MoveHeadLoops ==
    ASSUME TypeOK, InsertLoops, NEW n \in Node, NEW b \in Block,
           NEW stage \in HeadStage, NEW blocks \in Seq(Block),
           MoveHead(n, b, stage, blocks),
           stage \in {"detected", "updated"} => blocks # <<>>
    PROVE  InsertLoops'
  BY DEF TypeOK, MoveHead, InsertLoops

-----------------------------------------------------------------------------
(* Types *)

\* The initial state is well typed.
LEMMA InitType == Init => TypeOK /\ InsertLoops
  <1>1. <<>> \in Seq(Block) /\ <<>> \in Seq(ForkEntry)
    BY EmptySeq
  <1>2. 0 \in Height
    BY DEF Height
  <1>3. QED
    BY <1>1, <1>2 DEF Init, TypeOK, TreeInit, DetectorInit, TreeTypeOK, DetectorTypeOK,
                      HeadStage, FinalStage, InsertLoops

\* Every step keeps the types, and leaves a callback that inserts something to
\* insert.
LEMMA NextType == TypeOK /\ InsertLoops /\ [Next]_vars => TypeOK' /\ InsertLoops'
  <1> SUFFICES ASSUME TypeOK, InsertLoops, [Next]_vars
               PROVE  TypeOK' /\ InsertLoops'
    OBVIOUS
  <1> USE DEF vars, detectorVars, environmentVars, databaseVars
  <1>e. <<>> \in Seq(Block)
    BY EmptySeq
  <1>s. {"none", "detected", "event", "updated", "enrich", "done"} = HeadStage
    BY DEF HeadStage
  <1>t. TreeTypeOK /\ DetectorTypeOK
    BY DEF TypeOK
  <1>1. ASSUME NEW n \in Node, NEW b \in Block, HeadKnown(n, b)
        PROVE  TypeOK' /\ InsertLoops'
    <2>1. /\ headAt' \in [Node -> [Block -> HeadStage]]
          /\ toInsert' \in [Node -> [Block -> Seq(Block)]]
      BY <1>1, <1>e, <1>s, MoveHeadType DEF HeadKnown
    <2>2. TreeTypeOK'
      BY <1>1 DEF HeadKnown, AddKnownBlock, TypeOK, TreeTypeOK
    <2>3. TypeOK'
      BY <1>1, <2>1, <2>2 DEF HeadKnown, TypeOK, DetectorTypeOK
    <2>4. InsertLoops'
      BY <1>1 DEF HeadKnown, MoveHead, InsertLoops, TypeOK
    <2>5. QED
      BY <2>3, <2>4
  <1>2. ASSUME NEW n \in Node, NEW b \in Block, HeadAlone(n, b)
        PROVE  TypeOK' /\ InsertLoops'
    <2>1. /\ headAt' \in [Node -> [Block -> HeadStage]]
          /\ toInsert' \in [Node -> [Block -> Seq(Block)]]
      BY <1>2, <1>e, <1>s, MoveHeadType DEF HeadAlone
    <2>2. TreeTypeOK'
      BY <1>2, <1>t, AddNewBlockType DEF HeadAlone, TreeTypeOK
    <2>3. TypeOK'
      BY <1>2, <2>1, <2>2 DEF HeadAlone, FetchBody, TypeOK, DetectorTypeOK
    <2>4. InsertLoops'
      BY <1>2 DEF HeadAlone, MoveHead, InsertLoops, TypeOK
    <2>5. QED
      BY <2>3, <2>4
  <1>3. ASSUME NEW n \in Node, NEW b \in Block, HeadForkDetected(n, b)
        PROVE  TypeOK' /\ InsertLoops'
    <2>1. TreeTypeOK' /\ byHeight'[Number[b]] \in Seq(Block)
      BY <1>3, <1>t, AddNewBlockType DEF HeadForkDetected, TreeTypeOK
    <2>2. /\ headAt' \in [Node -> [Block -> HeadStage]]
          /\ toInsert' \in [Node -> [Block -> Seq(Block)]]
      BY <1>3, <1>e, <1>s, <2>1, MoveHeadType DEF HeadForkDetected
    <2>3. [height |-> Number[b], resolved |-> FALSE] \in ForkEntry
      BY NumberInHeight DEF ForkEntry
    <2>4. DetectorTypeOK'
      BY <1>3, <1>t, <2>3, PushRecentType, NumberInHeight
         DEF HeadForkDetected, RecordFork, DetectorTypeOK
    <2>5. TypeOK'
      BY <1>3, <2>1, <2>2, <2>4 DEF HeadForkDetected, TypeOK
    <2>6. byHeight'[Number[b]] # <<>>
      BY <1>3, <2>1 DEF HeadForkDetected
    <2>7. InsertLoops'
      BY <1>3, <1>e, <1>s, <2>1, <2>6, MoveHeadLoops DEF HeadForkDetected
    <2>8. QED
      BY <2>5, <2>7
  <1>4. ASSUME NEW n \in Node, NEW b \in Block, HeadForkUpdated(n, b)
        PROVE  TypeOK' /\ InsertLoops'
    <2> DEFINE blocks == byHeight'[Number[b]]
               latest == <<blocks[Len(blocks)]>>
    <2>1. TreeTypeOK' /\ blocks \in Seq(Block)
      BY <1>4, <1>t, AddNewBlockType DEF HeadForkUpdated, TreeTypeOK
    <2>2. latest \in Seq(Block) /\ latest # <<>>
      <3>1. Len(blocks) \in 1..Len(blocks)
        BY <1>4, <2>1, LenProperties DEF HeadForkUpdated
      <3>2. blocks[Len(blocks)] \in Block
        BY <2>1, <3>1, ElementOfSeq
      <3>3. QED
        BY <3>2
    <2>3. /\ headAt' \in [Node -> [Block -> HeadStage]]
          /\ toInsert' \in [Node -> [Block -> Seq(Block)]]
      BY <1>4, <1>e, <1>s, <2>2, MoveHeadType DEF HeadForkUpdated
    <2>4. TypeOK'
      BY <1>4, <2>1, <2>3 DEF HeadForkUpdated, TypeOK, DetectorTypeOK
    <2>5. InsertLoops'
      BY <1>4, <1>e, <1>s, <2>2, MoveHeadLoops DEF HeadForkUpdated
    <2>6. QED
      BY <2>4, <2>5
  <1>5. ASSUME NEW n \in Node, NEW b \in Block, InsertDetectedBlock(n, b)
        PROVE  TypeOK' /\ InsertLoops'
    <2> DEFINE todo == toInsert[n][b]
    <2>1. todo \in Seq(Block) /\ todo # <<>>
      BY <1>5 DEF InsertDetectedBlock, InsertLoops, TypeOK
    <2>2. /\ Head(todo) \in Block /\ Tail(todo) \in Seq(Block)
          /\ Len(todo) # 1 => Tail(todo) # <<>>
      <3>1. /\ Head(todo) \in Block /\ Tail(todo) \in Seq(Block)
            /\ Len(Tail(todo)) = Len(todo) - 1
        BY <2>1, HeadTailProperties
      <3>2. Len(todo) \in Nat
        BY <2>1, LenProperties
      <3>3. Tail(todo) = <<>> => Len(Tail(todo)) = 0
        BY EmptySeq
      <3>4. QED
        BY <3>1, <3>2, <3>3
    <2>3. /\ headAt' \in [Node -> [Block -> HeadStage]]
          /\ toInsert' \in [Node -> [Block -> Seq(Block)]]
      BY <1>5, <1>s, <2>2, MoveHeadType DEF InsertDetectedBlock
    <2>4. TypeOK'
      <3>1. forkBlocks' \subseteq Block
        BY <1>5, <2>2 DEF InsertDetectedBlock, InsertRow, TypeOK
      <3>2. TreeTypeOK' /\ DetectorTypeOK'
        BY <1>5, <1>t DEF InsertDetectedBlock, treeVars, TreeTypeOK, DetectorTypeOK
      <3>3. QED
        BY <1>5, <2>3, <3>1, <3>2 DEF InsertDetectedBlock, TypeOK
    <2>5. InsertLoops'
      BY <1>5, <2>2 DEF InsertDetectedBlock, MoveHead, InsertLoops, TypeOK
    <2>6. QED
      BY <2>4, <2>5
  <1>6. ASSUME NEW n \in Node, NEW b \in Block, InsertForkEvent(n, b)
        PROVE  TypeOK' /\ InsertLoops'
    <2>1. /\ headAt' \in [Node -> [Block -> HeadStage]]
          /\ toInsert' \in [Node -> [Block -> Seq(Block)]]
      BY <1>6, <1>e, <1>s, MoveHeadType DEF InsertForkEvent
    <2>2. forkEvents' \in [Height -> [open : Nat, resolved : Nat]]
      <3> DEFINE row == forkEvents[Number[b]]
      <3>1. forkEvents \in [Height -> [open : Nat, resolved : Nat]]
        BY DEF TypeOK
      <3>2. [row EXCEPT !.open = @ + 1] \in [open : Nat, resolved : Nat]
        BY <3>1, NumberInHeight
      <3>3. CASE UNCHANGED forkEvents
        BY <3>1, <3>3
      <3>4. CASE forkEvents' = [forkEvents EXCEPT ![Number[b]].open = @ + 1]
        BY <3>1, <3>2, <3>4, NumberInHeight
      <3>5. QED
        BY <1>6, <3>3, <3>4 DEF InsertForkEvent
    <2>3. TypeOK'
      BY <1>6, <2>1, <2>2
         DEF InsertForkEvent, TypeOK, treeVars, TreeTypeOK, DetectorTypeOK
    <2>4. InsertLoops'
      BY <1>6 DEF InsertForkEvent, MoveHead, InsertLoops, TypeOK
    <2>5. QED
      BY <2>3, <2>4
  <1>7. ASSUME NEW n \in Node, NEW b \in Block, InsertCompetingBlock(n, b)
        PROVE  TypeOK' /\ InsertLoops'
    <2>1. /\ headAt' \in [Node -> [Block -> HeadStage]]
          /\ toInsert' \in [Node -> [Block -> Seq(Block)]]
      BY <1>7, <1>e, <1>s, MoveHeadType DEF InsertCompetingBlock
    <2>2. Head(toInsert[n][b]) \in Block
      BY <1>7, HeadTailProperties DEF InsertCompetingBlock, InsertLoops, TypeOK
    <2>3. TypeOK'
      <3>1. forkBlocks' \subseteq Block
        BY <1>7, <2>2 DEF InsertCompetingBlock, InsertRow, TypeOK
      <3>2. TreeTypeOK' /\ DetectorTypeOK'
        BY <1>7, <1>t DEF InsertCompetingBlock, treeVars, TreeTypeOK, DetectorTypeOK
      <3>3. QED
        BY <1>7, <2>1, <3>1, <3>2 DEF InsertCompetingBlock, TypeOK
    <2>4. InsertLoops'
      BY <1>7 DEF InsertCompetingBlock, MoveHead, InsertLoops, TypeOK
    <2>5. QED
      BY <2>3, <2>4
  <1>8. ASSUME NEW n \in Node, NEW b \in Block, HeadEnriched(n, b)
        PROVE  TypeOK' /\ InsertLoops'
    <2>1. /\ headAt' \in [Node -> [Block -> HeadStage]]
          /\ toInsert' \in [Node -> [Block -> Seq(Block)]]
      BY <1>8, <1>e, <1>s, MoveHeadType DEF HeadEnriched
    <2>2. TypeOK'
      <3>1. bodyFetches' \in [Block -> Nat]
        BY <1>8 DEF HeadEnriched, FetchBody, TypeOK
      <3>2. TreeTypeOK' /\ DetectorTypeOK'
        BY <1>8, <1>t DEF HeadEnriched, treeVars, TreeTypeOK, DetectorTypeOK
      <3>3. UNCHANGED <<finalAt, environmentVars, databaseVars>>
        BY <1>8 DEF HeadEnriched
      <3>4. QED
        BY <2>1, <3>1, <3>2, <3>3 DEF TypeOK
    <2>3. InsertLoops'
      BY <1>8 DEF HeadEnriched, MoveHead, InsertLoops, TypeOK
    <2>4. QED
      BY <2>2, <2>3
  <1>9. ASSUME NEW n \in Node, NEW b \in Block, FinalizedHead(n, b)
        PROVE  TypeOK' /\ InsertLoops'
    <2>1. DetectorTypeOK'
      BY <1>9, <1>t, NumberInHeight, MarkResolvedType
         DEF FinalizedHead, DropThrough, DetectorTypeOK
    <2>2. TreeTypeOK'
      BY <1>9, <1>t, NumberInHeight DEF FinalizedHead, AdvanceFinalized, TreeTypeOK
    <2>3. TypeOK'
      BY <1>9, <2>1, <2>2 DEF FinalizedHead, ReportFinal, FinalStage, TypeOK
    <2>4. QED
      BY <1>9, <2>3 DEF FinalizedHead, InsertLoops
  <1>10. ASSUME NEW n \in Node, NEW b \in Block, FinalizedHeadResolved(n, b)
         PROVE  TypeOK' /\ InsertLoops'
    <2>1. TreeTypeOK'
      BY <1>10, <1>t, NumberInHeight, PruneType DEF FinalizedHeadResolved, TreeTypeOK
    <2>2. forkEvents' \in [Height -> [open : Nat, resolved : Nat]]
      BY <1>10 DEF FinalizedHeadResolved, ResolveRows, TypeOK
    <2>3. DetectorTypeOK'
      BY <1>10, <1>t DEF FinalizedHeadResolved, DropThrough, DetectorTypeOK
    <2>4. TypeOK'
      BY <1>10, <2>1, <2>2, <2>3 DEF FinalizedHeadResolved, FinalStage, TypeOK
    <2>5. QED
      BY <1>10, <2>4 DEF FinalizedHeadResolved, InsertLoops
  <1>11. ASSUME NEW n \in Node, NEW b \in Block, FinalizedHeadNoDb(n, b)
         PROVE  TypeOK' /\ InsertLoops'
    <2>1. DetectorTypeOK'
      BY <1>11, <1>t, NumberInHeight, MarkResolvedType
         DEF FinalizedHeadNoDb, DropThrough, DetectorTypeOK
    <2>2. TreeTypeOK'
      BY <1>11, <1>t, NumberInHeight, PruneType
         DEF FinalizedHeadNoDb, AdvanceFinalized, TreeTypeOK
    <2>3. TypeOK'
      BY <1>11, <2>1, <2>2 DEF FinalizedHeadNoDb, ReportFinal, TypeOK
    <2>4. QED
      BY <1>11, <2>3 DEF FinalizedHeadNoDb, InsertLoops
  <1>12. CASE UNCHANGED vars
    <2>1. TypeOK'
      BY <1>12 DEF TypeOK, treeVars, handlerVars, TreeTypeOK, DetectorTypeOK
    <2>2. QED
      BY <1>12, <2>1 DEF InsertLoops, handlerVars
  <1>13. QED
    BY <1>1, <1>2, <1>3, <1>4, <1>5, <1>6, <1>7, <1>8, <1>9, <1>10, <1>11, <1>12
       DEF Next, Notified, HeadAnswered

\* Every reachable state is well typed.
THEOREM TypeCorrect == Spec => [](TypeOK /\ InsertLoops)
  BY InitType, NextType, PTL DEF Spec

-----------------------------------------------------------------------------
(* Forks and the gauge *)

\* A finalizedHeads callback that waits for its UPDATE carries a number that
\* finalizedHeight has reached: why a prune that other callbacks have overtaken
\* removes nothing that is not final.
PendingFinalsReached ==
    \A n \in Node, b \in Block :
        finalAt[n][b] = "resolving" => Number[b] <= finalizedHeight /\ DbEnabled

ForkInv ==
    /\ UnresolvedForksRecorded
    /\ RecordedAreForked
    /\ GaugeNeverUndercounts
    /\ PendingFinalsReached

\* A step that leaves the height index, the recorded forks, the gauge and the
\* finality callbacks alone keeps the invariant.
LEMMA QuietStep ==
    ASSUME ForkInv,
           UNCHANGED <<byHeight, recordedForks, activeForkHeights, finalizedHeight, finalAt>>
    PROVE  ForkInv'
  BY DEF ForkInv, UnresolvedForksRecorded, RecordedAreForked, GaugeNeverUndercounts,
         PendingFinalsReached, ForkedHeights, Forked

\* What finality at k takes from the gauge is what it takes from recordedForks.
LEMMA MarkResolvedGauge ==
    ASSUME DetectorTypeOK, GaugeNeverUndercounts, NEW k \in Int, MarkResolved(k)
    PROVE  /\ activeForkHeights' >= Cardinality(DropThrough(recordedForks, k))
           /\ ActiveGaugeExact =>
                 activeForkHeights' = Cardinality(DropThrough(recordedForks, k))
  <1> DEFINE gone == ResolvedBy(k)
             left == DropThrough(recordedForks, k)
  <1>1. gone \subseteq recordedForks /\ recordedForks \subseteq Height
    BY DEF ResolvedBy, DetectorTypeOK
  <1>2. /\ IsFiniteSet(recordedForks) /\ Cardinality(recordedForks) \in Nat
        /\ IsFiniteSet(gone) /\ Cardinality(gone) \in Nat
    BY <1>1, HeightsFinite
  <1>3. left = recordedForks \ gone /\ recordedForks \cap gone = gone
    <2>1. \A h \in recordedForks : h \in Int
      BY <1>1 DEF Height
    <2>2. QED
      BY <2>1 DEF DropThrough, ResolvedBy
  <1>4. Cardinality(recordedForks \ gone)
           = Cardinality(recordedForks) - Cardinality(recordedForks \cap gone)
    BY <1>2, FS_Difference
  <1>5. Cardinality(left) = Cardinality(recordedForks) - Cardinality(gone)
    BY <1>3, <1>4
  <1>6. activeForkHeights' = activeForkHeights - Cardinality(gone)
    BY DEF MarkResolved
  <1>7. activeForkHeights \in Int
    BY DEF DetectorTypeOK
  <1>8. QED
    BY <1>2, <1>5, <1>6, <1>7 DEF GaugeNeverUndercounts, ActiveGaugeExact

\* Recording a fork adds one to the gauge and one height to recordedForks.
LEMMA RecordForkGauge ==
    ASSUME DetectorTypeOK, GaugeNeverUndercounts, NEW h \in Height,
           h \notin recordedForks, RecordFork(h)
    PROVE  GaugeNeverUndercounts' /\ (ActiveGaugeExact => ActiveGaugeExact')
  <1>1. IsFiniteSet(recordedForks) /\ Cardinality(recordedForks) \in Nat
    BY HeightsFinite DEF DetectorTypeOK
  <1>2. Cardinality(recordedForks \cup {h}) = Cardinality(recordedForks) + 1
    BY <1>1, FS_AddElement
  <1>3. activeForkHeights \in Int
    BY DEF DetectorTypeOK
  <1>4. QED
    BY <1>1, <1>2, <1>3 DEF RecordFork, GaugeNeverUndercounts, ActiveGaugeExact

\* The invariant holds initially.
LEMMA InitForkInv == Init => ForkInv
  <1> SUFFICES ASSUME Init
               PROVE  ForkInv
    OBVIOUS
  <1>1. Len(<<>>) = 0 /\ Cardinality({}) = 0
    BY EmptySeq, FS_EmptySet
  <1>2. ForkedHeights = {}
    BY <1>1 DEF Init, TreeInit, ForkedHeights, Forked
  <1>3. QED
    BY <1>1, <1>2 DEF Init, DetectorInit, ForkInv, UnresolvedForksRecorded, RecordedAreForked,
                      GaugeNeverUndercounts, PendingFinalsReached

\* Every step keeps the invariant.
LEMMA NextForkInv == TypeOK /\ ForkInv /\ [Next]_vars => ForkInv'
  <1> SUFFICES ASSUME TypeOK, ForkInv, [Next]_vars
               PROVE  ForkInv'
    OBVIOUS
  <1> USE DEF treeVars, detectorVars, environmentVars, databaseVars, handlerVars
  <1>t. TreeTypeOK /\ DetectorTypeOK
    BY DEF TypeOK
  <1>g. GaugeNeverUndercounts
    BY DEF ForkInv
  <1>n. \A b \in Block : Number[b] \in Height /\ Number[b] \in Int /\ Number[b] - PruneAfter \in Int
    BY NumberInHeight
  <1>h. \A h \in Height : h \in Int
    BY DEF Height
  <1>1. ASSUME NEW n \in Node, NEW b \in Block, HeadKnown(n, b)
        PROVE  ForkInv'
    BY <1>1, QuietStep DEF HeadKnown, AddKnownBlock
  <1>2. ASSUME NEW n \in Node, NEW b \in Block, HeadAlone(n, b)
        PROVE  ForkInv'
    <2>1. AddNewBlock(b, n) /\ ~(Len(byHeight'[Number[b]]) > 1)
      <3>1. byHeight'[Number[b]] \in Seq(Block)
        BY <1>2, <1>t, AddNewBlockType DEF HeadAlone
      <3>2. Len(byHeight'[Number[b]]) \in Nat
        BY <3>1, LenProperties
      <3>3. QED
        BY <1>2, <3>2 DEF HeadAlone
    <2>2. \A h \in Height : Forked(h)' <=> Forked(h)
      BY <1>t, <2>1, AddNewBlockForks
    <2>3. QED
      BY <1>2, <2>2
         DEF HeadAlone, ForkInv, UnresolvedForksRecorded, RecordedAreForked,
             GaugeNeverUndercounts, PendingFinalsReached, ForkedHeights
  <1>3. ASSUME NEW n \in Node, NEW b \in Block, HeadForkDetected(n, b)
        PROVE  ForkInv'
    <2>1. \A h \in Height : /\ Forked(h) => Forked(h)'
                            /\ h # Number[b] => (Forked(h)' <=> Forked(h))
                            /\ h = Number[b] => Forked(h)'
      BY <1>3, <1>t, AddNewBlockForks DEF HeadForkDetected
    <2>2. GaugeNeverUndercounts'
      BY <1>3, <1>t, <1>g, <1>n, RecordForkGauge DEF HeadForkDetected
    <2>3. recordedForks' = recordedForks \cup {Number[b]}
      BY <1>3 DEF HeadForkDetected, RecordFork
    <2>4. UnresolvedForksRecorded' /\ RecordedAreForked'
      BY <1>3, <1>n, <2>1, <2>3
         DEF HeadForkDetected, ForkInv, UnresolvedForksRecorded, RecordedAreForked, ForkedHeights
    <2>5. PendingFinalsReached'
      BY <1>3 DEF HeadForkDetected, ForkInv, PendingFinalsReached
    <2>6. QED
      BY <2>2, <2>4, <2>5 DEF ForkInv
  <1>4. ASSUME NEW n \in Node, NEW b \in Block, HeadForkUpdated(n, b)
        PROVE  ForkInv'
    <2>1. \A h \in Height : /\ Forked(h) => Forked(h)'
                            /\ h # Number[b] => (Forked(h)' <=> Forked(h))
      BY <1>4, <1>t, AddNewBlockForks DEF HeadForkUpdated
    <2>2. QED
      BY <1>4, <2>1
         DEF HeadForkUpdated, ForkInv, UnresolvedForksRecorded, RecordedAreForked,
             GaugeNeverUndercounts, PendingFinalsReached, ForkedHeights
  <1>5. ASSUME NEW n \in Node, NEW b \in Block, HeadAnswered(n, b)
        PROVE  ForkInv'
    BY <1>5, QuietStep
       DEF HeadAnswered, InsertDetectedBlock, InsertForkEvent, InsertCompetingBlock, HeadEnriched
  <1>6. ASSUME NEW n \in Node, NEW b \in Block, FinalizedHead(n, b)
        PROVE  ForkInv'
    <2>1. /\ finalizedHeight' \in Height
          /\ finalizedHeight' >= finalizedHeight
          /\ finalizedHeight' >= Number[b]
      BY <1>6, <1>t, <1>n, AdvanceFinalizedBound DEF FinalizedHead
    <2>2. recordedForks' = {h \in recordedForks : h > Number[b]} /\ UNCHANGED byHeight
      BY <1>6 DEF FinalizedHead, DropThrough
    <2>a. \A h \in Height : h > finalizedHeight' => h > finalizedHeight /\ h > Number[b]
      BY <1>h, <1>n, <1>t, <2>1 DEF TreeTypeOK
    <2>3. UnresolvedForksRecorded'
      BY <2>a, <2>2 DEF ForkInv, UnresolvedForksRecorded, ForkedHeights, Forked
    <2>4. RecordedAreForked'
      BY <2>2 DEF ForkInv, RecordedAreForked, ForkedHeights, Forked
    <2>5. GaugeNeverUndercounts'
      BY <1>6, <1>t, <1>g, <1>n, MarkResolvedGauge DEF FinalizedHead, GaugeNeverUndercounts
    <2>6. PendingFinalsReached'
      <3>1. \A h \in Height : h <= finalizedHeight => h <= finalizedHeight'
        BY <1>h, <1>t, <2>1 DEF TreeTypeOK
      <3>2. /\ DbEnabled
            /\ finalAt' = [finalAt EXCEPT ![n][b] = "resolving"]
            /\ finalAt \in [Node -> [Block -> FinalStage]]
        BY <1>6 DEF FinalizedHead, TypeOK
      <3>3. Number[b] <= finalizedHeight'
        BY <1>h, <1>n, <2>1
      <3>4. \A m \in Node, c \in Block :
               finalAt'[m][c] = "resolving" => finalAt[m][c] = "resolving" \/ c = b
        BY <3>2
      <3>5. QED
        BY <1>n, <3>1, <3>2, <3>3, <3>4 DEF ForkInv, PendingFinalsReached
    <2>7. QED
      BY <2>3, <2>4, <2>5, <2>6 DEF ForkInv
  <1>7. ASSUME NEW n \in Node, NEW b \in Block, FinalizedHeadResolved(n, b)
        PROVE  ForkInv'
    <2> DEFINE k == Number[b] - PruneAfter
    <2>1. \A h \in Height : Forked(h)' <=> h > k /\ Forked(h)
      BY <1>7, <1>t, <1>n, PruneForks DEF FinalizedHeadResolved
    <2>2. recordedForks' = {h \in recordedForks : h > k}
      BY <1>7 DEF FinalizedHeadResolved, DropThrough
    <2>3. UnresolvedForksRecorded' /\ RecordedAreForked'
      BY <1>7, <2>1, <2>2
         DEF FinalizedHeadResolved, ForkInv, UnresolvedForksRecorded, RecordedAreForked,
             ForkedHeights
    <2>4. GaugeNeverUndercounts'
      <3>1. recordedForks' \subseteq recordedForks
        BY <2>2
      <3>2. IsFiniteSet(recordedForks) /\ Cardinality(recordedForks) \in Nat
        BY <1>t, HeightsFinite DEF DetectorTypeOK
      <3>3. Cardinality(recordedForks') <= Cardinality(recordedForks)
        BY <3>1, <3>2, FS_Subset
      <3>4. Cardinality(recordedForks') \in Nat
        BY <1>t, <3>1, HeightsFinite DEF DetectorTypeOK
      <3>5. activeForkHeights' = activeForkHeights /\ activeForkHeights \in Int
        BY <1>7, <1>t DEF FinalizedHeadResolved, DetectorTypeOK
      <3>6. QED
        BY <1>g, <3>2, <3>3, <3>4, <3>5 DEF GaugeNeverUndercounts
    <2>5. PendingFinalsReached'
      BY <1>7 DEF FinalizedHeadResolved, ForkInv, PendingFinalsReached, TypeOK
    <2>6. QED
      BY <2>3, <2>4, <2>5 DEF ForkInv
  <1>8. ASSUME NEW n \in Node, NEW b \in Block, FinalizedHeadNoDb(n, b)
        PROVE  ForkInv'
    <2> DEFINE k == Number[b] - PruneAfter
    <2>1. /\ finalizedHeight' \in Height
          /\ finalizedHeight' >= finalizedHeight
          /\ finalizedHeight' >= Number[b]
      BY <1>8, <1>t, <1>n, AdvanceFinalizedBound DEF FinalizedHeadNoDb
    <2>2. \A h \in Height : Forked(h)' <=> h > k /\ Forked(h)
      BY <1>8, <1>t, <1>n, PruneForks DEF FinalizedHeadNoDb
    <2>3. recordedForks' = {h \in recordedForks : h > Number[b]}
      <3>1. recordedForks' = {h \in {g \in recordedForks : g > Number[b]} : h > k}
        BY <1>8 DEF FinalizedHeadNoDb, DropThrough
      <3>2. \A h \in recordedForks : h > Number[b] => h > k
        BY <1>h, <1>n, <1>t DEF DetectorTypeOK
      <3>3. QED
        BY <3>1, <3>2
    <2>a. \A h \in Height : h > finalizedHeight' => h > finalizedHeight /\ h > Number[b]
      BY <1>h, <1>n, <1>t, <2>1 DEF TreeTypeOK
    <2>4. UnresolvedForksRecorded'
      BY <2>a, <2>2, <2>3 DEF ForkInv, UnresolvedForksRecorded, ForkedHeights
    <2>5. RecordedAreForked'
      BY <1>h, <1>n, <2>2, <2>3 DEF ForkInv, RecordedAreForked, ForkedHeights
    <2>6. GaugeNeverUndercounts'
      <3>1. activeForkHeights' >= Cardinality(DropThrough(recordedForks, Number[b]))
        BY <1>8, <1>t, <1>g, <1>n, MarkResolvedGauge DEF FinalizedHeadNoDb
      <3>2. QED
        BY <2>3, <3>1 DEF DropThrough, GaugeNeverUndercounts
    <2>7. PendingFinalsReached'
      <3>1. \A h \in Height : h <= finalizedHeight => h <= finalizedHeight'
        BY <1>h, <1>t, <2>1 DEF TreeTypeOK
      <3>2. UNCHANGED finalAt
        BY <1>8 DEF FinalizedHeadNoDb
      <3>3. QED
        BY <1>n, <3>1, <3>2 DEF ForkInv, PendingFinalsReached
    <2>8. QED
      BY <2>4, <2>5, <2>6, <2>7 DEF ForkInv
  <1>9. CASE UNCHANGED vars
    BY <1>9, QuietStep DEF vars
  <1>10. QED
    BY <1>1, <1>2, <1>3, <1>4, <1>5, <1>6, <1>7, <1>8, <1>9 DEF Next, Notified

\* No unresolved fork is forgotten, whatever the nodes deliver and however the
\* callbacks interleave.
THEOREM UnresolvedForksStayRecorded == Spec => []UnresolvedForksRecorded
  <1>1. ForkInv => UnresolvedForksRecorded
    BY DEF ForkInv
  <1>2. QED
    BY <1>1, InitType, NextType, InitForkInv, NextForkInv, PTL DEF Spec

\* Every recorded fork has its competing blocks in the tree.
THEOREM RecordedForksHaveBlocks == Spec => []RecordedAreForked
  <1>1. ForkInv => RecordedAreForked
    BY DEF ForkInv
  <1>2. QED
    BY <1>1, InitType, NextType, InitForkInv, NextForkInv, PTL DEF Spec

\* The gauge is never below the number of recorded forks.
THEOREM GaugeIsUpperBound == Spec => []GaugeNeverUndercounts
  <1>1. ForkInv => GaugeNeverUndercounts
    BY DEF ForkInv
  <1>2. QED
    BY <1>1, InitType, NextType, InitForkInv, NextForkInv, PTL DEF Spec

-----------------------------------------------------------------------------
(* The indexes of the tree under the callbacks *)

\* Every step keeps the two indexes of the tree in agreement.
LEMMA NextIndexes == TypeOK /\ IndexesAgree /\ [Next]_vars => IndexesAgree'
  <1> SUFFICES ASSUME TypeOK, IndexesAgree, [Next]_vars
               PROVE  IndexesAgree'
    OBVIOUS
  <1>t. TreeTypeOK
    BY DEF TypeOK
  <1>q. ASSUME UNCHANGED <<byHeight, byHash, bestHeight>>
        PROVE  IndexesAgree'
    BY <1>q DEF IndexesAgree, InTree
  <1>1. ASSUME NEW n \in Node, NEW b \in Block, AddKnownBlock(b, n) \/ AddNewBlock(b, n)
        PROVE  IndexesAgree'
    BY <1>1, <1>t, AddKnownBlockIndexes, AddNewBlockIndexes
  <1>2. ASSUME NEW n \in Node, NEW b \in Block, Prune(Number[b] - PruneAfter)
        PROVE  IndexesAgree'
    <2>1. Number[b] - PruneAfter \in Int
      BY NumberInHeight
    <2>2. QED
      BY <1>2, <1>t, <2>1, PruneIndexes
  <1>3. ASSUME NEW n \in Node, NEW b \in Block, HeadAnswered(n, b) \/ FinalizedHead(n, b)
        PROVE  IndexesAgree'
    BY <1>3, <1>q
       DEF HeadAnswered, InsertDetectedBlock, InsertForkEvent, InsertCompetingBlock,
           HeadEnriched, FinalizedHead, treeVars
  <1>4. CASE UNCHANGED vars
    BY <1>4, <1>q DEF vars, treeVars
  <1>5. QED
    BY <1>1, <1>2, <1>3, <1>4
       DEF Next, Notified, HeadKnown, HeadAlone, HeadForkDetected, HeadForkUpdated,
           FinalizedHeadResolved, FinalizedHeadNoDb

\* Whatever the callbacks interleave, both indexes hold the same blocks.
THEOREM MonitorIndexesAgree == Spec => []IndexesAgree
  <1>1. Init => IndexesAgree
    BY TreeInitIndexes DEF Init
  <1>2. QED
    BY <1>1, InitType, NextType, NextIndexes, PTL DEF Spec

-----------------------------------------------------------------------------
(* What a step may not do *)

\* In a state the invariants allow, a step drops only final heights from
\* recordedForks, and removes only blocks PruneAfter below the finalized one.
LEMMA StepForgetsOnlyFinal ==
    TypeOK /\ ForkInv /\ IndexesAgree /\ [Next]_vars =>
        /\ \A h \in recordedForks \ recordedForks' : h <= finalizedHeight'
        /\ \A b \in Block : InTree(b) /\ ~InTree(b)' => Number[b] <= finalizedHeight' - PruneAfter
  <1> SUFFICES ASSUME TypeOK, ForkInv, IndexesAgree, [Next]_vars
               PROVE  /\ \A h \in recordedForks \ recordedForks' : h <= finalizedHeight'
                      /\ \A b \in Block : InTree(b) /\ ~InTree(b)' =>
                            Number[b] <= finalizedHeight' - PruneAfter
    OBVIOUS
  <1> USE DEF treeVars, detectorVars
  <1>t. TreeTypeOK /\ DetectorTypeOK
    BY DEF TypeOK
  <1>n. \A b \in Block : Number[b] \in Height /\ Number[b] \in Int /\ Number[b] - PruneAfter \in Int
    BY NumberInHeight
  <1>h. \A h \in Height : h \in Int
    BY DEF Height
  <1>r. \A h \in recordedForks : h \in Int
    BY <1>h, <1>t DEF DetectorTypeOK
  <1>p. ASSUME NEW k \in Int, k <= finalizedHeight', Prune(k - PruneAfter),
               finalizedHeight' \in Int
        PROVE  \A b \in Block : InTree(b) /\ ~InTree(b)' =>
                   Number[b] <= finalizedHeight' - PruneAfter
    <2>1. k - PruneAfter \in Int
      BY <1>p
    <2>2. \A b \in Block : InTree(b)' <=> InTree(b) /\ Number[b] > k - PruneAfter
      BY <1>p, <1>t, <2>1, PruneIndexes
    <2>3. QED
      BY <1>n, <1>p, <2>2
  <1>1. ASSUME NEW n \in Node, NEW b \in Block, AddKnownBlock(b, n) \/ AddNewBlock(b, n)
        PROVE  \A c \in Block : InTree(c) => InTree(c)'
    BY <1>1, <1>t DEF AddKnownBlock, AddNewBlock, InTree, TreeTypeOK
  <1>2. ASSUME NEW n \in Node, NEW b \in Block,
               HeadKnown(n, b) \/ HeadAlone(n, b) \/ HeadForkDetected(n, b) \/ HeadForkUpdated(n, b)
        PROVE  recordedForks \subseteq recordedForks' /\ \A c \in Block : InTree(c) => InTree(c)'
    BY <1>1, <1>2 DEF HeadKnown, HeadAlone, HeadForkDetected, HeadForkUpdated, RecordFork
  <1>3. ASSUME NEW n \in Node, NEW b \in Block, HeadAnswered(n, b)
        PROVE  UNCHANGED <<recordedForks, byHash>>
    BY <1>3
       DEF HeadAnswered, InsertDetectedBlock, InsertForkEvent, InsertCompetingBlock, HeadEnriched
  <1>4. ASSUME NEW n \in Node, NEW b \in Block, FinalizedHead(n, b)
        PROVE  /\ \A h \in recordedForks \ recordedForks' : h <= finalizedHeight'
               /\ UNCHANGED byHash
    <2>1. finalizedHeight' \in Height /\ finalizedHeight' >= Number[b]
      BY <1>4, <1>t, <1>n, AdvanceFinalizedBound DEF FinalizedHead
    <2>2. recordedForks' = {h \in recordedForks : h > Number[b]} /\ UNCHANGED byHash
      BY <1>4 DEF FinalizedHead, DropThrough
    <2>3. QED
      BY <1>h, <1>n, <1>r, <2>1, <2>2
  <1>5. ASSUME NEW n \in Node, NEW b \in Block, FinalizedHeadResolved(n, b)
        PROVE  /\ \A h \in recordedForks \ recordedForks' : h <= finalizedHeight'
               /\ \A c \in Block : InTree(c) /\ ~InTree(c)' =>
                      Number[c] <= finalizedHeight' - PruneAfter
    <2>1. Number[b] <= finalizedHeight'
      BY <1>5 DEF FinalizedHeadResolved, ForkInv, PendingFinalsReached
    <2>2. finalizedHeight' \in Int
      BY <1>5, <1>h, <1>t DEF FinalizedHeadResolved, TreeTypeOK
    <2>3. recordedForks' = {h \in recordedForks : h > Number[b] - PruneAfter}
      BY <1>5 DEF FinalizedHeadResolved, DropThrough
    <2>4. \A h \in recordedForks \ recordedForks' : h <= finalizedHeight'
      BY <1>n, <1>r, <2>1, <2>2, <2>3
    <2>5. QED
      BY <1>5, <1>n, <1>p, <2>1, <2>2, <2>4 DEF FinalizedHeadResolved
  <1>6. ASSUME NEW n \in Node, NEW b \in Block, FinalizedHeadNoDb(n, b)
        PROVE  /\ \A h \in recordedForks \ recordedForks' : h <= finalizedHeight'
               /\ \A c \in Block : InTree(c) /\ ~InTree(c)' =>
                      Number[c] <= finalizedHeight' - PruneAfter
    <2>1. finalizedHeight' \in Height /\ finalizedHeight' >= Number[b]
      BY <1>6, <1>t, <1>n, AdvanceFinalizedBound DEF FinalizedHeadNoDb
    <2>2. recordedForks' =
             {h \in {g \in recordedForks : g > Number[b]} : h > Number[b] - PruneAfter}
      BY <1>6 DEF FinalizedHeadNoDb, DropThrough
    <2>3. \A h \in recordedForks \ recordedForks' : h <= finalizedHeight'
      BY <1>h, <1>n, <1>r, <2>1, <2>2
    <2>4. QED
      BY <1>6, <1>h, <1>n, <1>p, <2>1, <2>3 DEF FinalizedHeadNoDb
  <1>7. CASE UNCHANGED vars
    BY <1>7 DEF vars, InTree
  <1>8. QED
    BY <1>2, <1>3, <1>4, <1>5, <1>6, <1>7 DEF Next, Notified, InTree

\* A fork is forgotten only when its height is final.
THEOREM ForksForgottenOnlyWhenFinal == Spec => ForgetOnlyFinalized
  <1>1. Init => IndexesAgree
    BY TreeInitIndexes DEF Init
  <1>2. TypeOK /\ ForkInv /\ IndexesAgree /\ [Next]_vars =>
            [\A h \in recordedForks \ recordedForks' : h <= finalizedHeight']_vars
    BY StepForgetsOnlyFinal
  <1>3. QED
    BY <1>1, <1>2, InitType, NextType, InitForkInv, NextForkInv, NextIndexes, PTL
       DEF Spec, ForgetOnlyFinalized

\* The blocks within PruneAfter of the finalized height are never removed.
THEOREM WindowIsKept == Spec => PruneKeepsWindow
  <1>1. Init => IndexesAgree
    BY TreeInitIndexes DEF Init
  <1>2. TypeOK /\ ForkInv /\ IndexesAgree /\ [Next]_vars =>
            [\A b \in Block : InTree(b) /\ ~InTree(b)' =>
                 Number[b] <= finalizedHeight' - PruneAfter]_vars
    BY StepForgetsOnlyFinal
  <1>3. QED
    BY <1>1, <1>2, InitType, NextType, InitForkInv, NextForkInv, NextIndexes, PTL
       DEF Spec, PruneKeepsWindow

-----------------------------------------------------------------------------
(* The gauge without a database *)

\* Without a database no finalizedHeads callback is ever suspended, and every
\* step keeps the gauge equal to the number of recorded forks.
LEMMA NextGaugeExact ==
    TypeOK /\ ForkInv /\ ~DbEnabled /\ ActiveGaugeExact /\ [Next]_vars => ActiveGaugeExact'
  <1> SUFFICES ASSUME TypeOK, ForkInv, ~DbEnabled, ActiveGaugeExact, [Next]_vars
               PROVE  ActiveGaugeExact'
    OBVIOUS
  <1> USE DEF detectorVars
  <1>t. DetectorTypeOK /\ GaugeNeverUndercounts
    BY DEF TypeOK, ForkInv
  <1>n. \A b \in Block : Number[b] \in Height /\ Number[b] \in Int
    BY NumberInHeight
  <1>q. ASSUME UNCHANGED <<recordedForks, activeForkHeights>>
        PROVE  ActiveGaugeExact'
    BY <1>q DEF ActiveGaugeExact
  <1>1. ASSUME NEW n \in Node, NEW b \in Block, HeadForkDetected(n, b)
        PROVE  ActiveGaugeExact'
    BY <1>1, <1>n, <1>t, RecordForkGauge DEF HeadForkDetected
  <1>2. ASSUME NEW n \in Node, NEW b \in Block, FinalizedHeadNoDb(n, b)
        PROVE  ActiveGaugeExact'
    <2>1. activeForkHeights' = Cardinality(DropThrough(recordedForks, Number[b]))
      BY <1>2, <1>n, <1>t, MarkResolvedGauge DEF FinalizedHeadNoDb
    <2>2. recordedForks' =
             {h \in {g \in recordedForks : g > Number[b]} : h > Number[b] - PruneAfter}
      BY <1>2 DEF FinalizedHeadNoDb, DropThrough
    <2>3. \A h \in recordedForks : h > Number[b] => h > Number[b] - PruneAfter
      <3>1. \A h \in recordedForks : h \in Int
        BY <1>t DEF DetectorTypeOK, Height
      <3>2. QED
        BY <1>n, <3>1
    <2>4. recordedForks' = DropThrough(recordedForks, Number[b])
      BY <2>2, <2>3 DEF DropThrough
    <2>5. QED
      BY <2>1, <2>4 DEF ActiveGaugeExact
  <1>3. ASSUME NEW n \in Node, NEW b \in Block
        PROVE  ~FinalizedHeadResolved(n, b) /\ ~FinalizedHead(n, b)
    BY DEF FinalizedHeadResolved, FinalizedHead, ForkInv, PendingFinalsReached
  <1>4. QED
    BY <1>q, <1>1, <1>2, <1>3
       DEF Next, Notified, HeadAnswered, vars, HeadKnown, HeadAlone, HeadForkUpdated,
           InsertDetectedBlock, InsertForkEvent, InsertCompetingBlock, HeadEnriched

\* active_fork_heights is exactly the number of unresolved forked heights when
\* no database is configured.
THEOREM GaugeExactWithoutDb == ~DbEnabled /\ Spec => []ActiveGaugeExact
  <1>1. Init => ActiveGaugeExact
    BY FS_EmptySet DEF Init, DetectorInit, ActiveGaugeExact
  <1>2. ASSUME ~DbEnabled
        PROVE  Spec => []ActiveGaugeExact
    <2>1. TypeOK /\ ForkInv /\ ActiveGaugeExact /\ [Next]_vars => ActiveGaugeExact'
      BY <1>2, NextGaugeExact
    <2>2. QED
      BY <1>1, <2>1, InitType, NextType, InitForkInv, NextForkInv, PTL DEF Spec
  <1>3. QED
    BY <1>2

-----------------------------------------------------------------------------
(* The queries of the tree under the callbacks *)

\* measureForkDepth counts exactly the run of forked heights in every state a
\* callback can ask it in.
THEOREM MonitorDepthIsRunLength == Spec => []ForkDepthIsRunLength
  <1>1. Init => IndexesAgree
    BY TreeInitIndexes DEF Init
  <1>2. TypeOK /\ IndexesAgree => ForkDepthIsRunLength
    BY DepthIsRunLength DEF TypeOK
  <1>3. QED
    BY <1>1, <1>2, InitType, NextType, NextIndexes, PTL DEF Spec

\* getCanonicalAncestorAt names the ancestor, or none, exactly, in every state a
\* callback can ask it in.
THEOREM MonitorWalkExact == Spec => []CanonicalWalkExact
  <1>1. Init => IndexesAgree
    BY TreeInitIndexes DEF Init
  <1>2. TypeOK /\ IndexesAgree => CanonicalWalkExact
    BY WalkExact DEF TypeOK
  <1>3. QED
    BY <1>1, <1>2, InitType, NextType, NextIndexes, PTL DEF Spec

-----------------------------------------------------------------------------
(* The ring buffer *)

\* After a push the new entry is the last one, behind the entries there were or,
\* when the buffer was full, all of them but the oldest.
LEMMA PushRecentEntries ==
    ASSUME NEW ring \in Seq(ForkEntry), NEW e \in ForkEntry
    PROVE  \E d \in {0, 1} :
              /\ DOMAIN PushRecent(ring, e) = 1..(Len(ring) + 1 - d)
              /\ \A i \in DOMAIN PushRecent(ring, e) :
                    \/ i + d = Len(ring) + 1 /\ PushRecent(ring, e)[i] = e
                    \/ i + d \in DOMAIN ring /\ PushRecent(ring, e)[i] = ring[i + d]
  <1> DEFINE grown == Append(ring, e)
  <1>1. /\ grown \in Seq(ForkEntry) /\ grown # <<>> /\ Len(grown) = Len(ring) + 1
        /\ \A i \in 1..Len(ring) : grown[i] = ring[i]
        /\ grown[Len(ring) + 1] = e
    BY AppendProperties
  <1>2. /\ Len(ring) \in Nat /\ DOMAIN ring = 1..Len(ring)
        /\ DOMAIN grown = 1..(Len(ring) + 1)
    BY <1>1, LenProperties
  <1>3. \A i \in 1..(Len(ring) + 1) : i = Len(ring) + 1 \/ i \in 1..Len(ring)
    BY <1>2
  <1>4. CASE ~(Len(grown) > MaxRecentForks)
    <2>1. PushRecent(ring, e) = grown
      BY <1>4 DEF PushRecent
    <2> HIDE DEF grown
    <2>2. ASSUME NEW i \in 1..(Len(ring) + 1)
          PROVE  \/ i + 0 = Len(ring) + 1 /\ grown[i] = e
                 \/ i + 0 \in DOMAIN ring /\ grown[i] = ring[i + 0]
      BY <1>1, <1>2, <1>3
    <2>3. Len(ring) + 1 - 0 = Len(ring) + 1
      BY <1>2
    <2>4. QED
      BY <1>2, <2>1, <2>2, <2>3
  <1>5. CASE Len(grown) > MaxRecentForks
    <2>1. PushRecent(ring, e) = Tail(grown)
      BY <1>5 DEF PushRecent
    <2> HIDE DEF grown
    <2>2. /\ Len(Tail(grown)) = Len(ring) /\ Tail(grown) \in Seq(ForkEntry)
          /\ \A i \in 1..Len(Tail(grown)) : Tail(grown)[i] = grown[i + 1]
      BY <1>1, <1>2, HeadTailProperties
    <2>3. DOMAIN Tail(grown) = 1..Len(ring)
      BY <2>2, LenProperties
    <2>4. ASSUME NEW i \in 1..Len(ring)
          PROVE  \/ i + 1 = Len(ring) + 1 /\ Tail(grown)[i] = e
                 \/ i + 1 \in DOMAIN ring /\ Tail(grown)[i] = ring[i + 1]
      <3>1. Tail(grown)[i] = grown[i + 1] /\ i + 1 \in 1..(Len(ring) + 1)
        BY <1>2, <2>2
      <3>2. QED
        BY <1>1, <1>2, <1>3, <3>1
    <2>5. Len(ring) + 1 - 1 = Len(ring)
      BY <1>2
    <2>6. QED
      BY <2>1, <2>3, <2>4, <2>5
  <1>6. QED
    BY <1>4, <1>5

\* A recorded fork enters the buffer unresolved, and hides older entries of its
\* height.
LEMMA RecordForkRing ==
    ASSUME DetectorTypeOK, RingAgrees, NEW h \in Height, h \notin recordedForks,
           RecordFork(h), UNCHANGED finalizedHeight
    PROVE  RingAgrees'
  <1> DEFINE e == [height |-> h, resolved |-> FALSE]
             new == recentForks'
  <1>1. recentForks \in Seq(ForkEntry) /\ e \in ForkEntry /\ Len(recentForks) \in Nat
    BY LenProperties DEF DetectorTypeOK, ForkEntry
  <1>2. DOMAIN recentForks = 1..Len(recentForks)
    BY <1>1, LenProperties
  <1>3. new = PushRecent(recentForks, e) /\ recordedForks' = recordedForks \cup {h}
    BY DEF RecordFork
  <1> HIDE DEF e
  <1>4. PICK d \in {0, 1} :
           /\ DOMAIN new = 1..(Len(recentForks) + 1 - d)
           /\ \A i \in DOMAIN new :
                 \/ i + d = Len(recentForks) + 1 /\ new[i] = e
                 \/ i + d \in DOMAIN recentForks /\ new[i] = recentForks[i + d]
    BY <1>1, <1>3, PushRecentEntries
  <1>5. e.height = h /\ e.resolved = FALSE
    BY DEF e
  <1> SUFFICES ASSUME NEW i \in DOMAIN new
               PROVE  LET g == new[i].height
                      IN  /\ new[i].resolved => g <= finalizedHeight
                          /\ (\A j \in DOMAIN new : j > i => new[j].height # g) /\ g \in recordedForks'
                                => ~new[i].resolved
                          /\ ~new[i].resolved /\ g > finalizedHeight => g \in recordedForks'
    BY DEF RingAgrees, IsNewestEntry
  <1>6. CASE i + d = Len(recentForks) + 1 /\ new[i] = e
    BY <1>3, <1>5, <1>6
  <1>7. CASE i + d \in DOMAIN recentForks /\ new[i] = recentForks[i + d]
    <2> DEFINE g == recentForks[i + d].height
    <2>1. /\ recentForks[i + d].resolved => g <= finalizedHeight
          /\ IsNewestEntry(i + d, g) /\ g \in recordedForks => ~recentForks[i + d].resolved
          /\ ~recentForks[i + d].resolved /\ g > finalizedHeight => g \in recordedForks
      BY <1>7 DEF RingAgrees
    <2>2. ASSUME \A j \in DOMAIN new : j > i => new[j].height # g, g \in recordedForks'
          PROVE  IsNewestEntry(i + d, g) /\ g \in recordedForks
      <3>1. i \in Int /\ d \in Int /\ i + d <= Len(recentForks)
        BY <1>1, <1>2, <1>4, <1>7
      <3>2. g # h
        <4> DEFINE last == Len(recentForks) + 1 - d
        <4>1. last \in DOMAIN new /\ last > i /\ last + d = Len(recentForks) + 1
          BY <1>1, <1>4, <3>1
        <4>2. last + d \notin DOMAIN recentForks
          BY <1>1, <1>2, <4>1
        <4>3. new[last] = e
          BY <1>4, <4>1, <4>2
        <4>4. QED
          BY <1>5, <2>2, <4>1, <4>3
      <3>3. ASSUME NEW j \in DOMAIN recentForks, j > i + d
            PROVE  recentForks[j].height # g
        <4>1. /\ j \in Int /\ j - d \in DOMAIN new /\ j - d > i /\ (j - d) + d = j
              /\ j # Len(recentForks) + 1
          BY <1>1, <1>2, <1>4, <3>1, <3>3
        <4>2. new[j - d] = recentForks[j]
          BY <1>4, <4>1
        <4>3. QED
          BY <2>2, <4>1, <4>2
      <3>4. QED
        BY <1>3, <2>2, <3>2, <3>3 DEF IsNewestEntry
    <2>3. QED
      BY <1>3, <1>7, <2>1, <2>2
  <1>8. QED
    BY <1>4, <1>6, <1>7

\* Finality at k resolves the newest entry of every recorded height up to k, and
\* of these heights only.
LEMMA MarkResolvedRing ==
    ASSUME TypeOK, RingAgrees, NEW k \in Int, NEW gone, gone \in Int, gone <= k, MarkResolved(k),
           recordedForks' = {h \in recordedForks : h > k /\ h > gone},
           finalizedHeight' \in Height, finalizedHeight' >= finalizedHeight, finalizedHeight' >= k
    PROVE  RingAgrees'
  <1> DEFINE hit(i) == \E h \in ResolvedBy(k) : IsNewestEntry(i, h)
             new == recentForks'
  <1>1. recentForks \in Seq(ForkEntry) /\ DOMAIN recentForks = 1..Len(recentForks)
    BY LenProperties DEF TypeOK, DetectorTypeOK
  <1>2. \A i \in DOMAIN recentForks : recentForks[i] \in ForkEntry
    BY <1>1, ElementOfSeq
  <1>3. new = [i \in DOMAIN recentForks |->
                  IF hit(i) THEN [recentForks[i] EXCEPT !.resolved = TRUE] ELSE recentForks[i]]
    BY DEF MarkResolved
  <1>4. /\ DOMAIN new = DOMAIN recentForks
        /\ \A i \in DOMAIN recentForks : new[i].height = recentForks[i].height
    <2> HIDE DEF hit
    <2>1. QED
      BY <1>2, <1>3 DEF ForkEntry
  <1>5. \A h \in recordedForks : h \in Height /\ h \in Int
    BY DEF TypeOK, DetectorTypeOK, Height
  <1>6. finalizedHeight \in Int /\ finalizedHeight' \in Int
    BY DEF TypeOK, TreeTypeOK, Height
  <1> SUFFICES ASSUME NEW i \in DOMAIN new
               PROVE  /\ new[i].resolved => new[i].height <= finalizedHeight'
                      /\ /\ \A j \in DOMAIN new : j > i => new[j].height # new[i].height
                         /\ new[i].height \in recordedForks'
                         => ~new[i].resolved
                      /\ ~new[i].resolved /\ new[i].height > finalizedHeight' =>
                            new[i].height \in recordedForks'
    BY DEF RingAgrees, IsNewestEntry
  <1> DEFINE g == recentForks[i].height
             newest == \A j \in DOMAIN recentForks : j > i => recentForks[j].height # g
  <1>7. i \in DOMAIN recentForks /\ g \in Height /\ g \in Int
    BY <1>2, <1>4 DEF ForkEntry, Height
  <1>8. /\ recentForks[i].resolved => g <= finalizedHeight
        /\ newest /\ g \in recordedForks => ~recentForks[i].resolved
        /\ ~recentForks[i].resolved /\ g > finalizedHeight => g \in recordedForks
    BY <1>7 DEF RingAgrees, IsNewestEntry
  <1>9. hit(i) => g <= k
    BY DEF ResolvedBy, IsNewestEntry
  <1>10. new[i].height = g /\ (new[i].resolved <=> recentForks[i].resolved \/ hit(i))
    <2> HIDE DEF hit
    <2>1. QED
      BY <1>2, <1>3, <1>7 DEF ForkEntry
  <1>11. (\A j \in DOMAIN new : j > i => new[j].height # new[i].height) => newest
    BY <1>4, <1>10
  <1> HIDE DEF hit, new, newest
  <1>12. new[i].resolved => g <= finalizedHeight'
    BY <1>6, <1>7, <1>8, <1>9, <1>10
  <1>13. newest /\ g \in recordedForks' => ~new[i].resolved
    BY <1>7, <1>8, <1>9, <1>10
  <1>14. ~new[i].resolved /\ g > finalizedHeight' => g \in recordedForks'
    BY <1>6, <1>7, <1>8, <1>10
  <1>15. QED
    BY <1>10, <1>11, <1>12, <1>13, <1>14

\* Every step keeps the ring buffer in agreement with recordedForks.
LEMMA NextRing == TypeOK /\ ForkInv /\ RingAgrees /\ [Next]_vars => RingAgrees'
  <1> SUFFICES ASSUME TypeOK, ForkInv, RingAgrees, [Next]_vars
               PROVE  RingAgrees'
    OBVIOUS
  <1> USE DEF treeVars, detectorVars
  <1>t. TreeTypeOK /\ DetectorTypeOK
    BY DEF TypeOK
  <1>n. \A b \in Block : Number[b] \in Height /\ Number[b] \in Int /\ Number[b] - PruneAfter \in Int
    BY NumberInHeight
  <1>h. \A h \in Height : h \in Int
    BY DEF Height
  <1>r. \A h \in recordedForks : h \in Int
    BY <1>h, <1>t DEF DetectorTypeOK
  <1>q. ASSUME UNCHANGED <<recordedForks, recentForks, finalizedHeight>>
        PROVE  RingAgrees'
    BY <1>q DEF RingAgrees, IsNewestEntry
  <1>1. ASSUME NEW n \in Node, NEW b \in Block, HeadForkDetected(n, b)
        PROVE  RingAgrees'
    BY <1>1, <1>n, <1>t, RecordForkRing DEF HeadForkDetected
  <1>2. ASSUME NEW n \in Node, NEW b \in Block, FinalizedHead(n, b)
        PROVE  RingAgrees'
    <2>1. /\ finalizedHeight' \in Height
          /\ finalizedHeight' >= finalizedHeight
          /\ finalizedHeight' >= Number[b]
      BY <1>2, <1>t, <1>n, AdvanceFinalizedBound DEF FinalizedHead
    <2>2. recordedForks' = {h \in recordedForks : h > Number[b] /\ h > Number[b]}
      BY <1>2 DEF FinalizedHead, DropThrough
    <2>3. MarkResolved(Number[b]) /\ Number[b] <= Number[b]
      BY <1>2, <1>n DEF FinalizedHead
    <2>4. QED
      BY <1>n, <2>1, <2>2, <2>3, MarkResolvedRing
  <1>3. ASSUME NEW n \in Node, NEW b \in Block, FinalizedHeadResolved(n, b)
        PROVE  RingAgrees'
    <2>1. Number[b] <= finalizedHeight /\ finalizedHeight \in Int
      BY <1>3, <1>t, <1>h DEF FinalizedHeadResolved, ForkInv, PendingFinalsReached, TreeTypeOK
    <2>2. recordedForks' = {h \in recordedForks : h > Number[b] - PruneAfter}
      BY <1>3 DEF FinalizedHeadResolved, DropThrough
    <2>3. \A h \in recordedForks : h > finalizedHeight => h \in recordedForks'
      BY <1>n, <1>r, <2>1, <2>2
    <2>4. recordedForks' \subseteq recordedForks
      BY <2>2
    <2>5. UNCHANGED <<recentForks, finalizedHeight>>
      BY <1>3 DEF FinalizedHeadResolved
    <2>6. QED
      BY <2>3, <2>4, <2>5 DEF RingAgrees, IsNewestEntry
  <1>4. ASSUME NEW n \in Node, NEW b \in Block, FinalizedHeadNoDb(n, b)
        PROVE  RingAgrees'
    <2>1. /\ finalizedHeight' \in Height
          /\ finalizedHeight' >= finalizedHeight
          /\ finalizedHeight' >= Number[b]
      BY <1>4, <1>t, <1>n, AdvanceFinalizedBound DEF FinalizedHeadNoDb
    <2>2. recordedForks' = {h \in recordedForks : h > Number[b] /\ h > Number[b] - PruneAfter}
      <3>1. recordedForks' = {h \in {g \in recordedForks : g > Number[b]} : h > Number[b] - PruneAfter}
        BY <1>4 DEF FinalizedHeadNoDb, DropThrough
      <3>2. QED
        BY <3>1
    <2>3. MarkResolved(Number[b]) /\ Number[b] - PruneAfter <= Number[b]
      BY <1>4, <1>n DEF FinalizedHeadNoDb
    <2>4. QED
      BY <1>n, <2>1, <2>2, <2>3, MarkResolvedRing
  <1>5. ASSUME NEW n \in Node, NEW b \in Block, HeadAnswered(n, b)
        PROVE  RingAgrees'
    BY <1>5, <1>q
       DEF HeadAnswered, InsertDetectedBlock, InsertForkEvent, InsertCompetingBlock, HeadEnriched
  <1>6. ASSUME NEW n \in Node, NEW b \in Block,
               HeadKnown(n, b) \/ HeadAlone(n, b) \/ HeadForkUpdated(n, b)
        PROVE  RingAgrees'
    BY <1>6, <1>q DEF HeadKnown, HeadAlone, HeadForkUpdated
  <1>7. CASE UNCHANGED vars
    BY <1>7, <1>q DEF vars
  <1>8. QED
    BY <1>1, <1>2, <1>3, <1>4, <1>5, <1>6, <1>7 DEF Next, Notified

\* The ring buffer and recordedForks never disagree about a fork, whichever entry
\* a full buffer has lost and however finality skips heights.
THEOREM RingAlwaysAgrees == Spec => []RingAgrees
  <1>1. Init => RingAgrees
    <2>1. DOMAIN <<>> = {}
      BY EmptySeq, LenProperties
    <2>2. QED
      BY <2>1 DEF Init, DetectorInit, RingAgrees
  <1>2. QED
    BY <1>1, InitType, NextType, InitForkInv, NextForkInv, NextRing, PTL DEF Spec

-----------------------------------------------------------------------------
(* One body fetch *)

\* the callback of node n for b was suspended at its fork handling: its body
\* fetch is still to come
Busy(n, b) == headAt[n][b] \in {"detected", "event", "updated", "enrich"}

InWindow(b) == Number[b] > finalizedHeight - PruneAfter

\* A block that cannot have been pruned is fetched once at most, before it is in
\* the tree nothing was fetched or is about to be, and one callback at most is
\* about to fetch it, when nothing was fetched yet.
BodyInv ==
    \A b \in Block : InWindow(b) =>
        /\ bodyFetches[b] <= 1
        /\ ~InTree(b) => bodyFetches[b] = 0 /\ \A n \in Node : ~Busy(n, b)
        /\ \A n \in Node : Busy(n, b) =>
              bodyFetches[b] = 0 /\ \A m \in Node : Busy(m, b) => m = n

\* A step that moves no callback in or out of its fork handling, fetches nothing
\* and removes nothing from the window keeps the invariant.
LEMMA BodyQuiet ==
    ASSUME BodyInv, UNCHANGED bodyFetches,
           \A n \in Node, b \in Block : Busy(n, b)' => Busy(n, b),
           \A b \in Block : InWindow(b)' => InWindow(b) /\ (InTree(b) => InTree(b)')
    PROVE  BodyInv'
  BY DEF BodyInv

\* A new block: either its body is fetched at once, or its callback is suspended.
LEMMA BodyNew ==
    ASSUME TypeOK, BodyInv, NEW n \in Node, NEW b \in Block, AddNewBlock(b, n),
           UNCHANGED finalizedHeight, NEW stage, NEW blocks, MoveHead(n, b, stage, blocks),
           \/ stage = "done" /\ FetchBody(b)
           \/ UNCHANGED bodyFetches
    PROVE  BodyInv'
  <1>1. /\ headAt' = [headAt EXCEPT ![n][b] = stage]
        /\ headAt \in [Node -> [Block -> HeadStage]]
        /\ bodyFetches \in [Block -> Nat]
    BY DEF MoveHead, TypeOK
  <1>2. \A m \in Node, c \in Block : c # b => (Busy(m, c)' <=> Busy(m, c))
    BY <1>1 DEF Busy
  <1>3. \A m \in Node : m # n => (Busy(m, b)' <=> Busy(m, b))
    BY <1>1 DEF Busy
  <1>4. \A c \in Block : c # b => (InTree(c)' <=> InTree(c))
    BY DEF AddNewBlock, InTree, TypeOK, TreeTypeOK
  <1>5. InTree(b)' /\ ~InTree(b)
    BY DEF AddNewBlock, InTree, TypeOK, TreeTypeOK
  <1>6. \A c \in Block : InWindow(c)' <=> InWindow(c)
    BY DEF InWindow
  <1>7. \A c \in Block : c # b => bodyFetches'[c] = bodyFetches[c]
    BY <1>1 DEF FetchBody
  <1>8. CASE stage = "done" /\ FetchBody(b)
    <2>1. ~Busy(n, b)' /\ bodyFetches'[b] = bodyFetches[b] + 1
      BY <1>1, <1>8 DEF Busy, FetchBody
    <2>2. QED
      BY <1>2, <1>3, <1>4, <1>5, <1>6, <1>7, <2>1 DEF BodyInv
  <1>9. CASE UNCHANGED bodyFetches
    BY <1>2, <1>3, <1>4, <1>5, <1>6, <1>9 DEF BodyInv
  <1>10. QED
    BY <1>8, <1>9

\* Every step keeps the invariant.
LEMMA NextBody == TypeOK /\ ForkInv /\ IndexesAgree /\ BodyInv /\ [Next]_vars => BodyInv'
  <1> SUFFICES ASSUME TypeOK, ForkInv, IndexesAgree, BodyInv, [Next]_vars
               PROVE  BodyInv'
    OBVIOUS
  <1> USE DEF treeVars, environmentVars, databaseVars
  <1>h. headAt \in [Node -> [Block -> HeadStage]] /\ bodyFetches \in [Block -> Nat]
    BY DEF TypeOK
  <1>p. \A b \in Block : InTree(b) /\ ~InTree(b)' => Number[b] <= finalizedHeight' - PruneAfter
    BY StepForgetsOnlyFinal
  <1>f. ASSUME finalizedHeight' >= finalizedHeight, finalizedHeight' \in Int
        PROVE  \A b \in Block : InWindow(b)' => InWindow(b) /\ (InTree(b) => InTree(b)')
    <2>1. \A b \in Block : Number[b] \in Int
      BY NumberInHeight
    <2>2. finalizedHeight \in Int /\ PruneAfter \in Int
      BY DEF TypeOK, TreeTypeOK, Height
    <2>3. QED
      BY <1>f, <1>p, <2>1, <2>2 DEF InWindow
  <1>g. UNCHANGED finalizedHeight => finalizedHeight' >= finalizedHeight /\ finalizedHeight' \in Int
    BY DEF TypeOK, TreeTypeOK, Height
  <1>1. ASSUME NEW n \in Node, NEW b \in Block, HeadKnown(n, b)
        PROVE  BodyInv'
    <2>1. \A m \in Node, c \in Block : Busy(m, c)' => Busy(m, c)
      BY <1>1, <1>h DEF HeadKnown, MoveHead, Busy
    <2>2. UNCHANGED <<bodyFetches, finalizedHeight>>
      BY <1>1 DEF HeadKnown
    <2>3. QED
      BY <1>f, <1>g, <2>1, <2>2, BodyQuiet
  <1>2. ASSUME NEW n \in Node, NEW b \in Block, HeadAlone(n, b)
        PROVE  BodyInv'
    BY <1>2, BodyNew DEF HeadAlone
  <1>3. ASSUME NEW n \in Node, NEW b \in Block, HeadForkDetected(n, b)
        PROVE  BodyInv'
    BY <1>3, BodyNew DEF HeadForkDetected
  <1>4. ASSUME NEW n \in Node, NEW b \in Block, HeadForkUpdated(n, b)
        PROVE  BodyInv'
    BY <1>4, BodyNew DEF HeadForkUpdated
  <1>5. ASSUME NEW n \in Node, NEW b \in Block,
               InsertDetectedBlock(n, b) \/ InsertForkEvent(n, b) \/ InsertCompetingBlock(n, b)
        PROVE  BodyInv'
    <2>1. Busy(n, b) /\ \E stage, blocks : MoveHead(n, b, stage, blocks)
      BY <1>5 DEF InsertDetectedBlock, InsertForkEvent, InsertCompetingBlock, Busy
    <2>2. \A m \in Node, c \in Block : Busy(m, c)' => Busy(m, c)
      BY <1>h, <2>1 DEF MoveHead, Busy
    <2>3. UNCHANGED <<bodyFetches, finalizedHeight>>
      BY <1>5 DEF InsertDetectedBlock, InsertForkEvent, InsertCompetingBlock
    <2>4. QED
      BY <1>f, <1>g, <2>2, <2>3, BodyQuiet
  <1>6. ASSUME NEW n \in Node, NEW b \in Block, HeadEnriched(n, b)
        PROVE  BodyInv'
    <2>1. /\ Busy(n, b) /\ ~Busy(n, b)' /\ bodyFetches'[b] = bodyFetches[b] + 1
          /\ \A c \in Block : c # b => bodyFetches'[c] = bodyFetches[c]
      BY <1>6, <1>h DEF HeadEnriched, MoveHead, FetchBody, Busy
    <2>2. \A m \in Node, c \in Block : Busy(m, c)' => Busy(m, c)
      BY <1>6, <1>h DEF HeadEnriched, MoveHead, Busy
    <2>3. \A c \in Block : (InWindow(c)' <=> InWindow(c)) /\ (InTree(c)' <=> InTree(c))
      BY <1>6 DEF HeadEnriched, InWindow, InTree
    <2>4. QED
      BY <2>1, <2>2, <2>3 DEF BodyInv
  <1>7. ASSUME NEW n \in Node, NEW b \in Block,
               FinalizedHead(n, b) \/ FinalizedHeadResolved(n, b) \/ FinalizedHeadNoDb(n, b)
        PROVE  BodyInv'
    <2>1. UNCHANGED <<bodyFetches, headAt>>
      BY <1>7 DEF FinalizedHead, FinalizedHeadResolved, FinalizedHeadNoDb
    <2>2. \A m \in Node, c \in Block : Busy(m, c)' => Busy(m, c)
      BY <2>1 DEF Busy
    <2>3. finalizedHeight' >= finalizedHeight /\ finalizedHeight' \in Int
      <3>1. AdvanceFinalized(Number[b]) => finalizedHeight' >= finalizedHeight /\ finalizedHeight' \in Height
        BY NumberInHeight, AdvanceFinalizedBound DEF TypeOK
      <3>2. QED
        BY <1>7, <1>g, <3>1 DEF FinalizedHead, FinalizedHeadResolved, FinalizedHeadNoDb, Height
    <2>4. QED
      BY <1>f, <2>1, <2>2, <2>3, BodyQuiet
  <1>8. CASE UNCHANGED vars
    <2>1. UNCHANGED <<bodyFetches, headAt, finalizedHeight>>
      BY <1>8 DEF vars, handlerVars
    <2>2. \A m \in Node, c \in Block : Busy(m, c)' => Busy(m, c)
      BY <2>1 DEF Busy
    <2>3. QED
      BY <1>f, <1>g, <2>1, <2>2, BodyQuiet
  <1>9. QED
    BY <1>1, <1>2, <1>3, <1>4, <1>5, <1>6, <1>7, <1>8 DEF Next, Notified, HeadAnswered

\* However many nodes deliver a block and whatever its fork handling waits for,
\* its body is fetched once at most while it cannot have been pruned.
THEOREM BodyOnceInWindow == Spec => []BodyFetchedOnceInWindow
  <1>1. Init => IndexesAgree
    BY TreeInitIndexes DEF Init
  <1>2. Init => BodyInv
    BY DEF Init, BodyInv, Busy
  <1>3. BodyInv => BodyFetchedOnceInWindow
    BY DEF BodyInv, BodyFetchedOnceInWindow, InWindow
  <1>4. QED
    BY <1>1, <1>2, <1>3, InitType, NextType, InitForkInv, NextForkInv, NextIndexes, NextBody, PTL
       DEF Spec

=============================================================================
