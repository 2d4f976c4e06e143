------------------------ MODULE ForkRefinement_proofs ------------------------
(***************************************************************************)
(* The callbacks of ForkMonitor implement ForkLifecycle, for every set of  *)
(* nodes and blocks, with or without a database that fails.  The two       *)
(* insert loops and the body fetch are invisible to it; every other        *)
(* stretch is one of its steps or changes nothing it sees. With it, what a *)
(* configured database holds: the rows of a fork and their number.         *)
(***************************************************************************)
EXTENDS ForkMonitor_proofs

\* What moving a callback does to the rows still to be written.
LEMMA UnwrittenStep ==
    ASSUME TypeOK, NEW n \in Node, NEW b \in Block, NEW stage \in HeadStage, NEW blocks,
           MoveHead(n, b, stage, blocks), NEW h \in Height
    PROVE  Unwritten(h)' = IF h = Number[b]
                           THEN (Unwritten(h) \ {<<n, b>>})
                                \cup (IF stage \in {"detected", "event"} THEN {<<n, b>>} ELSE {})
                           ELSE Unwritten(h)
  <1> DEFINE open(s) == s \in {"detected", "event"}
  <1>1. \A m \in Node, c \in Block :
            headAt'[m][c] = IF m = n /\ c = b THEN stage ELSE headAt[m][c]
    BY DEF MoveHead, TypeOK
  <1>2. \A p \in Node \X Block : p = <<n, b>> <=> p[1] = n /\ p[2] = b
    OBVIOUS
  <1>3. \A p \in Node \X Block :
            p \in Unwritten(h)' <=> Number[p[2]] = h /\ open(headAt'[p[1]][p[2]])
    BY DEF Unwritten
  <1>4. \A p \in Node \X Block :
            p \in Unwritten(h) <=> Number[p[2]] = h /\ open(headAt[p[1]][p[2]])
    BY DEF Unwritten
  <1>5. Unwritten(h) \subseteq Node \X Block /\ Unwritten(h)' \subseteq Node \X Block
    BY DEF Unwritten
  <1>6. ASSUME NEW p \in Node \X Block
        PROVE  p \in Unwritten(h)' <=>
                 IF h = Number[b]
                 THEN (p \in Unwritten(h) /\ p # <<n, b>>) \/ (open(stage) /\ p = <<n, b>>)
                 ELSE p \in Unwritten(h)
    <2>1. CASE p = <<n, b>>
      <3>1. headAt'[p[1]][p[2]] = stage /\ Number[p[2]] = Number[b]
        BY <2>1, <1>1
      <3>2. QED
        BY <2>1, <3>1, <1>3, <1>4
    <2>2. CASE p # <<n, b>>
      <3>1. headAt'[p[1]][p[2]] = headAt[p[1]][p[2]]
        BY <2>2, <1>1, <1>2
      <3>2. QED
        BY <2>2, <3>1, <1>3, <1>4
    <2>3. QED
      BY <2>1, <2>2
  <1>7. <<n, b>> \in Node \X Block
    OBVIOUS
  <1>8. QED
    BY <1>5, <1>6, <1>7

\* Moving a callback between stages that are both before or both after the
\* insert of its row changes nothing.
LEMMA UnwrittenSame ==
    ASSUME TypeOK, NEW n \in Node, NEW b \in Block, NEW stage \in HeadStage, NEW blocks,
           MoveHead(n, b, stage, blocks),
           headAt[n][b] \in {"detected", "event"} <=> stage \in {"detected", "event"}
    PROVE  [h \in Height |-> Unwritten(h)]' = [h \in Height |-> Unwritten(h)]
  <1>1. <<n, b>> \in Unwritten(Number[b]) <=> stage \in {"detected", "event"}
    BY DEF Unwritten
  <1>2. ASSUME NEW h \in Height
        PROVE  Unwritten(h)' = Unwritten(h)
    <2>1. Unwritten(h)' = IF h = Number[b]
                          THEN (Unwritten(h) \ {<<n, b>>})
                               \cup (IF stage \in {"detected", "event"} THEN {<<n, b>>} ELSE {})
                          ELSE Unwritten(h)
      BY UnwrittenStep
    <2>2. QED
      BY <1>1, <2>1
  <1>3. QED
    BY <1>2

\* The initial state is one of the life cycle.
LEMMA InitLifecycle == Init => Lifecycle!Init
  <1> SUFFICES ASSUME Init
               PROVE  Lifecycle!Init
    OBVIOUS
  <1>1. \A h \in Height : Unwritten(h) = {}
    BY DEF Init, Unwritten
  <1>2. QED
    BY <1>1 DEF Init, TreeInit, DetectorInit, Lifecycle!Init

\* Finality that reaches or repeats height k.
LEMMA FinalizeStep ==
    ASSUME TypeOK, NEW k \in Height, AdvanceFinalized(k), MarkResolved(k),
           recordedForks' = DropThrough(recordedForks, k),
           UNCHANGED <<headAt, forkEvents>>
    PROVE  Lifecycle!Finalize(k)
  <1>1. UNCHANGED <<totalForkCount, forkEvents, [h \in Height |-> Unwritten(h)]>>
    BY DEF MarkResolved, Unwritten
  <1>2. finalizedHeight' = IF k > finalizedHeight THEN k ELSE finalizedHeight
    BY DEF AdvanceFinalized
  <1>3. QED
    BY <1>1, <1>2 DEF Lifecycle!Finalize, DropThrough

\* Every step of the callbacks is a step of the life cycle or leaves it alone.
LEMMA NextLifecycle ==
    TypeOK /\ ForkInv /\ [Next]_vars => [Lifecycle!Next]_Lifecycle!vars
  <1> SUFFICES ASSUME TypeOK, ForkInv, [Next]_vars
               PROVE  [Lifecycle!Next]_Lifecycle!vars
    OBVIOUS
  <1> DEFINE unwritten == [h \in Height |-> Unwritten(h)]
             seen == <<finalizedHeight, recordedForks, totalForkCount, unwritten, forkEvents>>
  <1>v. UNCHANGED seen => UNCHANGED Lifecycle!vars
    BY DEF Lifecycle!vars
  <1> USE DEF treeVars, detectorVars, environmentVars, databaseVars
  <1>s. {"none", "detected", "event", "updated", "enrich", "done"} = HeadStage
    BY DEF HeadStage
  <1>n. \A b \in Block : Number[b] \in Height
    BY NumberInHeight
  <1>m. \A n \in Node, b \in Block :
            MayAnnounce(n, b) => headAt[n][b] \notin {"detected", "event"}
    BY DEF MayAnnounce
  <1>1. ASSUME NEW n \in Node, NEW b \in Block,
               HeadKnown(n, b) \/ HeadAlone(n, b) \/ HeadForkUpdated(n, b)
        PROVE  UNCHANGED seen
    <2>1. PICK stage \in HeadStage \ {"detected", "event"} :
              \E blocks : MoveHead(n, b, stage, blocks)
      BY <1>1, <1>s DEF HeadKnown, HeadAlone, HeadForkUpdated
    <2>2. UNCHANGED unwritten
      BY <1>1, <1>m, <2>1, UnwrittenSame DEF HeadKnown, HeadAlone, HeadForkUpdated
    <2>3. QED
      BY <1>1, <2>2 DEF HeadKnown, HeadAlone, HeadForkUpdated
  <1>2. ASSUME NEW n \in Node, NEW b \in Block, HeadForkDetected(n, b)
        PROVE  Lifecycle!Detect(<<n, b>>, Number[b])
    <2>1. PICK stage \in {"detected", "enrich"} : \E blocks : MoveHead(n, b, stage, blocks)
      BY <1>2 DEF HeadForkDetected
    <2>2. CASE stage = "detected"
      <3>1. \A h \in Height : Unwritten(h)' = IF h = Number[b] THEN Unwritten(h) \cup {<<n, b>>}
                                               ELSE Unwritten(h)
        BY <2>1, <2>2, <1>s, UnwrittenStep
      <3>2. unwritten' = [unwritten EXCEPT ![Number[b]] = @ \cup {<<n, b>>}]
        BY <3>1, <1>n
      <3>3. QED
        BY <1>2, <3>2 DEF HeadForkDetected, RecordFork, Lifecycle!Detect
    <2>3. CASE stage = "enrich"
      <3>1. UNCHANGED unwritten
        BY <1>2, <1>m, <1>s, <2>1, <2>3, UnwrittenSame DEF HeadForkDetected
      <3>2. QED
        BY <1>2, <3>1 DEF HeadForkDetected, RecordFork, Lifecycle!Detect
    <2>4. QED
      BY <2>2, <2>3
  <1>3. ASSUME NEW n \in Node, NEW b \in Block, InsertForkEvent(n, b)
        PROVE  Lifecycle!WriteRow(<<n, b>>, Number[b])
    <2>1. <<n, b>> \in unwritten[Number[b]]
      BY <1>3, <1>n DEF InsertForkEvent, Unwritten
    <2>2. \A h \in Height : Unwritten(h)' = IF h = Number[b] THEN Unwritten(h) \ {<<n, b>>}
                                             ELSE Unwritten(h)
      BY <1>3, <1>s, UnwrittenStep DEF InsertForkEvent
    <2>3. unwritten' = [unwritten EXCEPT ![Number[b]] = @ \ {<<n, b>>}]
      BY <2>2, <1>n
    <2>4. \/ forkEvents' = [forkEvents EXCEPT ![Number[b]].open = @ + 1]
          \/ UNCHANGED forkEvents
      BY <1>3 DEF InsertForkEvent
    <2>5. UNCHANGED <<finalizedHeight, recordedForks, totalForkCount>>
      BY <1>3 DEF InsertForkEvent
    <2>6. QED
      BY <2>1, <2>3, <2>4, <2>5 DEF Lifecycle!WriteRow
  <1>4. ASSUME NEW n \in Node, NEW b \in Block,
               InsertDetectedBlock(n, b) \/ InsertCompetingBlock(n, b) \/ HeadEnriched(n, b)
        PROVE  UNCHANGED seen
    <2>1. CASE InsertDetectedBlock(n, b)
      <3>1. PICK stage \in {"detected", "event"} : \E blocks : MoveHead(n, b, stage, blocks)
        BY <2>1 DEF InsertDetectedBlock
      <3>2. UNCHANGED unwritten
        BY <2>1, <3>1, <1>s, UnwrittenSame DEF InsertDetectedBlock
      <3>3. QED
        BY <2>1, <3>2 DEF InsertDetectedBlock
    <2>2. CASE InsertCompetingBlock(n, b) \/ HeadEnriched(n, b)
      <3>1. PICK stage \in {"enrich", "done"} : \E blocks : MoveHead(n, b, stage, blocks)
        BY <2>2 DEF InsertCompetingBlock, HeadEnriched
      <3>2. headAt[n][b] \notin {"detected", "event"}
        BY <2>2 DEF InsertCompetingBlock, HeadEnriched
      <3>3. UNCHANGED unwritten
        BY <3>1, <3>2, <1>s, UnwrittenSame
      <3>4. QED
        BY <2>2, <3>3 DEF InsertCompetingBlock, HeadEnriched
    <2>3. QED
      BY <1>4, <2>1, <2>2
  <1>5. ASSUME NEW n \in Node, NEW b \in Block, FinalizedHead(n, b)
        PROVE  Lifecycle!Finalize(Number[b])
    BY <1>5, <1>n, FinalizeStep DEF FinalizedHead
  <1>6. ASSUME NEW n \in Node, NEW b \in Block, FinalizedHeadNoDb(n, b)
        PROVE  Lifecycle!Finalize(Number[b])
    <2>1. DropThrough(DropThrough(recordedForks, Number[b]), Number[b] - PruneAfter)
              = DropThrough(recordedForks, Number[b])
      <3>1. \A h \in recordedForks : h > Number[b] => h > Number[b] - PruneAfter
        BY <1>n, MonitorAssumption DEF TypeOK, DetectorTypeOK, Height
      <3>2. QED
        BY <3>1 DEF DropThrough
    <2>2. QED
      BY <1>6, <1>n, <2>1, FinalizeStep DEF FinalizedHeadNoDb
  <1>7. ASSUME NEW n \in Node, NEW b \in Block, FinalizedHeadResolved(n, b)
        PROVE  Lifecycle!Close(Number[b])
    <2>1. Number[b] <= finalizedHeight
      BY <1>7 DEF FinalizedHeadResolved, ForkInv, PendingFinalsReached
    <2>2. UNCHANGED unwritten
      BY <1>7 DEF FinalizedHeadResolved, Unwritten
    <2>3. /\ recordedForks' \subseteq recordedForks
          /\ \A h \in recordedForks \ recordedForks' : h <= Number[b]
      <3>1. recordedForks' = DropThrough(recordedForks, Number[b] - PruneAfter)
        BY <1>7 DEF FinalizedHeadResolved
      <3>2. \A h \in recordedForks : ~(h > Number[b] - PruneAfter) => h <= Number[b]
        BY <1>n, MonitorAssumption DEF TypeOK, DetectorTypeOK, Height
      <3>3. QED
        BY <3>1, <3>2 DEF DropThrough
    <2>4. QED
      BY <1>7, <2>1, <2>2, <2>3 DEF FinalizedHeadResolved, ResolveRows, Lifecycle!Close
  <1>8. CASE UNCHANGED vars
    <2>1. UNCHANGED unwritten
      BY <1>8 DEF vars, handlerVars, Unwritten
    <2>2. UNCHANGED seen
      BY <1>8, <2>1 DEF vars, treeVars
    <2>3. QED
      BY <2>2, <1>v
  <1>9. ASSUME NEW n \in Node, NEW b \in Block,
               Notified(n, b) \/ HeadAnswered(n, b) \/ FinalizedHeadResolved(n, b)
        PROVE  [Lifecycle!Next]_Lifecycle!vars
    <2>1. <<n, b>> \in Node \X Block /\ Number[b] \in Height
      BY <1>n
    <2>2. UNCHANGED seen \/ Lifecycle!Next
      BY <1>1, <1>2, <1>3, <1>4, <1>5, <1>6, <1>7, <1>9, <2>1
         DEF Notified, HeadAnswered, Lifecycle!Next
    <2>3. QED
      BY <2>2, <1>v
  <1>10. QED
    BY <1>8, <1>9 DEF Next

\* The life cycle of forks is what the callbacks of the monitor implement.
THEOREM MonitorImplementsLifecycle == Spec => ImplementsLifecycle
  <1>1. TypeOK /\ ForkInv /\ [Next]_vars => [Lifecycle!Next]_Lifecycle!vars
    BY NextLifecycle
  <1>2. QED
    BY <1>1, InitLifecycle, InitType, NextType, InitForkInv, NextForkInv, PTL
       DEF Spec, ImplementsLifecycle, Lifecycle!Spec

-----------------------------------------------------------------------------
(* What follows for the rows of the database *)

\* What one step of the life cycle does to the rows.
LEMMA RowsStep ==
    ASSUME TypeOK, [Lifecycle!Next]_Lifecycle!vars, NEW h \in Height
    PROVE  /\ forkEvents[h].resolved <= forkEvents'[h].resolved
           /\ forkEvents'[h].resolved > forkEvents[h].resolved => h <= finalizedHeight
           /\ finalizedHeight <= finalizedHeight'
  <1>t. /\ forkEvents \in [Height -> [open : Nat, resolved : Nat]]
        /\ finalizedHeight \in Int
        /\ \A g \in Height : g \in Int
    BY DEF TypeOK, TreeTypeOK, Height
  <1>r. forkEvents[h].open \in Nat /\ forkEvents[h].resolved \in Nat
    BY <1>t
  <1>1. CASE UNCHANGED <<forkEvents, finalizedHeight>>
    BY <1>1, <1>t, <1>r
  <1>2. ASSUME NEW d, NEW g \in Height, Lifecycle!Detect(d, g)
        PROVE  UNCHANGED <<forkEvents, finalizedHeight>>
    BY <1>2 DEF Lifecycle!Detect
  <1>3. ASSUME NEW d, NEW g \in Height, Lifecycle!WriteRow(d, g)
        PROVE  forkEvents'[h].resolved = forkEvents[h].resolved /\ UNCHANGED finalizedHeight
    <2>1. CASE UNCHANGED forkEvents
      BY <1>3, <2>1 DEF Lifecycle!WriteRow
    <2>2. CASE forkEvents' = [forkEvents EXCEPT ![g].open = @ + 1]
      <3>1. CASE h = g
        <4>1. forkEvents'[h] = [forkEvents[h] EXCEPT !.open = @ + 1]
          BY <2>2, <3>1, <1>t, Zenon
        <4>2. forkEvents[h] \in [open : Nat, resolved : Nat]
          BY <1>t
        <4>3. QED
          BY <1>3, <4>1, <4>2 DEF Lifecycle!WriteRow
      <3>2. CASE h # g
        BY <1>3, <2>2, <3>2, <1>t, Zenon DEF Lifecycle!WriteRow
      <3>3. QED
        BY <3>1, <3>2
    <2>3. QED
      BY <1>3, <2>1, <2>2 DEF Lifecycle!WriteRow
  <1>4. ASSUME NEW k \in Height, Lifecycle!Finalize(k)
        PROVE  UNCHANGED forkEvents /\ finalizedHeight <= finalizedHeight'
    BY <1>4, <1>t DEF Lifecycle!Finalize
  <1>5. ASSUME NEW k \in Height, Lifecycle!Close(k)
        PROVE  /\ forkEvents[h].resolved <= forkEvents'[h].resolved
               /\ forkEvents'[h].resolved > forkEvents[h].resolved => h <= finalizedHeight
               /\ UNCHANGED finalizedHeight
    BY <1>5, <1>t, <1>r DEF Lifecycle!Close
  <1>6. QED
    BY <1>1, <1>2, <1>3, <1>4, <1>5, <1>t, <1>r DEF Lifecycle!Next, Lifecycle!vars

\* A fork_events row is marked resolved only when its height is final, also the
\* row that is inserted after the UPDATE meant for it and waits for the next.
THEOREM ResolvedRowsAreFinal == Spec => []Lifecycle!ResolvedAreFinal
  <1>1. Init => Lifecycle!ResolvedAreFinal
    BY DEF Init, Lifecycle!ResolvedAreFinal
  <1>2. ASSUME TypeOK, TypeOK', ForkInv, Lifecycle!ResolvedAreFinal, [Next]_vars
        PROVE  Lifecycle!ResolvedAreFinal'
    <2>1. [Lifecycle!Next]_Lifecycle!vars
      BY <1>2, NextLifecycle
    <2>2. ASSUME NEW h \in Height, forkEvents'[h].resolved > 0
          PROVE  h <= finalizedHeight'
      <3>t. h \in Int
        BY DEF Height
      <3>r. /\ forkEvents \in [Height -> [open : Nat, resolved : Nat]]
            /\ forkEvents' \in [Height -> [open : Nat, resolved : Nat]]
            /\ finalizedHeight \in Height /\ finalizedHeight' \in Height
        BY <1>2 DEF TypeOK, TreeTypeOK
      <3>1. /\ forkEvents[h].resolved \in Nat /\ forkEvents'[h].resolved \in Nat
            /\ finalizedHeight \in Int /\ finalizedHeight' \in Int
        BY <3>r DEF Height
      <3>2. h <= finalizedHeight
        BY <1>2, <2>1, <2>2, <3>1, RowsStep DEF Lifecycle!ResolvedAreFinal
      <3>3. finalizedHeight <= finalizedHeight'
        BY <1>2, <2>1, RowsStep
      <3>4. QED
        BY <3>t, <3>1, <3>2, <3>3
    <2>3. QED
      BY <2>2 DEF Lifecycle!ResolvedAreFinal
  <1>3. QED
    BY <1>1, <1>2, InitType, NextType, InitForkInv, NextForkInv, PTL DEF Spec

\* A fork leaves the unresolved ones only when its height is final, and a row
\* once resolved is never unresolved again, in whatever order the callbacks of
\* lagging and leading nodes are answered.
THEOREM ResolutionNeverTakenBack == Spec => Lifecycle!NeverTakenBack
  <1>1. ASSUME TypeOK, TypeOK', ForkInv, [Next]_vars
        PROVE  [/\ \A h \in recordedForks \ recordedForks' : h <= finalizedHeight'
                /\ \A h \in Height : forkEvents[h].resolved <= forkEvents'[h].resolved]_Lifecycle!vars
    <2>1. [Lifecycle!Next]_Lifecycle!vars
      BY <1>1, NextLifecycle
    <2>2. \A h \in Height : forkEvents[h].resolved <= forkEvents'[h].resolved
      BY <1>1, <2>1, RowsStep
    <2>3. \A h \in recordedForks \ recordedForks' : h <= finalizedHeight'
      <3>1. recordedForks \subseteq Height /\ finalizedHeight \in Height
        BY <1>1 DEF TypeOK, DetectorTypeOK, TreeTypeOK
      <3>2. \A g \in Height : g \in Int
        BY DEF Height
      <3>3. ASSUME NEW k \in Height, Lifecycle!Finalize(k)
            PROVE  \A h \in recordedForks \ recordedForks' : h <= finalizedHeight'
        BY <3>1, <3>2, <3>3 DEF Lifecycle!Finalize
      <3>4. ASSUME NEW k \in Height, Lifecycle!Close(k)
            PROVE  \A h \in recordedForks \ recordedForks' : h <= finalizedHeight'
        BY <3>1, <3>2, <3>4 DEF Lifecycle!Close
      <3>5. ASSUME NEW d, NEW g, Lifecycle!Detect(d, g) \/ Lifecycle!WriteRow(d, g)
            PROVE  recordedForks \subseteq recordedForks'
        BY <3>5 DEF Lifecycle!Detect, Lifecycle!WriteRow
      <3>6. UNCHANGED Lifecycle!vars => recordedForks' = recordedForks
        BY DEF Lifecycle!vars
      <3>7. QED
        BY <2>1, <3>3, <3>4, <3>5, <3>6 DEF Lifecycle!Next
    <2>4. QED
      BY <2>2, <2>3
  <1>2. QED
    BY <1>1, InitType, NextType, InitForkInv, NextForkInv, PTL
       DEF Spec, Lifecycle!NeverTakenBack

-----------------------------------------------------------------------------
(* What a database that does not fail holds *)

\* A callback that is moved keeps its row pending when it was and does not leave
\* the stages before the insert of the row.
LEMMA PendingKept ==
    ASSUME TypeOK, NEW n \in Node, NEW b \in Block, NEW stage, NEW blocks,
           MoveHead(n, b, stage, blocks),
           headAt[n][b] \in {"detected", "event"} => stage \in {"detected", "event"},
           NEW h, EventPending(h)
    PROVE  EventPending(h)'
  <1>1. PICK m \in Node, c \in Block : Number[c] = h /\ headAt[m][c] \in {"detected", "event"}
    BY DEF EventPending
  <1>2. headAt'[m][c] = IF m = n /\ c = b THEN stage ELSE headAt[m][c]
    BY DEF MoveHead, TypeOK
  <1>3. headAt'[m][c] \in {"detected", "event"}
    BY <1>1, <1>2
  <1>4. QED
    BY <1>1, <1>3 DEF EventPending

\* Every step keeps an unresolved row, or a row that is about to be written, for
\* every recorded fork that is not final.
LEMMA NextOpenRow ==
    TypeOK /\ ForkInv /\ DbEnabled /\ ~DbFails /\ RecordedForkHasOpenRow /\ [Next]_vars
        => RecordedForkHasOpenRow'
  <1> SUFFICES ASSUME TypeOK, ForkInv, DbEnabled, ~DbFails, RecordedForkHasOpenRow, [Next]_vars
               PROVE  RecordedForkHasOpenRow'
    OBVIOUS
  <1> USE DEF treeVars, detectorVars, environmentVars, databaseVars
  <1>n. \A b \in Block : Number[b] \in Height /\ Number[b] \in Int
    BY NumberInHeight
  <1>t. /\ forkEvents \in [Height -> [open : Nat, resolved : Nat]]
        /\ recordedForks \subseteq Height /\ finalizedHeight \in Height
        /\ headAt \in [Node -> [Block -> HeadStage]]
        /\ \A h \in Height : h \in Int
    BY DEF TypeOK, DetectorTypeOK, TreeTypeOK, Height
  <1>o. \A h \in recordedForks : h > finalizedHeight => forkEvents[h].open > 0 \/ EventPending(h)
    BY DEF RecordedForkHasOpenRow
  <1>q. ASSUME \A h : EventPending(h) => EventPending(h)', UNCHANGED forkEvents,
               recordedForks' \subseteq recordedForks,
               finalizedHeight' >= finalizedHeight, finalizedHeight' \in Height
        PROVE  RecordedForkHasOpenRow'
    <2>1. \A h \in recordedForks' : h > finalizedHeight' => h > finalizedHeight
      BY <1>q, <1>t
    <2>2. QED
      BY <1>o, <1>q, <2>1 DEF RecordedForkHasOpenRow
  <1>f. finalizedHeight >= finalizedHeight
    BY <1>t
  <1>1. ASSUME NEW n \in Node, NEW b \in Block, HeadForkDetected(n, b)
        PROVE  RecordedForkHasOpenRow'
    <2>1. MoveHead(n, b, "detected", byHeight'[Number[b]])
      BY <1>1 DEF HeadForkDetected
    <2>2. \A h : EventPending(h) => EventPending(h)'
      BY <2>1, PendingKept
    <2>3. EventPending(Number[b])'
      <3>1. headAt'[n][b] = "detected"
        BY <1>t, <2>1 DEF MoveHead
      <3>2. QED
        BY <3>1 DEF EventPending
    <2>4. recordedForks' = recordedForks \cup {Number[b]} /\ UNCHANGED <<forkEvents, finalizedHeight>>
      BY <1>1 DEF HeadForkDetected, RecordFork
    <2>5. QED
      BY <1>o, <2>2, <2>3, <2>4 DEF RecordedForkHasOpenRow
  <1>2. ASSUME NEW n \in Node, NEW b \in Block, InsertForkEvent(n, b)
        PROVE  RecordedForkHasOpenRow'
    <2>1. forkEvents' = [forkEvents EXCEPT ![Number[b]].open = @ + 1]
      BY <1>2 DEF InsertForkEvent
    <2>2. UNCHANGED <<recordedForks, finalizedHeight>>
      BY <1>2 DEF InsertForkEvent
    <2>3. ASSUME NEW h \in recordedForks, h > finalizedHeight
          PROVE  forkEvents'[h].open > 0 \/ EventPending(h)'
      <3>1. forkEvents[h].open \in Nat /\ h \in Height /\ forkEvents[h] \in [open : Nat, resolved : Nat]
        BY <1>t
      <3>2. CASE h = Number[b]
        <4>1. forkEvents'[h].open = forkEvents[h].open + 1
          BY <1>t, <2>1, <3>1, <3>2
        <4>2. QED
          BY <3>1, <4>1
      <3>3. CASE h # Number[b]
        <4>1. forkEvents'[h] = forkEvents[h]
          BY <1>t, <2>1, <3>1, <3>3
        <4>2. ASSUME EventPending(h)
              PROVE  EventPending(h)'
          <5>1. PICK m \in Node, c \in Block : Number[c] = h /\ headAt[m][c] \in {"detected", "event"}
            BY <4>2 DEF EventPending
          <5>2. c # b
            BY <3>3, <5>1
          <5>3. headAt'[m][c] = headAt[m][c]
            BY <1>2, <1>t, <5>2 DEF InsertForkEvent, MoveHead
          <5>4. QED
            BY <5>1, <5>3 DEF EventPending
        <4>3. QED
          BY <1>o, <2>3, <4>1, <4>2
      <3>4. QED
        BY <3>2, <3>3
    <2>4. QED
      BY <2>2, <2>3 DEF RecordedForkHasOpenRow
  <1>3. ASSUME NEW n \in Node, NEW b \in Block,
               HeadKnown(n, b) \/ HeadAlone(n, b) \/ HeadForkUpdated(n, b)
        PROVE  RecordedForkHasOpenRow'
    <2>1. headAt[n][b] \notin {"detected", "event"} /\ \E stage, blocks : MoveHead(n, b, stage, blocks)
      BY <1>3 DEF HeadKnown, HeadAlone, HeadForkUpdated, MayAnnounce
    <2>2. \A h : EventPending(h) => EventPending(h)'
      BY <2>1, PendingKept
    <2>3. UNCHANGED <<forkEvents, recordedForks, finalizedHeight>>
      BY <1>3 DEF HeadKnown, HeadAlone, HeadForkUpdated
    <2>4. QED
      BY <1>f, <1>q, <1>t, <2>2, <2>3
  <1>4. ASSUME NEW n \in Node, NEW b \in Block,
               InsertDetectedBlock(n, b) \/ InsertCompetingBlock(n, b) \/ HeadEnriched(n, b)
        PROVE  RecordedForkHasOpenRow'
    <2>1. PICK stage, blocks :
              /\ MoveHead(n, b, stage, blocks)
              /\ headAt[n][b] \in {"detected", "event"} => stage \in {"detected", "event"}
      BY <1>4 DEF InsertDetectedBlock, InsertCompetingBlock, HeadEnriched
    <2>2. \A h : EventPending(h) => EventPending(h)'
      BY <2>1, PendingKept
    <2>3. UNCHANGED <<forkEvents, recordedForks, finalizedHeight>>
      BY <1>4 DEF InsertDetectedBlock, InsertCompetingBlock, HeadEnriched
    <2>4. QED
      BY <1>f, <1>q, <1>t, <2>2, <2>3
  <1>5. ASSUME NEW n \in Node, NEW b \in Block, FinalizedHead(n, b) \/ FinalizedHeadNoDb(n, b)
        PROVE  RecordedForkHasOpenRow'
    <2>1. FinalizedHead(n, b)
      BY <1>5 DEF FinalizedHeadNoDb
    <2>2. finalizedHeight' \in Height /\ finalizedHeight' >= finalizedHeight
      BY <1>n, <2>1, AdvanceFinalizedBound DEF FinalizedHead, TypeOK
    <2>3. recordedForks' \subseteq recordedForks /\ UNCHANGED <<forkEvents, headAt>>
      BY <2>1 DEF FinalizedHead, DropThrough
    <2>4. \A h : EventPending(h) => EventPending(h)'
      BY <2>3 DEF EventPending
    <2>5. QED
      BY <1>q, <2>2, <2>3, <2>4
  <1>6. ASSUME NEW n \in Node, NEW b \in Block, FinalizedHeadResolved(n, b)
        PROVE  RecordedForkHasOpenRow'
    <2>1. Number[b] <= finalizedHeight
      BY <1>6 DEF FinalizedHeadResolved, ForkInv, PendingFinalsReached
    <2>2. /\ recordedForks' \subseteq recordedForks /\ UNCHANGED <<headAt, finalizedHeight>>
          /\ ResolveRows(Number[b])
      BY <1>6 DEF FinalizedHeadResolved, DropThrough
    <2>3. \A h : EventPending(h) => EventPending(h)'
      BY <2>2 DEF EventPending
    <2>4. \A h \in Height : h > finalizedHeight => forkEvents'[h] = forkEvents[h]
      BY <1>n, <1>t, <2>1, <2>2 DEF ResolveRows
    <2>5. QED
      BY <1>o, <1>t, <2>2, <2>3, <2>4 DEF RecordedForkHasOpenRow
  <1>7. CASE UNCHANGED vars
    <2>1. UNCHANGED <<forkEvents, recordedForks, finalizedHeight, headAt>>
      BY <1>7 DEF vars, handlerVars
    <2>2. \A h : EventPending(h) => EventPending(h)'
      BY <2>1 DEF EventPending
    <2>3. QED
      BY <1>f, <1>q, <1>t, <2>1, <2>2
  <1>8. QED
    BY <1>1, <1>2, <1>3, <1>4, <1>5, <1>6, <1>7 DEF Next, Notified, HeadAnswered

\* With a database that does not fail, no unresolved fork is shown as resolved:
\* its row is open or about to be written.
THEOREM RecordedForksHaveOpenRows == DbEnabled /\ Spec => []RecordedForkHasOpenRow
  <1>1. Init => RecordedForkHasOpenRow
    BY DEF Init, DetectorInit, RecordedForkHasOpenRow
  <1>2. ASSUME DbEnabled
        PROVE  Spec => []RecordedForkHasOpenRow
    <2>1. TypeOK /\ ForkInv /\ RecordedForkHasOpenRow /\ [Next]_vars => RecordedForkHasOpenRow'
      BY <1>2, NextOpenRow DEF RecordedForkHasOpenRow
    <2>2. QED
      BY <1>1, <2>1, InitType, NextType, InitForkInv, NextForkInv, PTL DEF Spec
  <1>3. QED
    BY <1>2

\* Outside its two insert loops a callback has nothing to insert, and
\* onForkUpdated inserts one block.
LoopShape ==
    \A n \in Node, b \in Block :
        /\ headAt[n][b] \notin {"detected", "updated"} => toInsert[n][b] = <<>>
        /\ headAt[n][b] = "updated" => Len(toInsert[n][b]) = 1

\* b has its row, or is about to be given one
Covered(b) == b \in forkBlocks \/ InsertPending(b)

RowsCovered == \A b \in Block : InTree(b) /\ Forked(Number[b]) => Covered(b)

\* Every step keeps the shape of the insert loops.
LEMMA NextLoopShape == TypeOK /\ InsertLoops /\ LoopShape /\ [Next]_vars => LoopShape'
  <1> SUFFICES ASSUME TypeOK, InsertLoops, LoopShape, [Next]_vars
               PROVE  LoopShape'
    OBVIOUS
  <1>h. /\ headAt \in [Node -> [Block -> HeadStage]]
        /\ toInsert \in [Node -> [Block -> Seq(Block)]]
    BY DEF TypeOK
  <1>m. ASSUME NEW n \in Node, NEW b \in Block, NEW stage, NEW blocks,
               MoveHead(n, b, stage, blocks),
               stage \notin {"detected", "updated"} => blocks = <<>>,
               stage = "updated" => Len(blocks) = 1
        PROVE  LoopShape'
    BY <1>m, <1>h DEF MoveHead, LoopShape
  <1>1. ASSUME NEW n \in Node, NEW b \in Block,
               \/ HeadKnown(n, b) \/ HeadAlone(n, b) \/ InsertForkEvent(n, b)
               \/ InsertCompetingBlock(n, b) \/ HeadEnriched(n, b)
        PROVE  LoopShape'
    <2>1. PICK stage \in {"done", "enrich"} : MoveHead(n, b, stage, <<>>)
      BY <1>1 DEF HeadKnown, HeadAlone, InsertForkEvent, InsertCompetingBlock, HeadEnriched
    <2>2. QED
      BY <1>m, <2>1
  <1>2. ASSUME NEW n \in Node, NEW b \in Block, HeadForkDetected(n, b)
        PROVE  LoopShape'
    <2>1. MoveHead(n, b, "detected", byHeight'[Number[b]]) \/ MoveHead(n, b, "enrich", <<>>)
      BY <1>2 DEF HeadForkDetected
    <2>2. QED
      BY <1>m, <2>1
  <1>3. ASSUME NEW n \in Node, NEW b \in Block, HeadForkUpdated(n, b)
        PROVE  LoopShape'
    <2>1. \/ \E c : MoveHead(n, b, "updated", <<c>>)
          \/ MoveHead(n, b, "enrich", <<>>)
      BY <1>3 DEF HeadForkUpdated
    <2>2. \A c : Len(<<c>>) = 1
      OBVIOUS
    <2>3. QED
      BY <1>m, <2>1, <2>2
  <1>4. ASSUME NEW n \in Node, NEW b \in Block, InsertDetectedBlock(n, b)
        PROVE  LoopShape'
    <2> DEFINE todo == toInsert[n][b]
               stage == IF Len(todo) = 1 THEN "event" ELSE "detected"
    <2>1. todo \in Seq(Block) /\ todo # <<>>
      BY <1>4, <1>h DEF InsertDetectedBlock, InsertLoops
    <2>2. Tail(todo) \in Seq(Block) /\ Len(Tail(todo)) = Len(todo) - 1
      BY <2>1, HeadTailProperties
    <2>3. ASSUME Len(todo) = 1
          PROVE  Tail(todo) = <<>>
      <3> HIDE DEF todo
      <3>1. Len(Tail(todo)) = 0
        BY <2>2, <2>3
      <3>2. QED
        BY <2>2, <3>1, EmptySeq
    <2>4. MoveHead(n, b, stage, Tail(todo))
      BY <1>4 DEF InsertDetectedBlock
    <2>5. /\ stage \notin {"detected", "updated"} => Tail(todo) = <<>>
          /\ stage # "updated"
      BY <2>3
    <2> HIDE DEF stage
    <2>6. QED
      BY <1>m, <2>4, <2>5
  <1>5. ASSUME NEW n \in Node, NEW b \in Block,
               FinalizedHead(n, b) \/ FinalizedHeadResolved(n, b) \/ FinalizedHeadNoDb(n, b)
        PROVE  LoopShape'
    BY <1>5 DEF FinalizedHead, FinalizedHeadResolved, FinalizedHeadNoDb, LoopShape
  <1>6. CASE UNCHANGED vars
    BY <1>6 DEF vars, handlerVars, LoopShape
  <1>7. QED
    BY <1>1, <1>2, <1>3, <1>4, <1>5, <1>6 DEF Next, Notified, HeadAnswered

\* A callback that is moved loses no block it still had to insert, unless the
\* block has its row now.
LEMMA CoveredKept ==
    ASSUME TypeOK, NEW n \in Node, NEW b \in Block, NEW stage, NEW blocks,
           MoveHead(n, b, stage, blocks), forkBlocks \subseteq forkBlocks',
           \A i \in DOMAIN toInsert[n][b] :
              \/ toInsert[n][b][i] \in forkBlocks'
              \/ \E j \in DOMAIN blocks : blocks[j] = toInsert[n][b][i],
           NEW c, Covered(c)
    PROVE  Covered(c)'
  <1>1. \A m \in Node, d \in Block :
           toInsert'[m][d] = IF m = n /\ d = b THEN blocks ELSE toInsert[m][d]
    BY DEF MoveHead, TypeOK
  <1>2. CASE c \in forkBlocks
    BY <1>2 DEF Covered
  <1>3. CASE InsertPending(c)
    <2>1. PICK m \in Node, d \in Block : \E i \in DOMAIN toInsert[m][d] : toInsert[m][d][i] = c
      BY <1>3 DEF InsertPending
    <2>2. CASE m = n /\ d = b
      <3>1. c \in forkBlocks' \/ \E j \in DOMAIN blocks : blocks[j] = c
        BY <2>1, <2>2
      <3>2. toInsert'[n][b] = blocks
        BY <1>1
      <3>3. QED
        BY <3>1, <3>2 DEF Covered, InsertPending
    <2>3. CASE ~(m = n /\ d = b)
      <3>1. toInsert'[m][d] = toInsert[m][d]
        BY <1>1, <2>3
      <3>2. QED
        BY <2>1, <3>1 DEF Covered, InsertPending
    <2>4. QED
      BY <2>2, <2>3
  <1>4. QED
    BY <1>2, <1>3 DEF Covered

\* A new block, when the callback it came with takes what is not covered yet.
LEMMA CoveredNew ==
    ASSUME TypeOK, LoopShape, RowsCovered, NEW n \in Node, NEW b \in Block, MayAnnounce(n, b),
           AddNewBlock(b, n), NEW stage, NEW blocks, MoveHead(n, b, stage, blocks),
           UNCHANGED forkBlocks,
           \A c \in Block : InTree(c)' /\ Forked(Number[c])' /\ Number[c] = Number[b]
              => (InTree(c) /\ Forked(Number[c])) \/ \E j \in DOMAIN blocks : blocks[j] = c
    PROVE  RowsCovered'
  <1>1. toInsert[n][b] = <<>> /\ DOMAIN <<>> = {}
    BY EmptySeq, LenProperties DEF LoopShape, MayAnnounce
  <1>2. \A c : Covered(c) => Covered(c)'
    BY <1>1, CoveredKept
  <1> SUFFICES ASSUME NEW c \in Block, InTree(c)', Forked(Number[c])'
               PROVE  Covered(c)'
    BY DEF RowsCovered
  <1>3. CASE Number[c] = Number[b]
    <2>1. ASSUME NEW j \in DOMAIN blocks, blocks[j] = c
          PROVE  InsertPending(c)'
      <3>1. toInsert'[n][b] = blocks
        BY DEF MoveHead, TypeOK
      <3>2. QED
        BY <2>1, <3>1 DEF InsertPending
    <2>2. QED
      BY <1>2, <1>3, <2>1 DEF RowsCovered, Covered
  <1>4. CASE Number[c] # Number[b]
    <2>1. InTree(c)
      BY <1>4 DEF AddNewBlock, InTree, TypeOK, TreeTypeOK
    <2>2. Forked(Number[c])
      BY <1>4, NumberInHeight, AddNewBlockForks DEF TypeOK
    <2>3. QED
      BY <1>2, <2>1, <2>2 DEF RowsCovered
  <1>5. QED
    BY <1>3, <1>4

\* The blocks of a height that has just become forked are all in its index, so
\* onForkDetected takes them all.
LEMMA DetectedCovered ==
    ASSUME TypeOK, IndexesAgree, LoopShape, RowsCovered, DbEnabled,
           NEW n \in Node, NEW b \in Block, HeadForkDetected(n, b)
    PROVE  RowsCovered'
  <1>1. AddNewBlock(b, n) /\ MayAnnounce(n, b) /\ UNCHANGED forkBlocks
    BY DEF HeadForkDetected, databaseVars
  <1>2. MoveHead(n, b, "detected", byHeight'[Number[b]])
    BY DEF HeadForkDetected
  <1>3. IndexesAgree'
    BY <1>1, AddNewBlockIndexes DEF TypeOK
  <1>4. ASSUME NEW c \in Block, InTree(c)', Number[c] = Number[b]
        PROVE  \E j \in DOMAIN byHeight'[Number[b]] : byHeight'[Number[b]][j] = c
    <2>1. c \in Range(byHeight'[Number[c]])
      BY <1>3, <1>4 DEF IndexesAgree
    <2>2. QED
      BY <1>4, <2>1 DEF Range
  <1>5. QED
    BY <1>1, <1>2, <1>4, CoveredNew

\* A height with a recorded fork is forked already, so onForkUpdated has only the
\* latest block to take.
LEMMA UpdatedCovered ==
    ASSUME TypeOK, RecordedAreForked, LoopShape, RowsCovered, DbEnabled,
           NEW n \in Node, NEW b \in Block, HeadForkUpdated(n, b)
    PROVE  RowsCovered'
  <1> DEFINE old == byHeight[Number[b]]
             new == byHeight'[Number[b]]
  <1>1. AddNewBlock(b, n) /\ MayAnnounce(n, b) /\ UNCHANGED forkBlocks
    BY DEF HeadForkUpdated, databaseVars
  <1>2. MoveHead(n, b, "updated", <<new[Len(new)]>>)
    BY DEF HeadForkUpdated
  <1>3. new[Len(new)] = b
    <2>1. old \in Seq(Block) /\ new = Append(old, b)
      BY <1>1, NumberInHeight DEF AddNewBlock, TypeOK, TreeTypeOK
    <2> HIDE DEF old
    <2>2. Len(new) = Len(old) + 1 /\ new[Len(old) + 1] = b
      BY <2>1, AppendProperties
    <2>3. QED
      BY <2>2
  <1>4. Forked(Number[b])
    BY DEF HeadForkUpdated, RecordedAreForked, ForkedHeights
  <1>5. ASSUME NEW c \in Block, InTree(c)', Number[c] = Number[b]
        PROVE  (InTree(c) /\ Forked(Number[c])) \/ \E j \in DOMAIN <<new[Len(new)]>> : <<new[Len(new)]>>[j] = c
    <2>1. CASE c = b
      BY <1>3, <2>1
    <2>2. CASE c # b
      BY <1>1, <1>4, <1>5, <2>2 DEF AddNewBlock, InTree, TypeOK, TreeTypeOK
    <2>3. QED
      BY <2>1, <2>2
  <1> HIDE DEF new
  <1>6. QED
    BY <1>1, <1>2, <1>5, CoveredNew

\* Every step keeps a row, or a pending insert, for every block of a forked
\* height.
LEMMA NextCovered ==
    /\ TypeOK /\ ForkInv /\ IndexesAgree /\ InsertLoops /\ LoopShape /\ RowsCovered
    /\ DbEnabled /\ ~DbFails /\ [Next]_vars
    => RowsCovered'
  <1> SUFFICES ASSUME TypeOK, ForkInv, IndexesAgree, InsertLoops, LoopShape, RowsCovered,
                      DbEnabled, ~DbFails, [Next]_vars
               PROVE  RowsCovered'
    OBVIOUS
  <1> USE DEF treeVars, databaseVars
  <1>t. TreeTypeOK
    BY DEF TypeOK
  <1>e. DOMAIN <<>> = {}
    BY EmptySeq, LenProperties
  <1>n. \A b \in Block : Number[b] \in Height /\ Number[b] \in Int /\ Number[b] - PruneAfter \in Int
    BY NumberInHeight, MonitorAssumption
  <1>q. ASSUME \A c : Covered(c) => Covered(c)',
               \A c \in Block : InTree(c)' => InTree(c),
               \A h \in Height : Forked(h)' => Forked(h)
        PROVE  RowsCovered'
    BY <1>n, <1>q DEF RowsCovered
  <1>1. ASSUME NEW n \in Node, NEW b \in Block, HeadKnown(n, b)
        PROVE  RowsCovered'
    <2>1. toInsert[n][b] = <<>> /\ MoveHead(n, b, "done", <<>>) /\ UNCHANGED forkBlocks
      BY <1>1 DEF HeadKnown, MayAnnounce, LoopShape
    <2>2. \A c : Covered(c) => Covered(c)'
      BY <1>e, <2>1, CoveredKept
    <2>3. \A c \in Block : InTree(c)' => InTree(c)
      BY <1>1, <1>t DEF HeadKnown, AddKnownBlock, InTree, TreeTypeOK
    <2>4. \A h \in Height : Forked(h)' => Forked(h)
      BY <1>1 DEF HeadKnown, AddKnownBlock, Forked
    <2>5. QED
      BY <1>q, <2>2, <2>3, <2>4
  <1>2. ASSUME NEW n \in Node, NEW b \in Block, HeadAlone(n, b)
        PROVE  RowsCovered'
    <2>1. AddNewBlock(b, n) /\ MayAnnounce(n, b) /\ MoveHead(n, b, "done", <<>>) /\ UNCHANGED forkBlocks
      BY <1>2 DEF HeadAlone
    <2>2. ~Forked(Number[b])'
      <3>1. byHeight'[Number[b]] \in Seq(Block)
        BY <1>t, <2>1, AddNewBlockType
      <3>2. Len(byHeight'[Number[b]]) \in Nat
        BY <3>1, LenProperties
      <3>3. QED
        BY <1>2, <3>2 DEF HeadAlone, Forked
    <2>3. \A c \in Block : InTree(c)' /\ Forked(Number[c])' => Number[c] # Number[b]
      BY <2>2
    <2>4. QED
      BY <2>1, <2>3, CoveredNew
  <1>3. ASSUME NEW n \in Node, NEW b \in Block, HeadForkDetected(n, b)
        PROVE  RowsCovered'
    BY <1>3, DetectedCovered
  <1>4. ASSUME NEW n \in Node, NEW b \in Block, HeadForkUpdated(n, b)
        PROVE  RowsCovered'
    BY <1>4, UpdatedCovered DEF ForkInv
  <1>u. ASSUME UNCHANGED treeVars, \A c : Covered(c) => Covered(c)'
        PROVE  RowsCovered'
    BY <1>u DEF RowsCovered, InTree, Forked
  <1>5. ASSUME NEW n \in Node, NEW b \in Block, InsertDetectedBlock(n, b)
        PROVE  RowsCovered'
    <2> DEFINE todo == toInsert[n][b]
               stage == IF Len(todo) = 1 THEN "event" ELSE "detected"
    <2>1. todo \in Seq(Block) /\ todo # <<>>
      BY <1>5 DEF InsertDetectedBlock, InsertLoops, TypeOK
    <2>2. forkBlocks' = forkBlocks \cup {Head(todo)} /\ MoveHead(n, b, stage, Tail(todo))
      BY <1>5 DEF InsertDetectedBlock, InsertRow
    <2>3. ASSUME NEW i \in DOMAIN todo
          PROVE  todo[i] \in forkBlocks' \/ \E j \in DOMAIN Tail(todo) : Tail(todo)[j] = todo[i]
      <3> HIDE DEF todo
      <3>1. /\ Head(todo) = todo[1] /\ Tail(todo) \in Seq(Block)
            /\ Len(Tail(todo)) = Len(todo) - 1
            /\ \A j \in 1..Len(Tail(todo)) : Tail(todo)[j] = todo[j + 1]
        BY <2>1, HeadTailProperties
      <3>2. /\ DOMAIN todo = 1..Len(todo) /\ Len(todo) \in Nat
            /\ DOMAIN Tail(todo) = 1..Len(Tail(todo))
        BY <2>1, <3>1, LenProperties
      <3>3. CASE i = 1
        BY <2>2, <3>1, <3>3
      <3>4. CASE i # 1
        <4>1. i - 1 \in 1..Len(Tail(todo)) /\ (i - 1) + 1 = i
          BY <2>3, <3>1, <3>2, <3>4
        <4>2. Tail(todo)[i - 1] = todo[i] /\ i - 1 \in DOMAIN Tail(todo)
          BY <3>1, <3>2, <4>1
        <4>3. QED
          BY <4>2
      <3>5. QED
        BY <3>3, <3>4
    <2> HIDE DEF stage
    <2>4. \A c : Covered(c) => Covered(c)'
      BY <2>2, <2>3, CoveredKept
    <2>5. QED
      BY <1>5, <1>u, <2>4 DEF InsertDetectedBlock
  <1>6. ASSUME NEW n \in Node, NEW b \in Block, InsertCompetingBlock(n, b)
        PROVE  RowsCovered'
    <2> DEFINE todo == toInsert[n][b]
    <2>1. todo \in Seq(Block) /\ Len(todo) = 1
      BY <1>6 DEF InsertCompetingBlock, LoopShape, TypeOK
    <2>2. forkBlocks' = forkBlocks \cup {Head(todo)} /\ MoveHead(n, b, "enrich", <<>>)
      BY <1>6 DEF InsertCompetingBlock, InsertRow
    <2>3. \A i \in DOMAIN todo : todo[i] \in forkBlocks'
      <3>1. DOMAIN todo = 1..1 /\ Head(todo) = todo[1]
        BY <2>1, LenProperties
      <3>2. QED
        BY <2>2, <3>1
    <2>4. \A c : Covered(c) => Covered(c)'
      BY <2>2, <2>3, CoveredKept
    <2>5. QED
      BY <1>6, <1>u, <2>4 DEF InsertCompetingBlock
  <1>7. ASSUME NEW n \in Node, NEW b \in Block, InsertForkEvent(n, b) \/ HeadEnriched(n, b)
        PROVE  RowsCovered'
    <2>1. /\ toInsert[n][b] = <<>> /\ UNCHANGED forkBlocks
          /\ \E stage : MoveHead(n, b, stage, <<>>)
      BY <1>7 DEF InsertForkEvent, HeadEnriched, LoopShape
    <2>2. \A c : Covered(c) => Covered(c)'
      BY <1>e, <2>1, CoveredKept
    <2>3. QED
      BY <1>7, <1>u, <2>2 DEF InsertForkEvent, HeadEnriched
  <1>8. ASSUME NEW n \in Node, NEW b \in Block, FinalizedHead(n, b) \/ FinalizedHeadNoDb(n, b)
        PROVE  RowsCovered'
    <2>1. FinalizedHead(n, b)
      BY <1>8 DEF FinalizedHeadNoDb
    <2>2. UNCHANGED <<byHeight, byHash, toInsert, forkBlocks>>
      BY <2>1 DEF FinalizedHead
    <2>3. QED
      BY <2>2 DEF RowsCovered, InTree, Forked, Covered, InsertPending
  <1>9. ASSUME NEW n \in Node, NEW b \in Block, FinalizedHeadResolved(n, b)
        PROVE  RowsCovered'
    <2>1. Prune(Number[b] - PruneAfter) /\ UNCHANGED <<toInsert, forkBlocks>>
      BY <1>9 DEF FinalizedHeadResolved
    <2>2. \A c : Covered(c) => Covered(c)'
      BY <2>1 DEF Covered, InsertPending
    <2>3. \A c \in Block : InTree(c)' => InTree(c)
      BY <1>n, <1>t, <2>1, PruneIndexes
    <2>4. \A h \in Height : Forked(h)' => Forked(h)
      BY <1>n, <1>t, <2>1, PruneForks
    <2>5. QED
      BY <1>q, <2>2, <2>3, <2>4
  <1>10. CASE UNCHANGED vars
    BY <1>10 DEF vars, handlerVars, RowsCovered, InTree, Forked, Covered, InsertPending
  <1>11. QED
    BY <1>1, <1>2, <1>3, <1>4, <1>5, <1>6, <1>7, <1>8, <1>9, <1>10
       DEF Next, Notified, HeadAnswered

\* With a database that does not fail, every block of a forked height has its row
\* or is in some callback's insert loop, whichever callback took it.
THEOREM ForkedBlocksCovered == DbEnabled /\ Spec => []ForkBlocksPersisted
  <1>1. Init => IndexesAgree /\ LoopShape /\ RowsCovered
    <2>1. Init => IndexesAgree
      BY TreeInitIndexes DEF Init
    <2>2. Init => LoopShape
      BY DEF Init, LoopShape
    <2>3. Init => RowsCovered
      BY DEF Init, TreeInit, RowsCovered, InTree
    <2>4. QED
      BY <2>1, <2>2, <2>3
  <1>2. CASE DbFails
    <2>1. ForkBlocksPersisted
      BY <1>2 DEF ForkBlocksPersisted
    <2>2. QED
      BY <2>1, PTL
  <1>3. CASE DbEnabled /\ ~DbFails
    <2>1. /\ TypeOK /\ ForkInv /\ IndexesAgree /\ InsertLoops /\ LoopShape /\ RowsCovered
          /\ [Next]_vars
          => RowsCovered'
      BY <1>3, NextCovered
    <2>2. RowsCovered => ForkBlocksPersisted
      BY DEF RowsCovered, ForkBlocksPersisted, Covered
    <2>3. QED
      BY <1>1, <2>1, <2>2, InitType, NextType, InitForkInv, NextForkInv, NextIndexes,
         NextLoopShape, PTL DEF Spec
  <1>4. CASE ~DbEnabled
    BY <1>4
  <1>5. QED
    BY <1>2, <1>3, <1>4

-----------------------------------------------------------------------------
(* Sums over the heights *)

\* the element SumFunction takes next
First(s) == CHOOSE x \in s : TRUE

\* What holds of a set when it holds of the set without its first element holds
\* of every subset of a finite set.
LEMMA SubsetInduction ==
    ASSUME NEW S, IsFiniteSet(S), NEW T, {} \in T,
           \A s \in SUBSET S : s # {} /\ s \ {First(s)} \in T => s \in T
    PROVE  SUBSET S \subseteq T
  <1> DEFINE U == {n \in Nat : \A s \in SUBSET S : Cardinality(s) <= n => s \in T}
  <1>1. ASSUME NEW s \in SUBSET S
        PROVE  /\ IsFiniteSet(s) /\ Cardinality(s) \in Nat
               /\ s # {} => /\ s \ {First(s)} \in SUBSET S
                            /\ Cardinality(s \ {First(s)}) = Cardinality(s) - 1
               /\ Cardinality(s) = 0 => s = {}
    <2>1. IsFiniteSet(s) /\ Cardinality(s) \in Nat
      BY FS_Subset, FS_CardinalityType
    <2>2. s # {} => First(s) \in s
      BY DEF First
    <2>3. QED
      BY <2>1, <2>2, FS_RemoveElement, FS_EmptySet
  <1>2. 0 \in U
    <2>1. ASSUME NEW s \in SUBSET S, Cardinality(s) <= 0
          PROVE  s \in T
      <3>1. Cardinality(s) \in Nat
        BY <1>1
      <3>2. Cardinality(s) = 0
        BY <2>1, <3>1
      <3>3. QED
        BY <1>1, <3>2
    <2>2. QED
      BY <2>1
  <1>3. ASSUME NEW n \in Nat, n \in U
        PROVE  n + 1 \in U
    <2> SUFFICES ASSUME NEW s \in SUBSET S, Cardinality(s) <= n + 1, s # {}
                 PROVE  s \in T
      OBVIOUS
    <2>1. /\ s \ {First(s)} \in SUBSET S /\ Cardinality(s) \in Nat
          /\ Cardinality(s \ {First(s)}) = Cardinality(s) - 1
      BY <1>1
    <2>2. Cardinality(s \ {First(s)}) <= n
      BY <2>1
    <2>3. s \ {First(s)} \in T
      BY <1>3, <2>1, <2>2
    <2>4. QED
      BY <2>3
  <1>4. Nat \subseteq U
    <2> HIDE DEF U
    <2>1. \A n \in Nat : n \in U => n + 1 \in U
      BY <1>3
    <2>2. QED
      BY <1>2, <2>1, NatSetInduction
  <1>5. ASSUME NEW s \in SUBSET S
        PROVE  s \in T
    <2>1. Cardinality(s) \in Nat
      BY <1>1
    <2>2. Cardinality(s) \in U
      <3> HIDE DEF U
      <3>1. QED
        BY <1>4, <2>1
    <2>3. Cardinality(s) <= Cardinality(s)
      BY <2>1
    <2>4. QED
      BY <2>2, <2>3
  <1>6. QED
    BY <1>5

\* g sums f over every subset of S, taking the first element first.
SumsUp(g, f, S) ==
    /\ g \in [SUBSET S -> Nat]
    /\ \A s \in SUBSET S :
          g[s] = IF s = {} THEN 0 ELSE f[First(s)] + g[s \ {First(s)}]

\* The recursion of SumFunction has a solution over a finite set.
LEMMA SumsExist ==
    ASSUME NEW S, IsFiniteSet(S), NEW f \in [S -> Nat]
    PROVE  \E g : SumsUp(g, f, S)
  <1> DEFINE rest(s) == s \ {First(s)}
             upTo(g, n) == \A s \in SUBSET S : Cardinality(s) <= n =>
                              g[s] = IF s = {} THEN 0 ELSE f[First(s)] + g[rest(s)]
             U == {n \in Nat : \E g \in [SUBSET S -> Nat] : upTo(g, n)}
  <1>1. ASSUME NEW s \in SUBSET S
        PROVE  /\ Cardinality(s) \in Nat
               /\ s # {} => /\ First(s) \in S /\ rest(s) \in SUBSET S
                            /\ Cardinality(rest(s)) = Cardinality(s) - 1
               /\ s = {} <=> Cardinality(s) = 0
    <2>1. IsFiniteSet(s) /\ Cardinality(s) \in Nat
      BY FS_Subset, FS_CardinalityType
    <2>2. s # {} => First(s) \in s
      BY DEF First
    <2>3. QED
      BY <2>1, <2>2, FS_RemoveElement, FS_EmptySet
  <1> HIDE DEF rest
  <1>2. 0 \in U
    <2> DEFINE g == [s \in SUBSET S |-> 0]
    <2>1. g \in [SUBSET S -> Nat]
      OBVIOUS
    <2>2. upTo(g, 0)
      BY <1>1
    <2> HIDE DEF upTo, g
    <2>3. QED
      BY <2>1, <2>2
  <1>3. ASSUME NEW n \in Nat, n \in U
        PROVE  n + 1 \in U
    <2>1. PICK g \in [SUBSET S -> Nat] : upTo(g, n)
      BY <1>3
    <2> DEFINE q == [s \in SUBSET S |->
                        IF Cardinality(s) = n + 1 THEN f[First(s)] + g[rest(s)] ELSE g[s]]
    <2>2. ASSUME NEW s \in SUBSET S
          PROVE  q[s] \in Nat
      <3>1. CASE Cardinality(s) = n + 1
        <4>1. s # {} /\ f[First(s)] \in Nat /\ g[rest(s)] \in Nat
          BY <1>1, <3>1
        <4>2. QED
          BY <3>1, <4>1
      <3>2. CASE Cardinality(s) # n + 1
        BY <3>2
      <3>3. QED
        BY <3>1, <3>2
    <2>3. q \in [SUBSET S -> Nat]
      <3>1. q = [s \in SUBSET S |-> q[s]]
        OBVIOUS
      <3> HIDE DEF q
      <3>2. QED
        BY <2>2, <3>1
    <2>4. ASSUME NEW s \in SUBSET S, Cardinality(s) <= n + 1
          PROVE  q[s] = IF s = {} THEN 0 ELSE f[First(s)] + q[rest(s)]
      <3>1. Cardinality(s) \in Nat
        BY <1>1
      <3>2. CASE s = {}
        <4>1. Cardinality(s) = 0 /\ q[s] = g[s]
          BY <1>1, <3>2
        <4>2. QED
          BY <2>1, <3>2, <4>1
      <3>3. CASE s # {}
        <4>1. rest(s) \in SUBSET S /\ Cardinality(rest(s)) = Cardinality(s) - 1
          BY <1>1, <3>3
        <4>2. Cardinality(rest(s)) # n + 1
          BY <2>4, <3>1, <4>1
        <4>3. q[rest(s)] = g[rest(s)]
          BY <4>1, <4>2
        <4>4. CASE Cardinality(s) = n + 1
          BY <3>3, <4>3, <4>4
        <4>5. CASE Cardinality(s) # n + 1
          <5>1. Cardinality(s) <= n /\ q[s] = g[s]
            BY <2>4, <3>1, <4>5
          <5>2. g[s] = f[First(s)] + g[rest(s)]
            BY <2>1, <3>3, <5>1
          <5>3. QED
            BY <3>3, <4>3, <5>1, <5>2
        <4>6. QED
          BY <4>4, <4>5
      <3>4. QED
        BY <3>2, <3>3
    <2> HIDE DEF q
    <2>5. upTo(q, n + 1)
      BY <2>4
    <2>6. n + 1 \in Nat
      OBVIOUS
    <2> HIDE DEF upTo
    <2>7. QED
      BY <2>3, <2>5, <2>6
  <1>4. Nat \subseteq U
    <2> HIDE DEF U
    <2>1. \A n \in Nat : n \in U => n + 1 \in U
      BY <1>3
    <2>2. QED
      BY <1>2, <2>1, NatSetInduction
  <1>5. Cardinality(S) \in U
    <2> HIDE DEF U
    <2>1. Cardinality(S) \in Nat
      BY FS_CardinalityType
    <2>2. QED
      BY <1>4, <2>1
  <1>6. PICK g \in [SUBSET S -> Nat] : upTo(g, Cardinality(S))
    BY <1>5
  <1>7. \A s \in SUBSET S : Cardinality(s) <= Cardinality(S)
    BY FS_Subset
  <1>8. \A s \in SUBSET S : g[s] = IF s = {} THEN 0 ELSE f[First(s)] + g[rest(s)]
    BY <1>6, <1>7
  <1>9. QED
    BY <1>6, <1>8 DEF SumsUp, rest

\* SumFunction is the sum over the whole set.
LEMMA SumIsSum ==
    ASSUME NEW S, IsFiniteSet(S), NEW f \in [S -> Nat], NEW g, SumsUp(g, f, S)
    PROVE  SumFunction(f) = g[S]
  <1> DEFINE step(r) == [s \in SUBSET S |-> IF s = {} THEN 0 ELSE f[First(s)] + r[s \ {First(s)}]]
             iter == CHOOSE r : r = step(r)
             T == {s \in SUBSET S : iter[s] = g[s]}
  <1>1. SumFunction(f) = iter[S]
    <2>1. DOMAIN f = S
      OBVIOUS
    <2>2. SumFunction(f) = LET r[s \in SUBSET (DOMAIN f)] ==
                                 IF s = {} THEN 0
                                 ELSE LET x == CHOOSE x \in s : TRUE IN f[x] + r[s \ {x}]
                           IN  r[DOMAIN f]
      BY DEF SumFunction, SumFunctionOnSet, FoldFunctionOnSet, MapThenFoldSet
    <2>3. QED
      BY <2>1, <2>2 DEF First
  <1>2. g = step(g)
    BY DEF SumsUp
  <1>3. iter = step(iter)
    <2> HIDE DEF step
    <2>1. QED
      BY <1>2
  <1>4. \A s \in SUBSET S : iter[s] = IF s = {} THEN 0 ELSE f[First(s)] + iter[s \ {First(s)}]
    <2> HIDE DEF iter
    <2>1. QED
      BY <1>3
  <1> HIDE DEF iter, step
  <1>5. SUBSET S \subseteq T
    <2>1. {} \in T
      BY <1>4 DEF SumsUp
    <2>2. \A s \in SUBSET S : s # {} /\ s \ {First(s)} \in T => s \in T
      BY <1>4 DEF SumsUp
    <2> HIDE DEF T
    <2>3. QED
      BY <2>1, <2>2, SubsetInduction
  <1>6. QED
    BY <1>1, <1>5

\* The sum of zeros.
LEMMA SumOfZeros ==
    ASSUME NEW S, IsFiniteSet(S), NEW f \in [S -> Nat], \A x \in S : f[x] = 0
    PROVE  SumFunction(f) = 0
  <1>1. PICK g : SumsUp(g, f, S)
    BY SumsExist
  <1> DEFINE T == {s \in SUBSET S : g[s] = 0}
  <1>2. {} \in T
    BY <1>1 DEF SumsUp
  <1>3. ASSUME NEW s \in SUBSET S, s # {}, s \ {First(s)} \in T
        PROVE  s \in T
    <2>1. First(s) \in S
      BY <1>3 DEF First
    <2>2. g[s] = f[First(s)] + g[s \ {First(s)}]
      BY <1>1, <1>3 DEF SumsUp
    <2>3. QED
      BY <1>3, <2>1, <2>2
  <1>4. SUBSET S \subseteq T
    <2> HIDE DEF T
    <2>1. QED
      BY <1>2, <1>3, SubsetInduction
  <1>5. SumFunction(f) = g[S]
    BY <1>1, SumIsSum
  <1>6. QED
    BY <1>4, <1>5

\* One value grows by one, and so does the sum.
LEMMA SumGrows ==
    ASSUME NEW S, IsFiniteSet(S), NEW f \in [S -> Nat], NEW e \in [S -> Nat], NEW h \in S,
           e[h] = f[h] + 1, \A x \in S : x # h => e[x] = f[x]
    PROVE  SumFunction(e) = SumFunction(f) + 1
  <1>1. PICK g : SumsUp(g, f, S)
    BY SumsExist
  <1>2. PICK q : SumsUp(q, e, S)
    BY SumsExist
  <1> DEFINE T == {s \in SUBSET S : q[s] = IF h \in s THEN g[s] + 1 ELSE g[s]}
  <1>3. {} \in T
    BY <1>1, <1>2 DEF SumsUp
  <1>4. ASSUME NEW s \in SUBSET S, s # {}, s \ {First(s)} \in T
        PROVE  s \in T
    <2> DEFINE x == First(s)
               r == s \ {x}
    <2>1. x \in s /\ x \in S /\ r \in SUBSET S
      BY <1>4 DEF First
    <2>2. g[s] = f[x] + g[r] /\ q[s] = e[x] + q[r]
      BY <1>1, <1>2, <1>4 DEF SumsUp
    <2>3. g[r] \in Nat /\ q[r] \in Nat /\ f[x] \in Nat /\ e[x] \in Nat
      BY <1>1, <1>2, <2>1 DEF SumsUp
    <2>4. q[r] = IF h \in r THEN g[r] + 1 ELSE g[r]
      BY <1>4
    <2> HIDE DEF x
    <2>5. CASE x = h
      <3>1. h \notin r /\ h \in s /\ e[x] = f[x] + 1
        BY <2>1, <2>5
      <3>2. q[s] = g[s] + 1
        BY <2>2, <2>3, <2>4, <3>1
      <3>3. QED
        BY <3>1, <3>2
    <2>6. CASE x # h
      <3>1. (h \in r <=> h \in s) /\ e[x] = f[x]
        BY <2>1, <2>6
      <3>2. q[s] = IF h \in s THEN g[s] + 1 ELSE g[s]
        BY <2>2, <2>3, <2>4, <3>1
      <3>3. QED
        BY <3>2
    <2>7. QED
      BY <2>5, <2>6
  <1>5. SUBSET S \subseteq T
    <2> HIDE DEF T
    <2>1. QED
      BY <1>3, <1>4, SubsetInduction
  <1>6. SumFunction(f) = g[S] /\ SumFunction(e) = q[S]
    BY <1>1, <1>2, SumIsSum
  <1>7. q[S] = g[S] + 1
    BY <1>5
  <1>8. QED
    BY <1>6, <1>7

\* The sum is a natural number.
LEMMA SumIsNat ==
    ASSUME NEW S, IsFiniteSet(S), NEW f \in [S -> Nat]
    PROVE  SumFunction(f) \in Nat
  <1>1. PICK g : SumsUp(g, f, S)
    BY SumsExist
  <1>2. SumFunction(f) = g[S]
    BY <1>1, SumIsSum
  <1>3. QED
    BY <1>1, <1>2 DEF SumsUp

-----------------------------------------------------------------------------
(* One row for each detection *)

\* the detections whose row is still to be written, and the rows of each height
Pending == {p \in Node \X Block : headAt[p[1]][p[2]] \in {"detected", "event"}}

RowsAt == [h \in Height |-> forkEvents[h].open + forkEvents[h].resolved]

RowCount == IsFiniteSet(Pending) /\ SumFunction(RowsAt) + Cardinality(Pending) = totalForkCount

\* What moving a callback does to the pending rows.
LEMMA PendingStep ==
    ASSUME TypeOK, NEW n \in Node, NEW b \in Block, NEW stage, NEW blocks,
           MoveHead(n, b, stage, blocks)
    PROVE  Pending' = (Pending \ {<<n, b>>})
                      \cup (IF stage \in {"detected", "event"} THEN {<<n, b>>} ELSE {})
  <1> DEFINE open(s) == s \in {"detected", "event"}
  <1>1. \A m \in Node, c \in Block :
            headAt'[m][c] = IF m = n /\ c = b THEN stage ELSE headAt[m][c]
    BY DEF MoveHead, TypeOK
  <1>2. \A p \in Node \X Block : p = <<n, b>> <=> p[1] = n /\ p[2] = b
    OBVIOUS
  <1>3. \A p \in Node \X Block : p \in Pending' <=> open(headAt'[p[1]][p[2]])
    BY DEF Pending
  <1>4. \A p \in Node \X Block : p \in Pending <=> open(headAt[p[1]][p[2]])
    BY DEF Pending
  <1>5. Pending \subseteq Node \X Block /\ Pending' \subseteq Node \X Block
    BY DEF Pending
  <1>6. ASSUME NEW p \in Node \X Block
        PROVE  p \in Pending' <=> (p \in Pending /\ p # <<n, b>>) \/ (open(stage) /\ p = <<n, b>>)
    <2>1. CASE p = <<n, b>>
      <3>1. headAt'[p[1]][p[2]] = stage
        BY <2>1, <1>1
      <3>2. QED
        BY <2>1, <3>1, <1>3
    <2>2. CASE p # <<n, b>>
      <3>1. headAt'[p[1]][p[2]] = headAt[p[1]][p[2]]
        BY <2>2, <1>1, <1>2
      <3>2. QED
        BY <2>2, <3>1, <1>3, <1>4
    <2>3. QED
      BY <2>1, <2>2
  <1>7. <<n, b>> \in Node \X Block
    OBVIOUS
  <1>8. QED
    BY <1>5, <1>6, <1>7

\* Moving a callback between stages that are both before or both after the insert
\* of its row changes nothing.
LEMMA PendingSame ==
    ASSUME TypeOK, NEW n \in Node, NEW b \in Block, NEW stage, NEW blocks,
           MoveHead(n, b, stage, blocks),
           headAt[n][b] \in {"detected", "event"} <=> stage \in {"detected", "event"}
    PROVE  Pending' = Pending
  <1>1. <<n, b>> \in Pending <=> stage \in {"detected", "event"}
    BY DEF Pending
  <1>2. QED
    BY <1>1, PendingStep

\* Every step keeps the count: a detection is counted when its row becomes
\* pending, and neither an insert nor a resolution changes the sum.
LEMMA NextRowCount ==
    TypeOK /\ DbEnabled /\ ~DbFails /\ RowCount /\ [Next]_vars => RowCount'
  <1> SUFFICES ASSUME TypeOK, DbEnabled, ~DbFails, RowCount, [Next]_vars
               PROVE  RowCount'
    OBVIOUS
  <1> USE DEF detectorVars, databaseVars
  <1>t. /\ forkEvents \in [Height -> [open : Nat, resolved : Nat]]
        /\ totalForkCount \in Nat
    BY DEF TypeOK, DetectorTypeOK
  <1>h. IsFiniteSet(Height)
    BY ChainAssumption, FS_Interval DEF Height
  <1>n. \A b \in Block : Number[b] \in Height
    BY NumberInHeight
  <1>r. RowsAt \in [Height -> Nat] /\ SumFunction(RowsAt) \in Nat
    <2>1. RowsAt \in [Height -> Nat]
      BY <1>t DEF RowsAt
    <2>2. QED
      BY <1>h, <2>1, SumIsNat
  <1>p. /\ IsFiniteSet(Pending) /\ Cardinality(Pending) \in Nat
        /\ SumFunction(RowsAt) + Cardinality(Pending) = totalForkCount
    BY FS_CardinalityType DEF RowCount
  <1>q. ASSUME Pending' = Pending, RowsAt' = RowsAt, UNCHANGED totalForkCount
        PROVE  RowCount'
    BY <1>p, <1>q DEF RowCount
  <1>1. ASSUME NEW n \in Node, NEW b \in Block, HeadForkDetected(n, b)
        PROVE  RowCount'
    <2>1. MoveHead(n, b, "detected", byHeight'[Number[b]]) /\ headAt[n][b] = "none"
      BY <1>1 DEF HeadForkDetected, MayAnnounce
    <2>2. Pending' = Pending \cup {<<n, b>>} /\ <<n, b>> \notin Pending
      <3>1. <<n, b>> \notin Pending
        BY <2>1 DEF Pending
      <3>2. QED
        BY <2>1, <3>1, PendingStep
    <2>3. IsFiniteSet(Pending') /\ Cardinality(Pending') = Cardinality(Pending) + 1
      BY <1>p, <2>2, FS_AddElement
    <2>4. totalForkCount' = totalForkCount + 1 /\ RowsAt' = RowsAt
      BY <1>1 DEF HeadForkDetected, RecordFork, RowsAt
    <2>5. QED
      BY <1>p, <1>r, <2>3, <2>4 DEF RowCount
  <1>2. ASSUME NEW n \in Node, NEW b \in Block, InsertForkEvent(n, b)
        PROVE  RowCount'
    <2>1. /\ MoveHead(n, b, "enrich", <<>>) /\ headAt[n][b] = "event"
          /\ forkEvents' = [forkEvents EXCEPT ![Number[b]].open = @ + 1]
          /\ UNCHANGED totalForkCount
      BY <1>2 DEF InsertForkEvent
    <2>2. Pending' = Pending \ {<<n, b>>} /\ <<n, b>> \in Pending
      <3>1. <<n, b>> \in Pending
        BY <2>1 DEF Pending
      <3>2. QED
        BY <2>1, <3>1, PendingStep
    <2>3. IsFiniteSet(Pending') /\ Cardinality(Pending') = Cardinality(Pending) - 1
      BY <1>p, <2>2, FS_RemoveElement
    <2>4. /\ RowsAt' \in [Height -> Nat]
          /\ RowsAt'[Number[b]] = RowsAt[Number[b]] + 1
          /\ \A h \in Height : h # Number[b] => RowsAt'[h] = RowsAt[h]
      <3>1. /\ forkEvents[Number[b]] \in [open : Nat, resolved : Nat]
            /\ forkEvents[Number[b]].open \in Nat /\ forkEvents[Number[b]].resolved \in Nat
        BY <1>n, <1>t
      <3>2. forkEvents'[Number[b]] = [forkEvents[Number[b]] EXCEPT !.open = @ + 1]
        BY <1>n, <1>t, <2>1, Zenon
      <3>3. \A h \in Height : h # Number[b] => forkEvents'[h] = forkEvents[h]
        BY <1>n, <1>t, <2>1, Zenon
      <3>4. /\ forkEvents'[Number[b]].open = forkEvents[Number[b]].open + 1
            /\ forkEvents'[Number[b]].resolved = forkEvents[Number[b]].resolved
        BY <3>1, <3>2
      <3>5. \A h \in Height : h # Number[b] => RowsAt'[h] = RowsAt[h]
        BY <3>3 DEF RowsAt
      <3>6. RowsAt'[Number[b]] = RowsAt[Number[b]] + 1
        <4>1. /\ RowsAt[Number[b]] = forkEvents[Number[b]].open + forkEvents[Number[b]].resolved
              /\ RowsAt'[Number[b]] = forkEvents'[Number[b]].open + forkEvents'[Number[b]].resolved
          BY <1>n, Zenon DEF RowsAt
        <4>2. QED
          BY <3>1, <3>4, <4>1
      <3>7. \A h \in Height : RowsAt'[h] \in Nat
        BY <1>r, <3>5, <3>6
      <3>8. RowsAt' = [h \in Height |-> RowsAt'[h]]
        BY DEF RowsAt
      <3>9. QED
        BY <3>5, <3>6, <3>7, <3>8
    <2>5. SumFunction(RowsAt') = SumFunction(RowsAt) + 1
      BY <1>h, <1>n, <1>r, <2>4, SumGrows
    <2>6. QED
      BY <1>p, <1>r, <2>1, <2>3, <2>5 DEF RowCount
  <1>3. ASSUME NEW n \in Node, NEW b \in Block,
               HeadKnown(n, b) \/ HeadAlone(n, b) \/ HeadForkUpdated(n, b)
        PROVE  RowCount'
    <2>1. PICK stage, blocks : MoveHead(n, b, stage, blocks) /\ stage \notin {"detected", "event"}
      BY <1>3 DEF HeadKnown, HeadAlone, HeadForkUpdated
    <2>2. headAt[n][b] \notin {"detected", "event"}
      BY <1>3 DEF HeadKnown, HeadAlone, HeadForkUpdated, MayAnnounce
    <2>3. Pending' = Pending
      BY <2>1, <2>2, PendingSame
    <2>4. UNCHANGED <<forkEvents, totalForkCount>>
      BY <1>3 DEF HeadKnown, HeadAlone, HeadForkUpdated
    <2>5. QED
      BY <1>q, <2>3, <2>4 DEF RowsAt
  <1>4. ASSUME NEW n \in Node, NEW b \in Block,
               InsertDetectedBlock(n, b) \/ InsertCompetingBlock(n, b) \/ HeadEnriched(n, b)
        PROVE  RowCount'
    <2>1. PICK stage, blocks :
              /\ MoveHead(n, b, stage, blocks)
              /\ headAt[n][b] \in {"detected", "event"} <=> stage \in {"detected", "event"}
      BY <1>4 DEF InsertDetectedBlock, InsertCompetingBlock, HeadEnriched
    <2>2. Pending' = Pending
      BY <2>1, PendingSame
    <2>3. UNCHANGED <<forkEvents, totalForkCount>>
      BY <1>4 DEF InsertDetectedBlock, InsertCompetingBlock, HeadEnriched
    <2>4. QED
      BY <1>q, <2>2, <2>3 DEF RowsAt
  <1>5. ASSUME NEW n \in Node, NEW b \in Block, FinalizedHead(n, b) \/ FinalizedHeadNoDb(n, b)
        PROVE  RowCount'
    <2>1. UNCHANGED <<headAt, forkEvents, totalForkCount>>
      BY <1>5 DEF FinalizedHead, FinalizedHeadNoDb, MarkResolved
    <2>2. QED
      BY <1>q, <2>1 DEF RowsAt, Pending
  <1>6. ASSUME NEW n \in Node, NEW b \in Block, FinalizedHeadResolved(n, b)
        PROVE  RowCount'
    <2>1. UNCHANGED <<headAt, totalForkCount>> /\ ResolveRows(Number[b])
      BY <1>6 DEF FinalizedHeadResolved
    <2>2. ASSUME NEW h \in Height
          PROVE  forkEvents'[h].open + forkEvents'[h].resolved = forkEvents[h].open + forkEvents[h].resolved
      <3>1. forkEvents[h].open \in Nat /\ forkEvents[h].resolved \in Nat
        BY <1>t
      <3>2. forkEvents'[h] = IF h <= Number[b]
                             THEN [open |-> 0, resolved |-> forkEvents[h].open + forkEvents[h].resolved]
                             ELSE forkEvents[h]
        BY <2>1 DEF ResolveRows
      <3>3. QED
        BY <3>1, <3>2
    <2>3. RowsAt' = RowsAt
      BY <2>2 DEF RowsAt
    <2>4. QED
      BY <1>q, <2>1, <2>3 DEF Pending
  <1>7. CASE UNCHANGED vars
    <2>1. UNCHANGED <<headAt, forkEvents, totalForkCount>>
      BY <1>7 DEF vars, handlerVars
    <2>2. QED
      BY <1>q, <2>1 DEF RowsAt, Pending
  <1>8. QED
    BY <1>1, <1>2, <1>3, <1>4, <1>5, <1>6, <1>7 DEF Next, Notified, HeadAnswered

\* With a database that does not fail, the fork_events rows, written and pending,
\* are exactly the forks counted since startup.
THEOREM EveryDetectionHasOneRow == DbEnabled /\ Spec => []OneRowPerDetection
  <1>1. Init => RowCount
    <2> SUFFICES ASSUME Init
                 PROVE  RowCount
      OBVIOUS
    <2>1. Pending = {}
      BY DEF Init, Pending
    <2>2. RowsAt \in [Height -> Nat] /\ \A h \in Height : RowsAt[h] = 0
      BY DEF Init, RowsAt
    <2>3. IsFiniteSet(Height)
      BY ChainAssumption, FS_Interval DEF Height
    <2>4. SumFunction(RowsAt) = 0
      BY <2>2, <2>3, SumOfZeros
    <2>5. IsFiniteSet(Pending) /\ Cardinality(Pending) = 0
      BY <2>1, FS_EmptySet
    <2>6. QED
      BY <2>4, <2>5 DEF Init, DetectorInit, RowCount
  <1>2. CASE DbFails
    <2>1. OneRowPerDetection
      BY <1>2 DEF OneRowPerDetection
    <2>2. QED
      BY <2>1, PTL
  <1>3. CASE DbEnabled /\ ~DbFails
    <2>1. TypeOK /\ RowCount /\ [Next]_vars => RowCount'
      BY <1>3, NextRowCount
    <2>2. RowCount => OneRowPerDetection
      BY DEF RowCount, OneRowPerDetection, RowsAt, Pending
    <2>3. QED
      BY <1>1, <2>1, <2>2, InitType, NextType, PTL DEF Spec
  <1>4. CASE ~DbEnabled
    BY <1>4
  <1>5. QED
    BY <1>2, <1>3, <1>4

=============================================================================
