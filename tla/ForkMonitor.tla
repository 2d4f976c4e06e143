----------------------------- MODULE ForkMonitor -----------------------------
(***************************************************************************)
(* The fork life cycle of one chain: the subscribeAllHeads and             *)
(* subscribeFinalizedHeads callbacks of src/src/chain/manager.js over the  *)
(* tree, the detector and the database.                                    *)
(*                                                                         *)
(* JavaScript runs a callback without interruption up to an await that     *)
(* really suspends.  Each action is one such stretch: it starts when a     *)
(* notification arrives or an awaited answer comes in, and ends at the     *)
(* next suspending await.  Between two stretches of one callback those of  *)
(* any other callback may run.  An await of an async function that does    *)
(* not itself suspend resumes before any other callback, so it does not    *)
(* end an action.                                                          *)
(***************************************************************************)
EXTENDS ForkDetector

CONSTANTS
    PruneAfter,  \* blocks kept below the finalized one (PRUNE_AFTER)
    DbEnabled,   \* whether a database is configured
    DbFails,     \* whether database statements may fail
    MaxAwaiting  \* bound: callbacks suspended in an await at once

ASSUME MonitorAssumption ==
    /\ PruneAfter \in Nat
    /\ DbEnabled \in BOOLEAN
    /\ DbFails \in BOOLEAN
    /\ MaxAwaiting \in Nat

VARIABLES
    headAt,         \* headAt[n][b]: where the allHeads callback of node n for b stands
    toInsert,       \* toInsert[n][b]: the blocks its insertForkBlock loop still has to write
    finalAt,        \* finalAt[n][b]: where the finalizedHeads callback stands
    nodeFinalized,  \* environment: the last block node n reported as final
    finalizedTip,   \* environment: the highest block any node reported as final
    forkBlocks,     \* fork_blocks: the hashes that have a row
    forkEvents,     \* fork_events: rows per height, unresolved and resolved
    bodyFetches     \* calls of txTracker.onNewBlock per hash

handlerVars == <<headAt, toInsert, finalAt>>
environmentVars == <<nodeFinalized, finalizedTip>>
databaseVars == <<forkBlocks, forkEvents>>

vars == <<treeVars, detectorVars, handlerVars, environmentVars, databaseVars, bodyFetches>>

\* "none" before the delivery; "done" when the callback has returned
HeadStage == {"none", "detected", "event", "updated", "enrich", "done"}

FinalStage == {"none", "resolving"}

TypeOK ==
    /\ TreeTypeOK
    /\ DetectorTypeOK
    /\ headAt \in [Node -> [Block -> HeadStage]]
    /\ toInsert \in [Node -> [Block -> Seq(Block)]]
    /\ finalAt \in [Node -> [Block -> FinalStage]]
    /\ nodeFinalized \in [Node -> Block \cup {NoBlock}]
    /\ finalizedTip \in Block \cup {NoBlock}
    /\ forkBlocks \subseteq Block
    /\ forkEvents \in [Height -> [open : Nat, resolved : Nat]]
    /\ bodyFetches \in [Block -> Nat]

Init ==
    /\ TreeInit
    /\ DetectorInit
    /\ headAt = [n \in Node |-> [b \in Block |-> "none"]]
    /\ toInsert = [n \in Node |-> [b \in Block |-> <<>>]]
    /\ finalAt = [n \in Node |-> [b \in Block |-> "none"]]
    /\ nodeFinalized = [n \in Node |-> NoBlock]
    /\ finalizedTip = NoBlock
    /\ forkBlocks = {}
    /\ forkEvents = [h \in Height |-> [open |-> 0, resolved |-> 0]]
    /\ bodyFetches = [b \in Block |-> 0]

-----------------------------------------------------------------------------
(* The nodes *)

\* b is an ancestor of c
Below(b, c) == b \in Lineage[c] \ {c}

\* fewer callbacks than the bound are suspended in an await
MayStart ==
    LET heads  == {p \in Node \X Block : headAt[p[1]][p[2]] \notin {"none", "done"}}
        finals == {p \in Node \X Block : finalAt[p[1]][p[2]] # "none"}
    IN  Cardinality(heads) + Cardinality(finals) < MaxAwaiting

\* A node announces a block once, after the ancestors it announces, and never
\* one that conflicts with what it has reported as final.  It may skip blocks
\* (the connection was down) and lag arbitrarily behind the other nodes.  A
\* repeated announcement after a new subscription finds the record or, when it
\* was pruned, does what the late announcement of another node does.
MayAnnounce(n, b) ==
    /\ headAt[n][b] = "none"
    /\ MayStart
    /\ \A c \in Block : Below(b, c) => headAt[n][c] = "none"
    /\ nodeFinalized[n] # NoBlock => Below(nodeFinalized[n], b)

\* All nodes finalize one chain.  A node may skip heights, and repeats its
\* last finalized head when it is subscribed to again.
MayFinalize(n, b) ==
    /\ finalAt[n][b] = "none"
    /\ MayStart
    /\ nodeFinalized[n] # NoBlock => nodeFinalized[n] \in Lineage[b]
    /\ finalizedTip # NoBlock => finalizedTip \in Lineage[b] \/ b \in Lineage[finalizedTip]

ReportFinal(n, b) ==
    /\ nodeFinalized' = [nodeFinalized EXCEPT ![n] = b]
    /\ finalizedTip' = IF finalizedTip # NoBlock /\ b \in Lineage[finalizedTip]
                       THEN finalizedTip ELSE b

-----------------------------------------------------------------------------
(* The allHeads callback *)

MoveHead(n, b, stage, blocks) ==
    /\ headAt' = [headAt EXCEPT ![n][b] = stage]
    /\ toInsert' = [toInsert EXCEPT ![n][b] = blocks]

FetchBody(b) == bodyFetches' = [bodyFetches EXCEPT ![b] = @ + 1]

\* A variant with a plausible mistake: the body is fetched without asking isNew.
HeadKnownFetched(n, b) ==
    /\ MayAnnounce(n, b)
    /\ AddKnownBlock(b, n)
    /\ MoveHead(n, b, "done", <<>>)
    /\ FetchBody(b)
    /\ UNCHANGED <<finalizedHeight, detectorVars, finalAt, environmentVars, databaseVars>>

\* a hash that is in the tree already: only seenByNodes changes
HeadKnown(n, b) ==
    /\ MayAnnounce(n, b)
    /\ AddKnownBlock(b, n)
    /\ MoveHead(n, b, "done", <<>>)
    /\ UNCHANGED <<finalizedHeight, detectorVars, finalAt, environmentVars,
                   databaseVars, bodyFetches>>

\* the only block at its height: no fork, the body is fetched
HeadAlone(n, b) ==
    /\ MayAnnounce(n, b)
    /\ AddNewBlock(b, n)
    /\ Len(byHeight'[Number[b]]) <= 1
    /\ MoveHead(n, b, "done", <<>>)
    /\ FetchBody(b)
    /\ UNCHANGED <<finalizedHeight, detectorVars, finalAt, environmentVars, databaseVars>>

\* a competing block at a height with no recorded fork: onForkDetected takes
\* the blocks of the height and starts to insert them
HeadForkDetected(n, b) ==
    /\ MayAnnounce(n, b)
    /\ AddNewBlock(b, n)
    /\ Len(byHeight'[Number[b]]) > 1
    /\ Number[b] \notin recordedForks
    /\ RecordFork(Number[b])
    /\ IF DbEnabled
       THEN MoveHead(n, b, "detected", byHeight'[Number[b]])
       ELSE MoveHead(n, b, "enrich", <<>>)
    /\ UNCHANGED <<finalizedHeight, finalAt, environmentVars, databaseVars, bodyFetches>>

\* A variant: the first block of the height is taken for the latest.
HeadForkUpdatedFirst(n, b) ==
    /\ MayAnnounce(n, b)
    /\ AddNewBlock(b, n)
    /\ Len(byHeight'[Number[b]]) > 1
    /\ Number[b] \in recordedForks
    /\ IF DbEnabled
       THEN MoveHead(n, b, "updated", <<Head(byHeight'[Number[b]])>>)
       ELSE MoveHead(n, b, "enrich", <<>>)
    /\ UNCHANGED <<finalizedHeight, detectorVars, finalAt, environmentVars,
                   databaseVars, bodyFetches>>

\* a further competing block: onForkUpdated inserts the last block of the height
HeadForkUpdated(n, b) ==
    /\ MayAnnounce(n, b)
    /\ AddNewBlock(b, n)
    /\ Len(byHeight'[Number[b]]) > 1
    /\ Number[b] \in recordedForks
    /\ IF DbEnabled
       THEN LET blocks == byHeight'[Number[b]]
            IN  MoveHead(n, b, "updated", <<blocks[Len(blocks)]>>)
       ELSE MoveHead(n, b, "enrich", <<>>)
    /\ UNCHANGED <<finalizedHeight, detectorVars, finalAt, environmentVars,
                   databaseVars, bodyFetches>>

\* a row is written, or the statement fails and the error is logged
InsertRow(b) ==
    \/ forkBlocks' = forkBlocks \cup {b}
    \/ DbFails /\ UNCHANGED forkBlocks

\* A variant: the inserts are abandoned when the fork was resolved meanwhile.
InsertDetectedBlockIfRecorded(n, b) ==
    /\ headAt[n][b] = "detected"
    /\ InsertRow(Head(toInsert[n][b]))
    /\ IF Number[b] \notin recordedForks
       THEN MoveHead(n, b, "enrich", <<>>)
       ELSE MoveHead(n, b, IF Len(toInsert[n][b]) = 1 THEN "event" ELSE "detected",
                     Tail(toInsert[n][b]))
    /\ UNCHANGED <<treeVars, detectorVars, finalAt, environmentVars, forkEvents, bodyFetches>>

\* one insertForkBlock of onForkDetected's loop is answered; after the last
\* one insertForkEvent is called
InsertDetectedBlock(n, b) ==
    /\ headAt[n][b] = "detected"
    /\ InsertRow(Head(toInsert[n][b]))
    /\ MoveHead(n, b, IF Len(toInsert[n][b]) = 1 THEN "event" ELSE "detected",
                Tail(toInsert[n][b]))
    /\ UNCHANGED <<treeVars, detectorVars, finalAt, environmentVars, forkEvents, bodyFetches>>

\* A variant: a failed insertForkEvent ends the callback.
InsertForkEventUncaught(n, b) ==
    /\ headAt[n][b] = "event"
    /\ \/ /\ forkEvents' = [forkEvents EXCEPT ![Number[b]].open = @ + 1]
          /\ MoveHead(n, b, "enrich", <<>>)
       \/ /\ DbFails
          /\ UNCHANGED forkEvents
          /\ MoveHead(n, b, "done", <<>>)
    /\ UNCHANGED <<treeVars, detectorVars, finalAt, environmentVars, forkBlocks, bodyFetches>>

\* insertForkEvent is answered; the row is unresolved
InsertForkEvent(n, b) ==
    /\ headAt[n][b] = "event"
    /\ \/ forkEvents' = [forkEvents EXCEPT ![Number[b]].open = @ + 1]
       \/ DbFails /\ UNCHANGED forkEvents
    /\ MoveHead(n, b, "enrich", <<>>)
    /\ UNCHANGED <<treeVars, detectorVars, finalAt, environmentVars, forkBlocks, bodyFetches>>

\* onForkUpdated's only insertForkBlock is answered
InsertCompetingBlock(n, b) ==
    /\ headAt[n][b] = "updated"
    /\ InsertRow(Head(toInsert[n][b]))
    /\ MoveHead(n, b, "enrich", <<>>)
    /\ UNCHANGED <<treeVars, detectorVars, finalAt, environmentVars, forkEvents, bodyFetches>>

\* cause analysis and author enrichment are over, whatever they found; the
\* callback ends with the body fetch
HeadEnriched(n, b) ==
    /\ headAt[n][b] = "enrich"
    /\ MoveHead(n, b, "done", <<>>)
    /\ FetchBody(b)
    /\ UNCHANGED <<treeVars, detectorVars, finalAt, environmentVars, databaseVars>>

-----------------------------------------------------------------------------
(* The finalizedHeads callback *)

\* everything before `await resolveForkEvent`
FinalizedHead(n, b) ==
    /\ DbEnabled
    /\ MayFinalize(n, b)
    /\ ReportFinal(n, b)
    /\ AdvanceFinalized(Number[b])
    /\ MarkResolved(Number[b])
    /\ recordedForks' = DropThrough(recordedForks, Number[b])
    /\ finalAt' = [finalAt EXCEPT ![n][b] = "resolving"]
    /\ UNCHANGED <<byHeight, byHash, bestHeight, headAt, toInsert, databaseVars, bodyFetches>>

\* Variants: the UPDATE has no bound on block_number, or a strict one.
ResolveRowsUnbounded(k) ==
    forkEvents' = [h \in Height |->
        [open |-> 0, resolved |-> forkEvents[h].open + forkEvents[h].resolved]]

ResolveRowsBelow(k) ==
    forkEvents' = [h \in Height |->
        IF h < k
        THEN [open |-> 0, resolved |-> forkEvents[h].open + forkEvents[h].resolved]
        ELSE forkEvents[h]]

\* the UPDATE of resolveForkEvent: every unresolved row at or below k
ResolveRows(k) ==
    forkEvents' = [h \in Height |->
        IF h <= k
        THEN [open |-> 0, resolved |-> forkEvents[h].open + forkEvents[h].resolved]
        ELSE forkEvents[h]]

\* the UPDATE is answered and the callback prunes, with the number it was
\* called with
FinalizedHeadResolved(n, b) ==
    /\ finalAt[n][b] = "resolving"
    /\ ResolveRows(Number[b]) \/ (DbFails /\ UNCHANGED forkEvents)
    /\ Prune(Number[b] - PruneAfter)
    /\ recordedForks' = DropThrough(recordedForks, Number[b] - PruneAfter)
    /\ finalAt' = [finalAt EXCEPT ![n][b] = "none"]
    /\ UNCHANGED <<finalizedHeight, recentForks, totalForkCount, activeForkHeights,
                   headAt, toInsert, environmentVars, forkBlocks, bodyFetches>>

\* without a database nothing suspends and the callback is one stretch
FinalizedHeadNoDb(n, b) ==
    /\ ~DbEnabled
    /\ MayFinalize(n, b)
    /\ ReportFinal(n, b)
    /\ AdvanceFinalized(Number[b])
    /\ MarkResolved(Number[b])
    /\ recordedForks' = DropThrough(DropThrough(recordedForks, Number[b]),
                                    Number[b] - PruneAfter)
    /\ Prune(Number[b] - PruneAfter)
    /\ UNCHANGED <<headAt, toInsert, finalAt, databaseVars, bodyFetches>>

-----------------------------------------------------------------------------

\* the stretches of an allHeads callback that an answer starts
HeadAnswered(n, b) ==
    \/ InsertDetectedBlock(n, b)
    \/ InsertForkEvent(n, b)
    \/ InsertCompetingBlock(n, b)
    \/ HeadEnriched(n, b)

\* the stretches a notification of a node starts
Notified(n, b) ==
    \/ HeadKnown(n, b)
    \/ HeadAlone(n, b)
    \/ HeadForkDetected(n, b)
    \/ HeadForkUpdated(n, b)
    \/ FinalizedHead(n, b)
    \/ FinalizedHeadNoDb(n, b)

Next == \E n \in Node, b \in Block :
    Notified(n, b) \/ HeadAnswered(n, b) \/ FinalizedHeadResolved(n, b)

Spec == Init /\ [][Next]_vars

\* every statement and every lookup is answered, by a result or an error
AnswerFairness ==
    \A n \in Node, b \in Block :
        WF_vars(HeadAnswered(n, b)) /\ WF_vars(FinalizedHeadResolved(n, b))

\* the chain keeps finalizing: time and again some node reports a head at
\* least as high as any before
FinalityFairness ==
    SF_vars(\E n \in Node, b \in Block : Number[b] >= finalizedHeight /\ FinalizedHead(n, b))

\* a database that fails now and then does not fail the UPDATE of all of these
UpdateFairness ==
    SF_vars(\E n \in Node, b \in Block :
                /\ Number[b] >= finalizedHeight
                /\ FinalizedHeadResolved(n, b)
                /\ ResolveRows(Number[b]))

FairSpec == Spec /\ AnswerFairness /\ UpdateFairness /\ FinalityFairness

-----------------------------------------------------------------------------
(* Safety properties *)

\* Every height above the finalized one that has competing blocks in the tree
\* is in recordedForks, so it is in the gauge and will be resolved: neither a
\* lagging node's finality nor a late prune makes the monitor forget it.
UnresolvedForksRecorded ==
    \A h \in ForkedHeights : h > finalizedHeight => h \in recordedForks

\* A recorded fork is never without its competing blocks: prune removes blocks
\* and recorded heights together, although the tree and the detector are
\* pruned by separate calls after an await.
RecordedAreForked == recordedForks \subseteq ForkedHeights

\* The gauge never shows fewer forks than are recorded as unresolved.
GaugeNeverUndercounts == activeForkHeights >= Cardinality(recordedForks)

\* The help text of active_fork_heights: it is the number of currently
\* unresolved forked heights.  True without a database, where the
\* finalizedHeads callback does not suspend.  With one, a fork that is recorded
\* during the await and pruned after it stays in the gauge forever.
ActiveGaugeExact == activeForkHeights = Cardinality(recordedForks)

\* The ring buffer the API serves agrees with recordedForks: the newest entry
\* of a recorded height is unresolved, an entry is only resolved once its
\* height is final, and a fork above the finalized height is not left
\* unresolved in the buffer once it is forgotten.
RingAgrees ==
    \A i \in DOMAIN recentForks :
        LET h == recentForks[i].height
        IN  /\ recentForks[i].resolved => h <= finalizedHeight
            /\ IsNewestEntry(i, h) /\ h \in recordedForks => ~recentForks[i].resolved
            /\ ~recentForks[i].resolved /\ h > finalizedHeight => h \in recordedForks

\* b is in the insert loop of some callback
InsertPending(b) ==
    \E n \in Node, c \in Block : \E i \in DOMAIN toInsert[n][c] : toInsert[n][c][i] = b

\* fork_blocks holds "every block at forked heights": unless statements fail,
\* each block of a forked height has its row or is in some callback's insert
\* loop, although each callback writes only a snapshot (onForkDetected) or
\* only the latest block (onForkUpdated).
ForkBlocksPersisted ==
    ~DbFails => \A b \in Block :
        InTree(b) /\ Forked(Number[b]) => b \in forkBlocks \/ InsertPending(b)

\* a fork event at height h is recorded but its row is not written yet
EventPending(h) ==
    \E n \in Node, b \in Block : Number[b] = h /\ headAt[n][b] \in {"detected", "event"}

\* The database never shows an unresolved fork as resolved: a recorded height
\* above the finalized one has an unresolved fork_events row or one that is
\* about to be written.
RecordedForkHasOpenRow ==
    ~DbFails => \A h \in recordedForks :
        h > finalizedHeight => forkEvents[h].open > 0 \/ EventPending(h)

\* Each detection writes exactly one fork_events row, whatever is finalized or
\* pruned before its inserts are answered: rows and pending rows together are
\* the forks counted since startup.
OneRowPerDetection ==
    ~DbFails =>
        LET rows(h) == forkEvents[h].open + forkEvents[h].resolved
            pending == {p \in Node \X Block : headAt[p[1]][p[2]] \in {"detected", "event"}}
        IN  SumFunction([h \in Height |-> rows(h)]) + Cardinality(pending) = totalForkCount

\* Comment at the body fetch: a block's body is fetched exactly once per unique
\* hash.  True of every height that cannot have been pruned yet, however many
\* nodes deliver the block; below, a late delivery is a new block again.
BodyFetchedOnceInWindow ==
    \A b \in Block : Number[b] > finalizedHeight - PruneAfter => bodyFetches[b] <= 1

-----------------------------------------------------------------------------
(* Refinement *)

\* the detections at height h whose fork_events row is still to be inserted
Unwritten(h) ==
    {p \in Node \X Block : Number[p[2]] = h /\ headAt[p[1]][p[2]] \in {"detected", "event"}}

Lifecycle == INSTANCE ForkLifecycle WITH
    Detection <- Node \X Block,
    final <- finalizedHeight,
    unresolved <- recordedForks,
    detected <- totalForkCount,
    unwritten <- [h \in Height |-> Unwritten(h)],
    rows <- forkEvents

\* What the detector remembers and the database holds of forks follows the life
\* cycle of ForkLifecycle, whichever callbacks stand between a detection, its
\* row and its resolution.
ImplementsLifecycle == Lifecycle!Spec

-----------------------------------------------------------------------------
(* Action properties *)

\* A fork leaves recordedForks only when its height is final.
ForgetOnlyFinalized ==
    [][\A h \in recordedForks \ recordedForks' : h <= finalizedHeight']_vars

\* The tree keeps the last PruneAfter heights below the finalized one: a
\* callback that prunes with a number other callbacks have overtaken during
\* its await never removes more than the newest one would.
PruneKeepsWindow ==
    [][\A b \in Block : InTree(b) /\ ~InTree(b)' => Number[b] <= finalizedHeight' - PruneAfter]_vars

-----------------------------------------------------------------------------
(* Liveness *)

\* A fork_events row at a finalized height is eventually resolved, also when
\* it was inserted after the UPDATE of the callback that finalized its height.
RowsEventuallyResolved ==
    \A h \in Height :
        (forkEvents[h].open > 0 /\ h <= finalizedHeight) ~> (forkEvents[h].open = 0)

\* Every block that enters the tree has its body fetched, however many
\* statements its fork handling waits for.
BodyEventuallyFetched == \A b \in Block : InTree(b) ~> bodyFetches[b] > 0

=============================================================================
