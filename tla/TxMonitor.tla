------------------------------- MODULE TxMonitor -------------------------------
(***************************************************************************)
(* The transaction tracker at work: the callbacks of                       *)
(* src/src/chain/manager.js that drive it, the header store it reads, the  *)
(* getBlock calls in flight, the mempool polls and the retry timers.       *)
(*                                                                         *)
(* As in ForkMonitor, an action is a stretch between two awaits that       *)
(* suspend.  Fork handling and the UPDATE of a finalized head appear as    *)
(* waits of any length: ForkMonitor says what happens in them.             *)
(***************************************************************************)
EXTENDS TxTracker

CONSTANTS
    PruneAfter,  \* blocks kept below the finalized one
    Orderly,     \* whether the nodes' feed is complete and in time
    PoolTx       \* the transactions that may be seen in a pool

ASSUME FeedAssumption ==
    /\ PruneAfter \in Nat
    /\ Orderly \in BOOLEAN
    /\ PoolTx \subseteq Tx

VARIABLES
    bodyAt,       \* where the fetch of a block's body stands
    awaitPrune,   \* finalized numbers whose callback waits for its UPDATE
    finalizedTip  \* environment: the highest block reported as final

monitorVars == <<bodyAt, awaitPrune, finalizedTip>>

vars == <<treeVars, trackerVars, monitorVars>>

\* "forked": the callback is still busy with the fork; "lost": getBlock failed
BodyStage == {"none", "forked", "getBlock", "captured", "lost"}

TypeOK ==
    /\ TreeTypeOK
    /\ TrackerTypeOK
    /\ bodyAt \in [Block -> BodyStage]
    /\ awaitPrune \subseteq Height
    /\ finalizedTip \in Block \cup {NoBlock}

Init ==
    /\ TreeInit
    /\ TrackerInit
    /\ bodyAt = [b \in Block |-> "none"]
    /\ awaitPrune = {}
    /\ finalizedTip = NoBlock

-----------------------------------------------------------------------------
(* The feed *)

BodyPending(b) == bodyAt[b] \in {"forked", "getBlock"}

\* In an orderly feed a block comes after its parent and before its height is
\* final; otherwise in any order, and again after it was pruned.
MayAnnounce(b) ==
    /\ ~BodyPending(b)
    /\ Orderly => /\ bodyAt[b] = "none"
                  /\ Parent[b] \in Block => bodyAt[Parent[b]] # "none"
                  /\ Number[b] > finalizedHeight

\* All nodes finalize one chain; a lagging node repeats lower blocks of it.
\* In an orderly feed every block up to that height was captured before.
MayFinalize(b) ==
    /\ Number[b] \notin awaitPrune
    /\ finalizedTip # NoBlock => finalizedTip \in Lineage[b] \/ b \in Lineage[finalizedTip]
    /\ Orderly => /\ bodyAt[b] # "none"
                  /\ \A c \in Block : Number[c] <= Number[b] => ~BodyPending(c)

\* the first finalized head of an orderly feed is not above a block it has brought:
\* the walk from it covers that block only
FirstFinal(b) ==
    Orderly /\ lastCanonicalWalkHeight = -1 =>
        \A c \in Block : bodyAt[c] # "none" => Number[b] <= Number[c]

-----------------------------------------------------------------------------
(* Actions *)

MoveBody(b, stage) == bodyAt' = [bodyAt EXCEPT ![b] = stage]

HeadKnown(n, b) ==
    /\ AddKnownBlock(b, n)
    /\ UNCHANGED <<finalizedHeight, trackerVars, monitorVars>>

\* a block that is alone at its height: onNewBlock is called at once
HeadAlone(n, b) ==
    /\ MayAnnounce(b)
    /\ AddNewBlock(b, n)
    /\ ~Forked(Number[b])'
    /\ NoteHeight(b)
    /\ MoveBody(b, "getBlock")
    /\ UNCHANGED <<finalizedHeight, blockExtrinsics, processedForkHeights,
                   lastCanonicalWalkHeight, latestBySignerNonce, includedHashes, pendingPool,
                   missingCandidates, pendingReorgReview, finalizedHashes, everRetried,
                   resubmitRetryTimers, submittedTxs, resubmissions, confirmations,
                   awaitPrune, finalizedTip>>

\* a competing block: the fork is handled first
HeadForked(n, b) ==
    /\ MayAnnounce(b)
    /\ AddNewBlock(b, n)
    /\ Forked(Number[b])'
    /\ MoveBody(b, "forked")
    /\ UNCHANGED <<finalizedHeight, trackerVars, awaitPrune, finalizedTip>>

\* fork handling is over and onNewBlock is called
ForkHandled(b) ==
    /\ bodyAt[b] = "forked"
    /\ NoteHeight(b)
    /\ MoveBody(b, "getBlock")
    /\ UNCHANGED <<treeVars, blockExtrinsics, processedForkHeights,
                   lastCanonicalWalkHeight, latestBySignerNonce, includedHashes, pendingPool,
                   missingCandidates, pendingReorgReview, finalizedHashes, everRetried,
                   resubmitRetryTimers, submittedTxs, resubmissions, confirmations,
                   awaitPrune, finalizedTip>>

BodyArrives(b) ==
    /\ bodyAt[b] = "getBlock"
    /\ CaptureBody(b)
    /\ MoveBody(b, "captured")
    /\ UNCHANGED <<treeVars, processedForkHeights, lastCanonicalWalkHeight, lastKnownHeight,
                   latestBySignerNonce, pendingPool, missingCandidates, pendingReorgReview,
                   finalizedHashes, everRetried, resubmitRetryTimers, submittedTxs,
                   resubmissions, confirmations, awaitPrune, finalizedTip>>

\* getBlock fails and nothing is captured
BodyFails(b) ==
    /\ ~Orderly
    /\ bodyAt[b] = "getBlock"
    /\ MoveBody(b, "lost")
    /\ UNCHANGED <<treeVars, trackerVars, awaitPrune, finalizedTip>>

\* the finalizedHeads callback before its await
FinalizedHead(b, connected) ==
    /\ MayFinalize(b)
    /\ FirstFinal(b)
    /\ AdvanceFinalized(Number[b])
    /\ TrackerFinalized(b, connected)
    /\ awaitPrune' = awaitPrune \cup {Number[b]}
    /\ finalizedTip' = IF finalizedTip # NoBlock /\ b \in Lineage[finalizedTip]
                       THEN finalizedTip ELSE b
    /\ UNCHANGED <<byHeight, byHash, bestHeight, bodyAt>>

\* and after it
FinalizedHeadResolved(k) ==
    /\ k \in awaitPrune
    /\ Prune(k - PruneAfter)
    /\ PruneTracker(k - PruneAfter)
    /\ awaitPrune' = awaitPrune \ {k}
    /\ UNCHANGED <<finalizedHeight, bodyAt, finalizedTip>>

\* A poll is answered with some node's pool.  Polls may overlap and nodes
\* differ, so an answer says nothing about the one before.
PoolPolled(pool, connected) ==
    /\ PoolAnswered(pool, connected)
    /\ UNCHANGED <<treeVars, monitorVars>>

RetryTimer(t, connected) ==
    /\ RetryTick(t, connected)
    /\ UNCHANGED <<treeVars, monitorVars>>

Next ==
    \/ \E n \in Node, b \in Block : HeadKnown(n, b) \/ HeadAlone(n, b) \/ HeadForked(n, b)
    \/ \E b \in Block : ForkHandled(b) \/ BodyArrives(b) \/ BodyFails(b)
    \/ \E b \in Block, connected \in BOOLEAN : FinalizedHead(b, connected)
    \/ \E k \in Height : FinalizedHeadResolved(k)
    \/ \E pool \in SUBSET PoolTx, connected \in BOOLEAN :
          PoolTx # {} /\ PoolPolled(pool, connected)
    \/ \E t \in Tx, connected \in BOOLEAN : RetryTimer(t, connected)

Spec == Init /\ [][Next]_vars

-----------------------------------------------------------------------------
(* Safety properties, whatever the feed *)

\* b is on the finalized chain, as far as any node has reported it
OnFinalChain(b) == finalizedTip # NoBlock /\ b \in Lineage[finalizedTip]

\* A losing block's own transactions never look like their resubmission: what
\* latestBySignerNonce holds for a key is in a block of the finalized chain,
\* although the bodies of all competing blocks are captured alike and lagging
\* nodes finalize again what was walked and pruned.
CanonicalOnlyFromFinalized ==
    \A k \in SignerNonce :
        LET t == latestBySignerNonce[k]
        IN  t # NoInclusion => Key[t] = k /\ \E b \in Block : OnFinalChain(b) /\ t \in Body[b]

\* A hash is reported at most once, although the pool and any number of losing
\* blocks lead to it (below the cap of finalizedHashes).
OneOutcomePerTx ==
    Cardinality(Tx) <= MaxHashes => \A t \in Tx : Len(submittedTxs[t]) <= 1

\* One retry lifecycle per hash, ever: no hash is submitted more often than one
\* loop may, although it can be lost from the pool and from several blocks and
\* its loop may be stopped by pruning or by a reappearance in between.
OneRetryLifecycle ==
    Cardinality(Tx) <= MaxHashes => \A t \in Tx : resubmissions[t] <= MaxResubmitRetries

\* A confirmation is what it says: the hash was submitted by the monitor and
\* is canonical, and it is confirmed once.
ConfirmedMeansRescued ==
    \A t \in Tx : confirmations[t] > 0 =>
        /\ confirmations[t] = 1
        /\ resubmissions[t] > 0
        /\ InclusionFor(latestBySignerNonce, t) = t

\* The candidates and the snapshot agree: a candidate has been seen again since
\* it vanished exactly when the previous poll saw it, and it is given up as a
\* candidate before it was seen ReappearPolls times in a row.
StreakMatchesPool ==
    \A t \in DOMAIN missingCandidates :
        /\ (t \in pendingPool) <=> (missingCandidates[t].streak > 0)
        /\ missingCandidates[t].streak < ReappearPolls

\* t is reported in this step
Reported(t) == Len(submittedTxs'[t]) > Len(submittedTxs[t])

\* A transaction is never reported as dropped when some block that contains it
\* was captured, on whatever branch and however long ago it was pruned.
DroppedOnlyIfUnseen ==
    [][\A t \in Tx : Reported(t) /\ submittedTxs'[t][Len(submittedTxs'[t])] = "dropped" =>
           \A b \in Block : t \in Body[b] => bodyAt[b] # "captured"]_vars

-----------------------------------------------------------------------------
(* What an orderly feed adds *)

\* Test of the same name: the winning block at a forked height is never treated
\* as a loss.  It needs the chain from the finalized block down to the height.
WinnerNeverReviewed == \A e \in pendingReorgReview : ~OnFinalChain(e.block)

\* No false alarm: what is reported, for whatever reason, is not included in
\* the chain finalized so far.
AlertsAreReal ==
    [][\A t \in Tx : Reported(t) /\ Key[t] # NoKey =>
           ~\E b \in Block : OnFinalChain(b)' /\ Number[b] <= finalizedHeight' /\ t \in Body[b]]_vars

\* No transaction of a losing block goes unnoticed: once its height is final it
\* is under review, was reported, or is included in the finalized chain.
LosersAccounted ==
    \A b \in Block : \A t \in Body[b] :
        bodyAt[b] = "captured" /\ Number[b] <= finalizedHeight /\ ~OnFinalChain(b) =>
            \/ \E e \in pendingReorgReview : e.tx = t
            \/ submittedTxs[t] # <<>>
            \/ \E c \in Block : OnFinalChain(c) /\ t \in Body[c]

=============================================================================
