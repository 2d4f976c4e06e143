------------------------------- MODULE TxTracker -------------------------------
(***************************************************************************)
(* What src/src/monitor/tx-tracker.js keeps about the transactions of one  *)
(* chain, and the synchronous parts of its methods.  TxMonitor composes    *)
(* them with the header store and the awaits.                              *)
(*                                                                         *)
(* A transaction stands for its hash.  What its bytes say (signer and      *)
(* nonce, the era's death) and what a block contains never changes, so     *)
(* these are constants.  A Map from hashes is a function whose domain is   *)
(* the set of the hashes in the Map.                                       *)
(***************************************************************************)
EXTENDS BlockTree

CONSTANTS
    Tx,                  \* the hashes of the tracked transactions
    SignerNonce,         \* the "signer:nonce" keys
    NoKey,               \* an ethereum transaction whose sender was not recovered
    Key,                 \* the key of a transaction
    Death,               \* era.death; beyond MaxHeight when there is no mortal era
    Body,                \* the tracked transactions of a block
    NoInclusion,         \* no entry in latestBySignerNonce
    GraceBlocks,         \* reorgGracePeriodBlocks
    DropGracePolls,      \* polls before a vanished transaction is a drop candidate
    DropMaxWaitPolls,    \* polls before a candidate is reported
    ReappearPolls,       \* consecutive polls in which it must be seen again
    MaxHashes,           \* MAX_FINALIZED_HASHES
    ResubmitEnabled,     \* whether lost transactions are submitted again
    MaxResubmitRetries

ASSUME TxAssumption ==
    /\ IsFiniteSet(Tx)
    /\ Key \in [Tx -> SignerNonce \cup {NoKey}]
    /\ NoKey \notin SignerNonce
    /\ Death \in [Tx -> Nat]
    /\ Body \in [Block -> SUBSET Tx]
    /\ NoInclusion \notin Tx
    /\ {GraceBlocks, DropGracePolls, DropMaxWaitPolls, MaxResubmitRetries} \subseteq Nat
    /\ {ReappearPolls, MaxHashes} \subseteq Nat \ {0}
    /\ ResubmitEnabled \in BOOLEAN
    \* a chain uses a nonce once
    /\ \A b \in Block : \A c \in Lineage[b] : \A t \in Body[b], u \in Body[c] :
          Key[t] = Key[u] /\ Key[t] # NoKey => t = u /\ b = c

VARIABLES
    blockExtrinsics,         \* the blocks whose body is captured
    processedForkHeights,    \* forked heights already queued for review
    lastCanonicalWalkHeight, \* -1 for null
    lastKnownHeight,
    latestBySignerNonce,     \* the transaction confirmed canonical for a key
    includedHashes,          \* hashes seen in any captured block
    pendingPool,             \* the previous poll's snapshot
    missingCandidates,       \* Map: hash -> what is known of a vanished transaction
    pendingReorgReview,      \* transactions of losing blocks in their grace period
    finalizedHashes,         \* hashes that were reported
    everRetried,             \* hashes that were ever given a retry loop
    resubmitRetryTimers,     \* Map: hash -> [attempts, lostAtHeight] of its retry loop
    submittedTxs,            \* the statuses reported for each hash, in order
    resubmissions,           \* attempts to submit each hash, since startup
    confirmations            \* resubmissions recorded as confirmed, per hash

trackerVars == <<blockExtrinsics, processedForkHeights, lastCanonicalWalkHeight,
                 lastKnownHeight, latestBySignerNonce, includedHashes, pendingPool,
                 missingCandidates, pendingReorgReview, finalizedHashes, everRetried,
                 resubmitRetryTimers, submittedTxs, resubmissions, confirmations>>

Status == {"dropped", "expired", "resubmitted", "reorged_lost", "reorged_resubmitted"}

Candidate == [polls : Nat, streak : Nat, lostAtHeight : Height]

RetryLoop == [attempts : Nat, lostAtHeight : Height]

ReviewEntry == [tx : Tx, block : Block]

TrackerTypeOK ==
    /\ blockExtrinsics \subseteq Block
    /\ processedForkHeights \subseteq Height
    /\ lastCanonicalWalkHeight \in Height \cup {-1}
    /\ lastKnownHeight \in Height
    /\ latestBySignerNonce \in [SignerNonce -> Tx \cup {NoInclusion}]
    /\ includedHashes \subseteq Tx
    /\ pendingPool \subseteq Tx
    /\ DOMAIN missingCandidates \subseteq Tx
    /\ \A t \in DOMAIN missingCandidates : missingCandidates[t] \in Candidate
    /\ pendingReorgReview \subseteq ReviewEntry
    /\ finalizedHashes \subseteq Tx
    /\ everRetried \subseteq Tx
    /\ DOMAIN resubmitRetryTimers \subseteq Tx
    /\ \A t \in DOMAIN resubmitRetryTimers : resubmitRetryTimers[t] \in RetryLoop
    /\ submittedTxs \in [Tx -> Seq(Status)]
    /\ resubmissions \in [Tx -> Nat]
    /\ confirmations \in [Tx -> Nat]

TrackerInit ==
    /\ blockExtrinsics = {}
    /\ processedForkHeights = {}
    /\ lastCanonicalWalkHeight = -1
    /\ lastKnownHeight = 0
    /\ latestBySignerNonce = [k \in SignerNonce |-> NoInclusion]
    /\ includedHashes = {}
    /\ pendingPool = {}
    /\ missingCandidates = <<>>
    /\ pendingReorgReview = {}
    /\ finalizedHashes = {}
    /\ everRetried = {}
    /\ resubmitRetryTimers = <<>>
    /\ submittedTxs = [t \in Tx |-> <<>>]
    /\ resubmissions = [t \in Tx |-> 0]
    /\ confirmations = [t \in Tx |-> 0]

-----------------------------------------------------------------------------
(* Helpers *)

Later(h, k) == IF h > k THEN h ELSE k

\* the canonical inclusion of t's signer and nonce, as far as `latest` knows
InclusionFor(latest, t) == IF Key[t] = NoKey THEN NoInclusion ELSE latest[Key[t]]

\* findResubmission: the key was used by a different transaction
ReplacedIn(latest, t) == InclusionFor(latest, t) \notin {NoInclusion, t}

Expired(t, known) == known >= Death[t]

\* A variant of Remember with a plausible mistake: the set is replaced.
RememberNew(hashes, new) == {new}

\* The sets finalizedHashes and everRetried may become when `new` hashes are
\* added one by one in any order: the set is cleared whenever it is full.
Remember(hashes, new) ==
    IF Cardinality(hashes \cup new) <= MaxHashes
    THEN {hashes \cup new}
    ELSE {kept \in SUBSET new : kept # {} /\ Cardinality(kept) <= MaxHashes}

\* finalize for each of the transactions, unless it was reported before;
\* status is a function on them
Finalize(txs, status) ==
    LET new == txs \ finalizedHashes
    IN  /\ finalizedHashes' \in Remember(finalizedHashes, new)
        /\ submittedTxs' = [t \in Tx |-> IF t \in new THEN Append(submittedTxs[t], status[t])
                                         ELSE submittedTxs[t]]

-----------------------------------------------------------------------------
(* Retry loops *)

\* whether a tick submits rather than stops the loop
MaySubmit(t, attempts, latest, known) ==
    /\ InclusionFor(latest, t) = NoInclusion
    /\ ~Expired(t, known)
    /\ attempts < MaxResubmitRetries

\* A variant: a hash may get another loop once its first one has stopped.
MayRetryAgain(t) ==
    /\ ResubmitEnabled
    /\ Key[t] # NoKey
    /\ t \notin DOMAIN resubmitRetryTimers

\* startResubmitRetry: never for a hash that had a loop.  The immediate tick
\* runs before the timer is stored, so that its own stop has no effect.
MayRetry(t) ==
    /\ ResubmitEnabled
    /\ Key[t] # NoKey
    /\ t \notin DOMAIN resubmitRetryTimers
    /\ t \notin everRetried

\* startResubmitRetry for each of the transactions, while the loops in
\* `stopped` are removed; lostAt is a function on them, `connected` says whether
\* some node is
StartRetries(txs, stopped, lostAt, latest, known, connected) ==
    LET new  == {t \in txs : MayRetry(t)}
        sent == {t \in new : connected /\ MaySubmit(t, 0, latest, known)}
    IN  /\ everRetried' \in Remember(everRetried, new)
        /\ resubmitRetryTimers' =
              [t \in (DOMAIN resubmitRetryTimers \ stopped) \cup new |->
                  IF t \in new
                  THEN [attempts |-> IF t \in sent THEN 1 ELSE 0, lostAtHeight |-> lostAt[t]]
                  ELSE resubmitRetryTimers[t]]
        /\ resubmissions' = [t \in Tx |-> resubmissions[t] + IF t \in sent THEN 1 ELSE 0]

StopRetries(txs) ==
    resubmitRetryTimers' = Restrict(resubmitRetryTimers, DOMAIN resubmitRetryTimers \ txs)

\* A variant: every inclusion is recorded as a confirmed resubmission.
RetryTickConfirming(t, connected) ==
    /\ t \in DOMAIN resubmitRetryTimers
    /\ LET loop == resubmitRetryTimers[t]
           landed == InclusionFor(latestBySignerNonce, t) = t
       IN  IF ~MaySubmit(t, loop.attempts, latestBySignerNonce, lastKnownHeight)
           THEN /\ StopRetries({t})
                /\ confirmations' = [confirmations EXCEPT ![t] = @ + IF landed THEN 1 ELSE 0]
                /\ UNCHANGED resubmissions
           ELSE /\ connected
                /\ resubmitRetryTimers' = [resubmitRetryTimers EXCEPT ![t].attempts = @ + 1]
                /\ resubmissions' = [resubmissions EXCEPT ![t] = @ + 1]
                /\ UNCHANGED confirmations
    /\ UNCHANGED <<blockExtrinsics, processedForkHeights, lastCanonicalWalkHeight,
                   lastKnownHeight, latestBySignerNonce, includedHashes, pendingPool,
                   missingCandidates, pendingReorgReview, finalizedHashes, everRetried,
                   submittedTxs>>

\* One tick of the interval timer of t.  A loop that submitted and finds its
\* own hash canonical records the confirmation.
RetryTick(t, connected) ==
    /\ t \in DOMAIN resubmitRetryTimers
    /\ LET loop == resubmitRetryTimers[t]
           landed == InclusionFor(latestBySignerNonce, t) = t /\ loop.attempts > 0
       IN  IF ~MaySubmit(t, loop.attempts, latestBySignerNonce, lastKnownHeight)
           THEN /\ StopRetries({t})
                /\ confirmations' = [confirmations EXCEPT ![t] = @ + IF landed THEN 1 ELSE 0]
                /\ UNCHANGED resubmissions
           ELSE /\ connected
                /\ resubmitRetryTimers' = [resubmitRetryTimers EXCEPT ![t].attempts = @ + 1]
                /\ resubmissions' = [resubmissions EXCEPT ![t] = @ + 1]
                /\ UNCHANGED confirmations
    /\ UNCHANGED <<blockExtrinsics, processedForkHeights, lastCanonicalWalkHeight,
                   lastKnownHeight, latestBySignerNonce, includedHashes, pendingPool,
                   missingCandidates, pendingReorgReview, finalizedHashes, everRetried,
                   submittedTxs>>

-----------------------------------------------------------------------------
(* Blocks *)

\* onNewBlock before its await
NoteHeight(b) == lastKnownHeight' = Later(Number[b], lastKnownHeight)

\* onNewBlock when getBlock has answered with the body
CaptureBody(b) ==
    /\ blockExtrinsics' = blockExtrinsics \cup {b}
    /\ includedHashes' = includedHashes \cup Body[b]

\* A variant: only the finalized block itself is marked.
CanonicalTipOnly(b) == {c \in {b} : InTree(c)}

\* the blocks onHeightFinalized walks: from b down to the floor, as long as
\* the parent is in the tree
CanonicalWalk(b) ==
    LET floor == IF lastCanonicalWalkHeight = -1 THEN Number[b] - 1
                 ELSE lastCanonicalWalkHeight
    IN  {c \in Lineage[b] :
            /\ Number[c] > floor
            /\ \A d \in Lineage[b] : Number[d] >= Number[c] => InTree(d)}

\* A variant: inclusion at import time counts as canonical.
MarkedCaptured(walk) ==
    [k \in SignerNonce |->
        IF \E c \in blockExtrinsics : \E t \in Body[c] : Key[t] = k
        THEN LET c == CHOOSE x \in blockExtrinsics : \E t \in Body[x] : Key[t] = k
             IN  CHOOSE t \in Body[c] : Key[t] = k
        ELSE latestBySignerNonce[k]]

\* markCanonical for a walk, whose last block is the lowest one
MarkedCanonical(walk) ==
    LET holders(k) == {c \in walk \cap blockExtrinsics : \E t \in Body[c] : Key[t] = k}
    IN  [k \in SignerNonce |->
            IF holders(k) = {} THEN latestBySignerNonce[k]
            ELSE LET c == CHOOSE x \in holders(k) : \A y \in holders(k) : Number[x] <= Number[y]
                 IN  CHOOSE t \in Body[c] : Key[t] = k]

\* A variant: the winner is compared with the finalized block, not its ancestor.
LosingByHash(b, h) ==
    {e \in ReviewEntry :
        e.block \in (Range(byHeight[h]) \ {b}) \cap blockExtrinsics /\ e.tx \in Body[e.block]}

\* queueReorgReview at height h: the transactions of every captured block but
\* the ancestor of the finalized block b, if that ancestor is found
LosingEntries(b, h) ==
    LET losing == (Range(byHeight[h]) \ {CanonicalAncestorAt(b, h)}) \cap blockExtrinsics
    IN  {e \in ReviewEntry : e.block \in losing /\ e.tx \in Body[e.block]}

\* resolveReorgEntry's status for a transaction that is reported
ReviewStatus(t, latest, known) ==
    IF ReplacedIn(latest, t) THEN "reorged_resubmitted"
    ELSE IF Expired(t, known) THEN "expired" ELSE "reorged_lost"

\* onHeightFinalized
TrackerFinalized(b, connected) ==
    LET k       == Number[b]
        known   == Later(k, lastKnownHeight)
        latest  == MarkedCanonical(CanonicalWalk(b))
        heights == {h \in ForkedHeights : h <= k} \ processedForkHeights
        queued  == UNION {LosingEntries(b, h) : h \in heights}
        losers  == {e.tx : e \in queued}
        lostAt  == [t \in losers |->
                       CHOOSE h \in heights :
                          /\ \E e \in LosingEntries(b, h) : e.tx = t
                          /\ \A g \in heights : g < h => \A e \in LosingEntries(b, g) : e.tx # t]
        due     == {e \in pendingReorgReview \cup queued : k >= Number[e.block] + GraceBlocks}
        alerted == {e.tx : e \in {d \in due : InclusionFor(latest, d.tx) # d.tx}}
        status  == [t \in alerted |-> ReviewStatus(t, latest, known)]
    IN  /\ lastKnownHeight' = known
        /\ latestBySignerNonce' = latest
        /\ lastCanonicalWalkHeight' = Later(k, lastCanonicalWalkHeight)
        /\ processedForkHeights' = processedForkHeights \cup heights
        /\ StartRetries(losers, {}, lostAt, latest, known, connected)
        /\ pendingReorgReview' = (pendingReorgReview \cup queued) \ due
        /\ Finalize(alerted, status)
        /\ UNCHANGED <<blockExtrinsics, includedHashes, pendingPool, missingCandidates,
                       confirmations>>

\* Variants of PruneTracker: the review is pruned as well, or the hashes seen
\* in the pruned blocks are forgotten.
PruneTrackerReview(k) ==
    /\ blockExtrinsics' = {b \in blockExtrinsics : Number[b] > k}
    /\ processedForkHeights' = {h \in processedForkHeights : h > k}
    /\ pendingReorgReview' = {e \in pendingReorgReview : Number[e.block] > k}
    /\ StopRetries({t \in DOMAIN resubmitRetryTimers : resubmitRetryTimers[t].lostAtHeight <= k})
    /\ UNCHANGED <<lastCanonicalWalkHeight, lastKnownHeight, latestBySignerNonce,
                   includedHashes, pendingPool, missingCandidates, finalizedHashes,
                   everRetried, submittedTxs, resubmissions, confirmations>>

PruneTrackerHashes(k) ==
    /\ blockExtrinsics' = {b \in blockExtrinsics : Number[b] > k}
    /\ includedHashes' = UNION {Body[b] : b \in {c \in blockExtrinsics : Number[c] > k}}
    /\ processedForkHeights' = {h \in processedForkHeights : h > k}
    /\ StopRetries({t \in DOMAIN resubmitRetryTimers : resubmitRetryTimers[t].lostAtHeight <= k})
    /\ UNCHANGED <<lastCanonicalWalkHeight, lastKnownHeight, latestBySignerNonce,
                   pendingPool, missingCandidates, pendingReorgReview, finalizedHashes,
                   everRetried, submittedTxs, resubmissions, confirmations>>

\* pruneBlocks
PruneTracker(k) ==
    /\ blockExtrinsics' = {b \in blockExtrinsics : Number[b] > k}
    /\ processedForkHeights' = {h \in processedForkHeights : h > k}
    /\ StopRetries({t \in DOMAIN resubmitRetryTimers : resubmitRetryTimers[t].lostAtHeight <= k})
    /\ UNCHANGED <<lastCanonicalWalkHeight, lastKnownHeight, latestBySignerNonce,
                   includedHashes, pendingPool, missingCandidates, pendingReorgReview,
                   finalizedHashes, everRetried, submittedTxs, resubmissions, confirmations>>

-----------------------------------------------------------------------------
(* The transaction pool *)

\* A variant of Vanished: a candidate that flickers keeps its streak.
VanishedKeepingStreak(pool) ==
    LET left == {t \in pendingPool \ pool : t \notin includedHashes}
        seenAgain(t) == [missingCandidates[t] EXCEPT !.streak = @ + 1]
        fresh == [polls |-> 0, streak |-> 0, lostAtHeight |-> lastKnownHeight]
        all == [t \in DOMAIN missingCandidates \cup left |->
                    IF t \notin DOMAIN missingCandidates THEN fresh
                    ELSE IF t \in pool THEN seenAgain(t) ELSE missingCandidates[t]]
    IN  Restrict(all, {t \in DOMAIN all : ~(t \in pool /\ all[t].streak >= ReappearPolls)})

\* The candidates after the first two loops of pollPendingPool: what left the
\* pool without having been included is one, what is back counts the polls.
Vanished(pool) ==
    LET left == {t \in pendingPool \ pool : t \notin includedHashes}
        seenAgain(t) == [missingCandidates[t] EXCEPT !.streak = @ + 1]
        gone(t) == IF t \in DOMAIN missingCandidates
                   THEN [missingCandidates[t] EXCEPT !.streak = 0]
                   ELSE [polls |-> 0, streak |-> 0, lostAtHeight |-> lastKnownHeight]
        all == [t \in DOMAIN missingCandidates \cup left |->
                    IF t \in pool THEN seenAgain(t)
                    ELSE IF t \in left THEN gone(t) ELSE missingCandidates[t]]
    IN  Restrict(all, {t \in DOMAIN all : ~(t \in pool /\ all[t].streak >= ReappearPolls)})

\* pollPendingPool once the node has answered with the pool
PoolAnswered(pool, connected) ==
    LET cands     == Vanished(pool)
        recovered == {t \in DOMAIN missingCandidates : t \in pool} \ DOMAIN cands
        \* reviewMissingCandidates
        absent    == {t \in DOMAIN cands : t \notin includedHashes /\ t \notin pool}
        polls(t)  == cands[t].polls + 1
        ripe      == {t \in absent : polls(t) >= DropGracePolls}
        replaced  == {t \in ripe : ReplacedIn(latestBySignerNonce, t)}
        overdue   == {t \in ripe \ replaced : polls(t) >= DropMaxWaitPolls}
        lostAt    == [t \in ripe |-> cands[t].lostAtHeight]
        status    == [t \in replaced \cup overdue |->
                         IF t \in replaced THEN "resubmitted"
                         ELSE IF Expired(t, lastKnownHeight) THEN "expired" ELSE "dropped"]
        kept      == {t \in DOMAIN cands : t \notin includedHashes} \ (replaced \cup overdue)
    IN  /\ pendingPool' = pool
        /\ StartRetries(ripe, recovered, lostAt, latestBySignerNonce, lastKnownHeight, connected)
        /\ Finalize(replaced \cup overdue, status)
        /\ missingCandidates' = [t \in kept |-> IF t \in absent
                                                THEN [cands[t] EXCEPT !.polls = @ + 1]
                                                ELSE cands[t]]
        /\ UNCHANGED <<blockExtrinsics, processedForkHeights, lastCanonicalWalkHeight,
                       lastKnownHeight, latestBySignerNonce, includedHashes,
                       pendingReorgReview, confirmations>>

=============================================================================
