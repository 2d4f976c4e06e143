--------------------------- MODULE TxMonitor_proofs ---------------------------
(***************************************************************************)
(* Proofs about TxMonitor, for any chain, any bodies, any pool, any order  *)
(* of callbacks, polls and timers: what is counted per hash, and what the  *)
(* tracker takes for canonical.                                            *)
(***************************************************************************)
EXTENDS TxMonitor, BlockTree_proofs, FiniteSetTheorems, WellFoundedInduction

USE ChainAssumption

-----------------------------------------------------------------------------
(* What the operators do *)

\* Below the cap nothing that was remembered is forgotten.
LEMMA RememberEffect ==
    ASSUME NEW hashes, hashes \subseteq Tx, NEW new, new \subseteq Tx,
           NEW kept \in Remember(hashes, new)
    PROVE  /\ kept \subseteq Tx
           /\ Cardinality(Tx) <= MaxHashes => kept = hashes \cup new
  <1>1. hashes \cup new \subseteq Tx
    OBVIOUS
  <1>2. kept \subseteq Tx
    BY <1>1 DEF Remember
  <1>3. ASSUME Cardinality(Tx) <= MaxHashes
        PROVE  kept = hashes \cup new
    <2>1. /\ Cardinality(hashes \cup new) <= Cardinality(Tx)
          /\ Cardinality(hashes \cup new) \in Nat /\ Cardinality(Tx) \in Nat
      BY <1>1, TxAssumption, FS_Subset, FS_CardinalityType
    <2>2. MaxHashes \in Nat
      BY TxAssumption
    <2>3. Cardinality(hashes \cup new) <= MaxHashes
      BY <1>3, <2>1, <2>2
    <2>4. QED
      BY <2>3 DEF Remember
  <1>4. QED
    BY <1>2, <1>3

\* What is not yet remembered as reported has not been reported, and nothing
\* has been reported twice.
ReportInv ==
    Cardinality(Tx) <= MaxHashes =>
        \A t \in Tx : /\ Len(submittedTxs[t]) <= 1
                      /\ t \notin finalizedHashes => submittedTxs[t] = <<>>

\* finalize() reports what it is given, each hash at most once.
LEMMA FinalizeEffect ==
    ASSUME TrackerTypeOK, NEW txs, txs \subseteq Tx, NEW status, \A t \in txs : status[t] \in Status,
           Finalize(txs, status)
    PROVE  /\ finalizedHashes' \subseteq Tx /\ submittedTxs' \in [Tx -> Seq(Status)]
           /\ \A t \in Tx : \/ submittedTxs'[t] = submittedTxs[t]
                            \/ /\ t \in txs
                               /\ submittedTxs'[t] = Append(submittedTxs[t], status[t])
           /\ ReportInv => ReportInv'
  <1> DEFINE new == txs \ finalizedHashes
  <1>1. /\ finalizedHashes \subseteq Tx /\ new \subseteq Tx /\ new \subseteq txs
        /\ submittedTxs \in [Tx -> Seq(Status)]
    BY DEF TrackerTypeOK
  <1>2. /\ finalizedHashes' \in Remember(finalizedHashes, new)
        /\ submittedTxs' = [t \in Tx |-> IF t \in new THEN Append(submittedTxs[t], status[t])
                                         ELSE submittedTxs[t]]
    BY DEF Finalize
  <1> HIDE DEF new
  <1>3. /\ finalizedHashes' \subseteq Tx
        /\ Cardinality(Tx) <= MaxHashes => finalizedHashes' = finalizedHashes \cup new
    BY <1>1, <1>2, RememberEffect
  <1>4. submittedTxs' \in [Tx -> Seq(Status)]
    <2>1. \A t \in new : Append(submittedTxs[t], status[t]) \in Seq(Status)
      BY <1>1, AppendProperties
    <2>2. QED
      BY <1>1, <1>2, <2>1
  <1>5. ASSUME ReportInv, Cardinality(Tx) <= MaxHashes, NEW t \in Tx
        PROVE  /\ Len(submittedTxs'[t]) <= 1
               /\ t \notin finalizedHashes' => submittedTxs'[t] = <<>>
    <2>1. CASE t \in new
      <3>1. submittedTxs[t] = <<>>
        BY <1>5, <2>1 DEF new, ReportInv
      <3>2. Len(submittedTxs'[t]) = 1
        <4>1. submittedTxs'[t] = Append(<<>>, status[t])
          BY <1>2, <2>1, <3>1
        <4>2. <<>> \in Seq(Status) /\ Len(<<>>) = 0
          BY EmptySeq
        <4>3. status[t] \in Status
          BY <1>1, <2>1
        <4>4. Len(Append(<<>>, status[t])) = Len(<<>>) + 1
          BY <4>2, <4>3, AppendProperties
        <4>5. QED
          BY <4>1, <4>2, <4>4
      <3>3. QED
        BY <1>3, <1>5, <2>1, <3>2
    <2>2. CASE t \notin new
      <3>1. submittedTxs'[t] = submittedTxs[t] /\ finalizedHashes' = finalizedHashes \cup new
        BY <1>2, <1>3, <1>5, <2>2
      <3>2. QED
        BY <1>5, <3>1 DEF ReportInv
    <2>3. QED
      BY <2>1, <2>2
  <1>6. \A t \in Tx : \/ submittedTxs'[t] = submittedTxs[t]
                      \/ t \in txs /\ submittedTxs'[t] = Append(submittedTxs[t], status[t])
    BY <1>1, <1>2
  <1>7. ReportInv => ReportInv'
    BY <1>5 DEF ReportInv
  <1>8. QED
    BY <1>3, <1>4, <1>6, <1>7

\* A hash has one retry loop at most, and what it submitted is what was
\* submitted of the hash.
LoopFor(t) ==
    /\ resubmissions[t] <= MaxResubmitRetries
    /\ t \in DOMAIN resubmitRetryTimers =>
          /\ t \in everRetried
          /\ resubmissions[t] = resubmitRetryTimers[t].attempts
    /\ t \notin everRetried => resubmissions[t] = 0

RetryInv == Cardinality(Tx) <= MaxHashes => \A t \in Tx : LoopFor(t)

TimersOK ==
    /\ DOMAIN resubmitRetryTimers \subseteq Tx
    /\ \A t \in DOMAIN resubmitRetryTimers : resubmitRetryTimers[t] \in RetryLoop

\* New loops are of hashes that never had one, and have submitted once or not
\* at all.
LEMMA StartRetriesEffect ==
    ASSUME TrackerTypeOK, NEW txs, txs \subseteq Tx, NEW stopped,
           NEW lostAt, \A t \in txs : lostAt[t] \in Height,
           NEW latest, NEW known, NEW connected,
           StartRetries(txs, stopped, lostAt, latest, known, connected)
    PROVE  /\ everRetried' \subseteq Tx /\ TimersOK' /\ resubmissions' \in [Tx -> Nat]
           /\ RetryInv => RetryInv'
           /\ \A t \in Tx : resubmissions'[t] >= resubmissions[t]
           /\ \A t \in DOMAIN resubmitRetryTimers' :
                 \/ /\ t \in DOMAIN resubmitRetryTimers
                    /\ resubmitRetryTimers'[t] = resubmitRetryTimers[t]
                 \/ resubmitRetryTimers'[t].attempts = 0
                 \/ InclusionFor(latest, t) = NoInclusion /\ resubmissions'[t] > 0
  <1> DEFINE new == {t \in txs : MayRetry(t)}
             sent == {t \in new : connected /\ MaySubmit(t, 0, latest, known)}
             kept == DOMAIN resubmitRetryTimers \ stopped
  <1>1. /\ everRetried' \in Remember(everRetried, new)
        /\ resubmitRetryTimers' =
              [t \in kept \cup new |->
                  IF t \in new
                  THEN [attempts |-> IF t \in sent THEN 1 ELSE 0, lostAtHeight |-> lostAt[t]]
                  ELSE resubmitRetryTimers[t]]
        /\ resubmissions' = [t \in Tx |-> resubmissions[t] + IF t \in sent THEN 1 ELSE 0]
    BY DEF StartRetries
  <1>2. /\ new \subseteq Tx /\ new \subseteq txs /\ sent \subseteq new
        /\ kept \subseteq DOMAIN resubmitRetryTimers
    OBVIOUS
  <1>3. /\ \A t \in new : t \notin DOMAIN resubmitRetryTimers /\ t \notin everRetried
        /\ \A t \in sent : InclusionFor(latest, t) = NoInclusion /\ 0 < MaxResubmitRetries
    BY DEF MayRetry, MaySubmit
  <1>4. /\ everRetried \subseteq Tx /\ TimersOK /\ resubmissions \in [Tx -> Nat]
        /\ MaxResubmitRetries \in Nat
    BY TxAssumption DEF TrackerTypeOK, TimersOK
  <1> HIDE DEF new, sent, kept
  <1>5. /\ everRetried' \subseteq Tx
        /\ Cardinality(Tx) <= MaxHashes => everRetried' = everRetried \cup new
    BY <1>1, <1>2, <1>4, RememberEffect
  <1>6. /\ DOMAIN resubmitRetryTimers' = kept \cup new
        /\ \A t \in new : resubmitRetryTimers'[t] =
              [attempts |-> IF t \in sent THEN 1 ELSE 0, lostAtHeight |-> lostAt[t]]
        /\ \A t \in kept : t \notin new => resubmitRetryTimers'[t] = resubmitRetryTimers[t]
    BY <1>1
  <1>7. TimersOK'
    <2>1. DOMAIN resubmitRetryTimers' \subseteq Tx
      BY <1>2, <1>4, <1>6 DEF TimersOK
    <2>2. \A t \in new : resubmitRetryTimers'[t] \in RetryLoop
      BY <1>2, <1>6 DEF RetryLoop
    <2>3. \A t \in kept : t \notin new => resubmitRetryTimers'[t] \in RetryLoop
      BY <1>2, <1>4, <1>6 DEF TimersOK
    <2>4. QED
      BY <1>6, <2>1, <2>2, <2>3 DEF TimersOK
  <1>8. /\ resubmissions' \in [Tx -> Nat]
        /\ \A t \in Tx : /\ t \in sent => resubmissions'[t] = resubmissions[t] + 1
                         /\ t \notin sent => resubmissions'[t] = resubmissions[t]
    BY <1>1, <1>4
  <1>9. \A t \in Tx : resubmissions'[t] >= resubmissions[t]
    BY <1>4, <1>8
  <1>10. ASSUME NEW t \in DOMAIN resubmitRetryTimers'
         PROVE  \/ /\ t \in DOMAIN resubmitRetryTimers
                   /\ resubmitRetryTimers'[t] = resubmitRetryTimers[t]
                \/ resubmitRetryTimers'[t].attempts = 0
                \/ InclusionFor(latest, t) = NoInclusion /\ resubmissions'[t] > 0
    <2>1. CASE t \in sent
      <3>1. t \in Tx
        BY <1>2, <2>1
      <3>2. resubmissions'[t] > 0
        BY <1>4, <1>8, <2>1, <3>1
      <3>3. QED
        BY <1>3, <2>1, <3>2
    <2>2. CASE t \in new /\ t \notin sent
      BY <1>6, <2>2
    <2>3. CASE t \notin new
      BY <1>2, <1>6, <2>3
    <2>4. QED
      BY <2>1, <2>2, <2>3
  <1>11. ASSUME RetryInv, Cardinality(Tx) <= MaxHashes, NEW t \in Tx
         PROVE  LoopFor(t)'
    <2>1. LoopFor(t) /\ everRetried' = everRetried \cup new
      BY <1>5, <1>11 DEF RetryInv
    <2>2. CASE t \in new
      <3>1. /\ resubmissions[t] = 0
            /\ resubmitRetryTimers'[t].attempts = IF t \in sent THEN 1 ELSE 0
        BY <1>3, <1>6, <2>1, <2>2 DEF LoopFor
      <3>2. resubmissions'[t] = IF t \in sent THEN 1 ELSE 0
        BY <1>8, <3>1
      <3>3. t \in everRetried'
        BY <2>1, <2>2
      <3>4. resubmissions'[t] <= MaxResubmitRetries
        BY <1>3, <1>4, <3>2
      <3>5. QED
        BY <3>1, <3>2, <3>3, <3>4 DEF LoopFor
    <2>3. CASE t \notin new
      <3>1. t \notin sent
        BY <1>2, <2>3
      <3>2. resubmissions'[t] = resubmissions[t]
        BY <1>8, <3>1
      <3>3. t \in DOMAIN resubmitRetryTimers' =>
               /\ t \in DOMAIN resubmitRetryTimers
               /\ resubmitRetryTimers'[t] = resubmitRetryTimers[t]
        BY <1>2, <1>6, <2>3
      <3>4. t \in everRetried' <=> t \in everRetried
        BY <2>1, <2>3
      <3>5. QED
        BY <2>1, <3>2, <3>3, <3>4 DEF LoopFor
    <2>4. QED
      BY <2>2, <2>3
  <1>12. RetryInv => RetryInv'
    BY <1>11 DEF RetryInv
  <1>13. QED
    BY <1>5, <1>7, <1>8, <1>9, <1>10, <1>12

\* What is canonical for a key is what it was, or a transaction in the walk.
LEMMA MarkedEffect ==
    ASSUME TrackerTypeOK, NEW walk, walk \subseteq Block, NEW k \in SignerNonce
    PROVE  \/ MarkedCanonical(walk)[k] = latestBySignerNonce[k]
           \/ /\ MarkedCanonical(walk)[k] \in Tx
              /\ Key[MarkedCanonical(walk)[k]] = k
              /\ \E c \in walk : MarkedCanonical(walk)[k] \in Body[c]
  <1> DEFINE H == {c \in walk \cap blockExtrinsics : \E t \in Body[c] : Key[t] = k}
             c0 == CHOOSE x \in H : \A y \in H : Number[x] <= Number[y]
             t0 == CHOOSE t \in Body[c0] : Key[t] = k
  <1>1. MarkedCanonical(walk)[k] = IF H = {} THEN latestBySignerNonce[k] ELSE t0
    BY DEF MarkedCanonical
  <1>2. ASSUME H # {}
        PROVE  /\ t0 \in Tx /\ Key[t0] = k
               /\ \E c \in walk : t0 \in Body[c]
    <2>0. H \subseteq Block
      OBVIOUS
    <2>h. \A x \in H : x \in walk /\ \E t \in Body[x] : Key[t] = k
      OBVIOUS
    <2> HIDE DEF H
    <2>1. \E x \in H : \A y \in H : Number[x] <= Number[y]
      BY <1>2, <2>0, LowestBlock
    <2>2. c0 \in H
      BY <2>1
    <2> HIDE DEF c0
    <2>3. \E t \in Body[c0] : Key[t] = k
      BY <2>2, <2>h
    <2>4. t0 \in Body[c0] /\ Key[t0] = k
      BY <2>3
    <2> HIDE DEF t0
    <2>5. Body[c0] \subseteq Tx
      BY <2>0, <2>2, TxAssumption
    <2>6. QED
      BY <2>2, <2>4, <2>5, <2>h
  <1> HIDE DEF H, c0, t0
  <1>3. QED
    BY <1>1, <1>2

\* What is canonical stays a hash for each key, or none.
LEMMA MarkedType ==
    ASSUME TrackerTypeOK, NEW walk, walk \subseteq Block
    PROVE  MarkedCanonical(walk) \in [SignerNonce -> Tx \cup {NoInclusion}]
  <1>1. \A k \in SignerNonce : MarkedCanonical(walk)[k] \in Tx \cup {NoInclusion}
    BY MarkedEffect DEF TrackerTypeOK
  <1>2. \E f : MarkedCanonical(walk) = [k \in SignerNonce |-> f[k]]
    <2>1. MarkedCanonical(walk) = [k \in SignerNonce |-> MarkedCanonical(walk)[k]]
      BY DEF MarkedCanonical
    <2>2. QED
      BY <2>1
  <1>3. QED
    BY <1>1, <1>2

\* a restriction of the retry loops
LEMMA StopRetriesEffect ==
    ASSUME TrackerTypeOK, NEW txs, StopRetries(txs)
    PROVE  /\ TimersOK'
           /\ \A t \in DOMAIN resubmitRetryTimers' :
                 /\ t \in DOMAIN resubmitRetryTimers /\ t \notin txs
                 /\ resubmitRetryTimers'[t] = resubmitRetryTimers[t]
  BY DEF TrackerTypeOK, StopRetries, Restrict, TimersOK

\* The later of two heights is one, also of a height and none.
LEMMA HeightFacts ==
    ASSUME NEW h \in Height, NEW k \in Height
    PROVE  Later(h, k) \in Height /\ Later(h, -1) \in Height
  BY DEF Later, Height

\* onHeightFinalized, in parts: what is lost where, and what is reported
LEMMA TrackerFinalizedEffect ==
    ASSUME TrackerTypeOK, Lineage \in [Block -> SUBSET Block],
           NEW b \in Block, NEW connected \in BOOLEAN, TrackerFinalized(b, connected)
    PROVE  /\ lastKnownHeight' \in Height
           /\ lastCanonicalWalkHeight' \in Height \cup {-1}
           /\ processedForkHeights' \subseteq Height
           /\ pendingReorgReview' \subseteq ReviewEntry
           /\ latestBySignerNonce' = MarkedCanonical(CanonicalWalk(b))
           /\ \E txs \in SUBSET Tx : \E lostAt \in [txs -> Height] :
                 StartRetries(txs, {}, lostAt, latestBySignerNonce', lastKnownHeight', connected)
           /\ \E txs \in SUBSET Tx : \E status \in [txs -> Status \ {"dropped"}] :
                 Finalize(txs, status)
  <1> DEFINE k       == Number[b]
             known   == Later(k, lastKnownHeight)
             latest  == MarkedCanonical(CanonicalWalk(b))
             heights == {h \in ForkedHeights : h <= k} \ processedForkHeights
             queued  == UNION {LosingEntries(b, h) : h \in heights}
             losers  == {e.tx : e \in queued}
             lostAt  == [t \in losers |->
                            CHOOSE h \in heights :
                               /\ \E e \in LosingEntries(b, h) : e.tx = t
                               /\ \A g \in heights : g < h => \A e \in LosingEntries(b, g) : e.tx # t]
             due     == {e \in pendingReorgReview \cup queued : k >= Number[e.block] + GraceBlocks}
             alerted == {e.tx : e \in {d \in due : InclusionFor(latest, d.tx) # d.tx}}
             status  == [t \in alerted |-> ReviewStatus(t, latest, known)]
  <1>1. /\ lastKnownHeight' = known
        /\ latestBySignerNonce' = latest
        /\ lastCanonicalWalkHeight' = Later(k, lastCanonicalWalkHeight)
        /\ processedForkHeights' = processedForkHeights \cup heights
        /\ StartRetries(losers, {}, lostAt, latest, known, connected)
        /\ pendingReorgReview' = (pendingReorgReview \cup queued) \ due
        /\ Finalize(alerted, status)
    BY DEF TrackerFinalized
  <1>2. k \in Height /\ lastKnownHeight \in Height /\ lastCanonicalWalkHeight \in Height \cup {-1}
    BY NumberInHeight DEF TrackerTypeOK
  <1>3. known \in Height /\ Later(k, lastCanonicalWalkHeight) \in Height
    BY <1>2, HeightFacts
  <1>4. heights \subseteq Height /\ heights \subseteq Nat
    BY DEF ForkedHeights, Height
  <1>5. \A h : LosingEntries(b, h) \subseteq ReviewEntry
    BY DEF LosingEntries
  <1>6. queued \subseteq ReviewEntry
    BY <1>5
  <1>7. pendingReorgReview \subseteq ReviewEntry /\ processedForkHeights \subseteq Height
    BY DEF TrackerTypeOK
  <1>8. /\ \A e \in ReviewEntry : e.tx \in Tx
        /\ \A t \in losers : \E e \in queued : e.tx = t
        /\ \A e \in queued : \E h \in heights : e \in LosingEntries(b, h)
    BY DEF ReviewEntry
  <1>9. losers \subseteq Tx
    BY <1>6, <1>8
  <1>10. alerted \subseteq Tx
    <2>1. due \subseteq ReviewEntry
      BY <1>6, <1>7
    <2>2. QED
      BY <1>8, <2>1
  <1> HIDE DEF known, latest, heights, queued, due, alerted
  <1>11. lostAt \in [losers -> Height]
    <2>1. ASSUME NEW t \in losers
          PROVE  lostAt[t] \in Height
      <3> DEFINE H == {h \in heights : \E e \in LosingEntries(b, h) : e.tx = t}
                 first(h) == /\ \E e \in LosingEntries(b, h) : e.tx = t
                             /\ \A g \in heights : g < h => \A e \in LosingEntries(b, g) : e.tx # t
      <3>1. H # {} /\ H \subseteq Nat
        BY <1>4, <1>8
      <3>2. PICK m \in H : \A j \in H : m <= j
        BY <3>1, LeastNumber
      <3>3. m \in heights /\ first(m)
        <4>1. m \in heights /\ \E e \in LosingEntries(b, m) : e.tx = t
          BY <3>2
        <4>2. ASSUME NEW g \in heights, g < m, NEW e \in LosingEntries(b, g), e.tx = t
              PROVE  FALSE
          <5>1. g \in H
            BY <4>2
          <5>2. g \in Nat /\ m \in Nat
            BY <1>4, <4>1
          <5>3. QED
            BY <3>2, <4>2, <5>1, <5>2
        <4>3. QED
          BY <4>1, <4>2
      <3>4. (CHOOSE h \in heights : first(h)) \in heights
        BY <3>3
      <3>5. lostAt[t] = CHOOSE h \in heights : first(h)
        BY <2>1
      <3>6. QED
        BY <1>4, <3>4, <3>5
    <2>2. QED
      BY <2>1
  <1>12. status \in [alerted -> Status \ {"dropped"}]
    BY DEF ReviewStatus, Status
  <1> HIDE DEF lostAt, losers, status
  <1>13. \E txs \in SUBSET Tx : \E at \in [txs -> Height] :
            StartRetries(txs, {}, at, latestBySignerNonce', lastKnownHeight', connected)
    BY <1>1, <1>9, <1>11
  <1>14. \E txs \in SUBSET Tx : \E s \in [txs -> Status \ {"dropped"}] : Finalize(txs, s)
    BY <1>1, <1>10, <1>12
  <1>15. /\ lastKnownHeight' \in Height /\ lastCanonicalWalkHeight' \in Height \cup {-1}
         /\ processedForkHeights' \subseteq Height /\ pendingReorgReview' \subseteq ReviewEntry
    BY <1>1, <1>3, <1>4, <1>6, <1>7
  <1>16. latestBySignerNonce' = MarkedCanonical(CanonicalWalk(b))
    BY <1>1 DEF latest
  <1>17. QED
    BY <1>13, <1>14, <1>15, <1>16

\* The candidates after a poll: those in the pool have a short streak, and the
\* others none if that was so before, unless they are dropped as included.
LEMMA VanishedEffect ==
    ASSUME TrackerTypeOK, NEW pool, pool \subseteq Tx
    PROVE  /\ DOMAIN Vanished(pool) \subseteq Tx
           /\ \A t \in DOMAIN Vanished(pool) :
                 /\ Vanished(pool)[t] \in Candidate
                 /\ t \in pool => Vanished(pool)[t].streak \in 1..(ReappearPolls - 1)
                 /\ StreakMatchesPool /\ t \notin pool \cup includedHashes => Vanished(pool)[t].streak = 0
  <1> DEFINE mc == missingCandidates
             left == {t \in pendingPool \ pool : t \notin includedHashes}
             seenAgain(t) == [mc[t] EXCEPT !.streak = @ + 1]
             gone(t) == IF t \in DOMAIN mc
                        THEN [mc[t] EXCEPT !.streak = 0]
                        ELSE [polls |-> 0, streak |-> 0, lostAtHeight |-> lastKnownHeight]
             all == [t \in DOMAIN mc \cup left |->
                         IF t \in pool THEN seenAgain(t)
                         ELSE IF t \in left THEN gone(t) ELSE mc[t]]
             D == {t \in DOMAIN all : ~(t \in pool /\ all[t].streak >= ReappearPolls)}
  <1>1. Vanished(pool) = [t \in D |-> all[t]]
    BY DEF Vanished, Restrict
  <1>2. /\ DOMAIN mc \subseteq Tx /\ pendingPool \subseteq Tx /\ lastKnownHeight \in Height
        /\ \A t \in DOMAIN mc : mc[t] \in Candidate
        /\ ReappearPolls \in Nat \ {0}
    BY TxAssumption DEF TrackerTypeOK
  <1>3. ASSUME NEW t \in DOMAIN mc \cup left
        PROVE  /\ t \in Tx /\ all[t] \in Candidate
               /\ t \in pool => all[t].streak > 0
               /\ StreakMatchesPool /\ t \notin pool \cup includedHashes => all[t].streak = 0
    <2>0. t \in Tx
      BY <1>2
    <2>1. CASE t \in pool
      <3>1. t \in DOMAIN mc /\ all[t] = seenAgain(t)
        BY <2>1
      <3>2. mc[t] \in Candidate
        BY <1>2, <3>1
      <3>3. all[t] \in Candidate /\ all[t].streak = mc[t].streak + 1 /\ mc[t].streak \in Nat
        BY <3>1, <3>2 DEF Candidate
      <3>4. QED
        BY <2>0, <2>1, <3>3
    <2>2. CASE t \in left
      <3>1. t \notin pool /\ all[t] = gone(t)
        BY <2>2
      <3>2. gone(t) \in Candidate /\ gone(t).streak = 0
        BY <1>2 DEF Candidate
      <3>3. QED
        BY <2>0, <3>1, <3>2
    <2>3. CASE t \notin pool /\ t \notin left
      <3>1. t \in DOMAIN mc /\ all[t] = mc[t]
        BY <2>3
      <3>2. all[t] \in Candidate /\ mc[t].streak \in Nat
        BY <1>2, <3>1 DEF Candidate
      <3>3. ASSUME StreakMatchesPool, t \notin includedHashes
            PROVE  all[t].streak = 0
        <4>1. t \in pendingPool <=> mc[t].streak > 0
          BY <3>1, <3>3 DEF StreakMatchesPool
        <4>2. CASE t \in pendingPool
          BY <2>3, <3>3, <4>2
        <4>3. CASE t \notin pendingPool
          <5> DEFINE n == mc[t].streak
          <5>1. n \in Nat /\ ~(n > 0) /\ all[t].streak = n
            BY <3>1, <3>2, <4>1, <4>3
          <5> HIDE DEF n, all
          <5>2. QED
            BY <5>1
        <4>4. QED
          BY <4>2, <4>3
      <3>4. QED
        BY <2>0, <2>3, <3>2, <3>3
    <2>4. QED
      BY <2>1, <2>2, <2>3
  <1>4. \A t \in D : t \in DOMAIN mc \cup left /\ (t \in pool => ~(all[t].streak >= ReappearPolls))
    OBVIOUS
  <1> HIDE DEF all, D, left, mc
  <1>5. \A t \in Tx : all[t] \in Candidate => all[t].streak \in Nat
    BY DEF Candidate
  <1>6. QED
    BY <1>1, <1>2, <1>3, <1>4, <1>5

\* A poll is answered, in parts: what is retried, what is reported, and the
\* candidates that are left.
LEMMA PoolAnsweredEffect ==
    ASSUME TrackerTypeOK, NEW pool, pool \subseteq Tx, NEW connected \in BOOLEAN,
           PoolAnswered(pool, connected)
    PROVE  /\ pendingPool' = pool
           /\ DOMAIN missingCandidates' \subseteq Tx
           /\ \A t \in DOMAIN missingCandidates' : missingCandidates'[t] \in Candidate
           /\ StreakMatchesPool => StreakMatchesPool'
           /\ \E txs \in SUBSET Tx, stopped \in SUBSET Tx : \E lostAt \in [txs -> Height] :
                 StartRetries(txs, stopped, lostAt, latestBySignerNonce, lastKnownHeight, connected)
           /\ \E txs \in SUBSET (Tx \ includedHashes) : \E status \in [txs -> Status] :
                 Finalize(txs, status)
  <1> DEFINE cands     == Vanished(pool)
             recovered == {t \in DOMAIN missingCandidates : t \in pool} \ DOMAIN cands
             absent    == {t \in DOMAIN cands : t \notin includedHashes /\ t \notin pool}
             polls(t)  == cands[t].polls + 1
             ripe      == {t \in absent : polls(t) >= DropGracePolls}
             replaced  == {t \in ripe : ReplacedIn(latestBySignerNonce, t)}
             overdue   == {t \in ripe \ replaced : polls(t) >= DropMaxWaitPolls}
             lostAt    == [t \in ripe |-> cands[t].lostAtHeight]
             status    == [t \in replaced \cup overdue |->
                              IF t \in replaced THEN "resubmitted"
                              ELSE IF Expired(t, lastKnownHeight) THEN "expired" ELSE "dropped"]
             kept      == {t \in DOMAIN cands : t \notin includedHashes} \ (replaced \cup overdue)
  <1>1. /\ pendingPool' = pool
        /\ StartRetries(ripe, recovered, lostAt, latestBySignerNonce, lastKnownHeight, connected)
        /\ Finalize(replaced \cup overdue, status)
        /\ missingCandidates' = [t \in kept |-> IF t \in absent
                                                THEN [cands[t] EXCEPT !.polls = @ + 1]
                                                ELSE cands[t]]
    BY DEF PoolAnswered
  <1>2. /\ DOMAIN cands \subseteq Tx
        /\ \A t \in DOMAIN cands :
              /\ cands[t] \in Candidate
              /\ t \in pool => cands[t].streak \in 1..(ReappearPolls - 1)
              /\ StreakMatchesPool /\ t \notin pool \cup includedHashes => cands[t].streak = 0
    BY VanishedEffect
  <1> HIDE DEF cands
  <1>3. /\ kept \subseteq DOMAIN cands /\ ripe \subseteq DOMAIN cands
        /\ \A t \in kept : t \notin includedHashes
        /\ replaced \cup overdue \subseteq ripe
        /\ \A t \in ripe : t \notin includedHashes
    OBVIOUS
  <1>4. status \in [replaced \cup overdue -> Status]
    BY DEF Status
  <1>5. lostAt \in [ripe -> Height]
    <2>1. \A t \in ripe : cands[t] \in Candidate
      BY <1>2, <1>3
    <2>2. \A t \in ripe : cands[t].lostAtHeight \in Height
      BY <2>1 DEF Candidate
    <2>3. QED
      BY <2>2
  <1>d. recovered \in SUBSET Tx
    BY DEF TrackerTypeOK
  <1> HIDE DEF ripe, replaced, overdue, kept, absent, lostAt, status, recovered
  <1>6. \E txs \in SUBSET Tx, stopped \in SUBSET Tx : \E at \in [txs -> Height] :
           StartRetries(txs, stopped, at, latestBySignerNonce, lastKnownHeight, connected)
    <2>1. ripe \in SUBSET Tx
      BY <1>2, <1>3
    <2>2. QED
      BY <1>1, <1>5, <1>d, <2>1
  <1>7. \E txs \in SUBSET (Tx \ includedHashes) : \E s \in [txs -> Status] : Finalize(txs, s)
    <2>1. replaced \cup overdue \in SUBSET (Tx \ includedHashes)
      BY <1>2, <1>3
    <2>2. QED
      BY <1>1, <1>4, <2>1
  <1>8. DOMAIN missingCandidates' = kept
    BY <1>1
  <1>9. \A t \in kept : /\ missingCandidates'[t] \in Candidate
                        /\ missingCandidates'[t].streak = cands[t].streak
    <2> SUFFICES ASSUME NEW t \in kept
                 PROVE  /\ missingCandidates'[t] \in Candidate
                        /\ missingCandidates'[t].streak = cands[t].streak
      OBVIOUS
    <2>1. cands[t] \in Candidate
      BY <1>2, <1>3
    <2>2. /\ [cands[t] EXCEPT !.polls = @ + 1] \in Candidate
          /\ [cands[t] EXCEPT !.polls = @ + 1].streak = cands[t].streak
      BY <2>1 DEF Candidate
    <2>3. missingCandidates'[t] = IF t \in absent THEN [cands[t] EXCEPT !.polls = @ + 1] ELSE cands[t]
      BY <1>1
    <2>4. QED
      BY <2>1, <2>2, <2>3
  <1>10. ASSUME StreakMatchesPool, NEW t \in kept
         PROVE  /\ t \in pool <=> missingCandidates'[t].streak > 0
                /\ missingCandidates'[t].streak < ReappearPolls
    <2>1. ReappearPolls \in Nat \ {0}
      BY TxAssumption
    <2>2. CASE t \in pool
      BY <1>2, <1>3, <1>9, <2>1, <2>2
    <2>3. CASE t \notin pool
      <3>1. missingCandidates'[t].streak = 0
        BY <1>2, <1>3, <1>9, <1>10, <2>3
      <3>2. QED
        BY <2>1, <2>3, <3>1
    <2>4. QED
      BY <2>2, <2>3
  <1>11. StreakMatchesPool => StreakMatchesPool'
    BY <1>1, <1>8, <1>10 DEF StreakMatchesPool
  <1>12. DOMAIN missingCandidates' \subseteq Tx
    BY <1>2, <1>3, <1>8
  <1>13. QED
    BY <1>1, <1>6, <1>7, <1>8, <1>9, <1>11, <1>12

\* A tick submits and counts, or stops the loop.
LEMMA RetryTickEffect ==
    ASSUME TrackerTypeOK, NEW t \in Tx, NEW connected \in BOOLEAN, RetryTick(t, connected)
    PROVE  /\ TimersOK' /\ resubmissions' \in [Tx -> Nat] /\ confirmations' \in [Tx -> Nat]
           /\ RetryInv => RetryInv'
  <1> DEFINE r == resubmitRetryTimers
             loop == r[t]
             landed == InclusionFor(latestBySignerNonce, t) = t /\ loop.attempts > 0
  <1>1. /\ TimersOK /\ resubmissions \in [Tx -> Nat] /\ confirmations \in [Tx -> Nat]
        /\ MaxResubmitRetries \in Nat /\ t \in DOMAIN r /\ UNCHANGED everRetried
    BY TxAssumption DEF TrackerTypeOK, TimersOK, RetryTick
  <1>2. CASE ~MaySubmit(t, loop.attempts, latestBySignerNonce, lastKnownHeight)
    <2>1. /\ StopRetries({t}) /\ UNCHANGED resubmissions
          /\ confirmations' = [confirmations EXCEPT ![t] = @ + IF landed THEN 1 ELSE 0]
      BY <1>2 DEF RetryTick
    <2>2. /\ TimersOK'
          /\ \A u \in DOMAIN resubmitRetryTimers' : u \in DOMAIN r /\ resubmitRetryTimers'[u] = r[u]
      BY <2>1, StopRetriesEffect
    <2>3. confirmations' \in [Tx -> Nat]
      <3> HIDE DEF landed
      <3>1. QED
        BY <1>1, <2>1
    <2>4. RetryInv => RetryInv'
      BY <1>1, <2>1, <2>2 DEF RetryInv, LoopFor
    <2>5. QED
      BY <1>1, <2>1, <2>2, <2>3, <2>4
  <1>3. CASE MaySubmit(t, loop.attempts, latestBySignerNonce, lastKnownHeight)
    <2>1. /\ resubmitRetryTimers' = [r EXCEPT ![t].attempts = @ + 1]
          /\ resubmissions' = [resubmissions EXCEPT ![t] = @ + 1]
          /\ UNCHANGED confirmations
      BY <1>3 DEF RetryTick
    <2>2. loop \in RetryLoop /\ loop.attempts < MaxResubmitRetries
      BY <1>1, <1>3 DEF TimersOK, MaySubmit
    <2>3. /\ DOMAIN resubmitRetryTimers' = DOMAIN r
          /\ \A u \in DOMAIN r : u # t => resubmitRetryTimers'[u] = r[u]
          /\ resubmitRetryTimers'[t] \in RetryLoop
          /\ resubmitRetryTimers'[t].attempts = loop.attempts + 1
      BY <1>1, <2>1, <2>2 DEF RetryLoop
    <2>4. TimersOK' /\ resubmissions' \in [Tx -> Nat]
      BY <1>1, <2>1, <2>3 DEF TimersOK
    <2>5. ASSUME RetryInv, Cardinality(Tx) <= MaxHashes, NEW u \in Tx
          PROVE  LoopFor(u)'
      <3>1. LoopFor(u)
        BY <2>5 DEF RetryInv
      <3>2. CASE u = t
        <4>1. resubmissions[t] = loop.attempts /\ resubmissions'[t] = resubmissions[t] + 1 /\ t \in everRetried
          BY <1>1, <2>1, <3>1, <3>2 DEF LoopFor
        <4>2. resubmissions[t] \in Nat
          BY <1>1
        <4>3. QED
          BY <1>1, <2>2, <2>3, <3>2, <4>1, <4>2 DEF LoopFor
      <3>3. CASE u # t
        BY <1>1, <2>1, <2>3, <3>1, <3>3 DEF LoopFor
      <3>4. QED
        BY <3>2, <3>3
    <2>6. QED
      BY <1>1, <2>1, <2>4, <2>5 DEF RetryInv
  <1>4. QED
    BY <1>2, <1>3

-----------------------------------------------------------------------------
(* Types, and what is counted per hash *)

\* What is counted of the hashes
CountInv == ReportInv /\ RetryInv /\ StreakMatchesPool

\* The counts start at nothing.
LEMMA InitCounts == Init => TypeOK /\ CountInv
  <1> SUFFICES ASSUME Init
               PROVE  TypeOK /\ CountInv
    OBVIOUS
  <1>1. TreeTypeOK
    BY TreeInitIndexes DEF Init
  <1>2. MaxResubmitRetries \in Nat /\ 0 \in Height
    BY TxAssumption DEF Height
  <1>3. submittedTxs \in [Tx -> Seq(Status)] /\ \A t \in Tx : submittedTxs[t] = <<>>
    <2>1. <<>> \in Seq(Status)
      BY EmptySeq
    <2>2. QED
      BY <2>1 DEF Init, TrackerInit
  <1>4. resubmissions \in [Tx -> Nat] /\ confirmations \in [Tx -> Nat] /\ \A t \in Tx : resubmissions[t] = 0
    BY DEF Init, TrackerInit
  <1>5. DOMAIN resubmitRetryTimers = {} /\ DOMAIN missingCandidates = {}
    BY DEF Init, TrackerInit
  <1>6. TrackerTypeOK
    BY <1>2, <1>3, <1>4, <1>5 DEF Init, TrackerInit, TrackerTypeOK
  <1>7. bodyAt \in [Block -> BodyStage] /\ awaitPrune \subseteq Height /\ finalizedTip \in Block \cup {NoBlock}
    BY DEF Init, BodyStage
  <1>8. ReportInv
    <2>1. Len(<<>>) = 0
      BY EmptySeq
    <2>2. QED
      BY <1>3, <2>1 DEF ReportInv
  <1>9. RetryInv /\ StreakMatchesPool
    BY <1>2, <1>4, <1>5 DEF RetryInv, LoopFor, StreakMatchesPool
  <1>10. QED
    BY <1>1, <1>6, <1>7, <1>8, <1>9 DEF TypeOK, CountInv

\* Stretches that touch none of the counts keep them.
LEMMA CountsKept ==
    ASSUME CountInv,
           UNCHANGED <<pendingPool, missingCandidates, finalizedHashes, everRetried,
                       resubmitRetryTimers, submittedTxs, resubmissions>>
    PROVE  CountInv'
  BY DEF CountInv, ReportInv, RetryInv, LoopFor, StreakMatchesPool

\* Stopping loops keeps the counts.
LEMMA StoppingKeepsCounts ==
    ASSUME TrackerTypeOK, CountInv, NEW txs, StopRetries(txs),
           UNCHANGED <<pendingPool, missingCandidates, finalizedHashes, everRetried,
                       submittedTxs, resubmissions>>
    PROVE  CountInv'
  <1>1. \A t \in DOMAIN resubmitRetryTimers' :
           t \in DOMAIN resubmitRetryTimers /\ resubmitRetryTimers'[t] = resubmitRetryTimers[t]
    BY StopRetriesEffect
  <1>2. RetryInv'
    BY <1>1 DEF CountInv, RetryInv, LoopFor
  <1>3. ReportInv' /\ StreakMatchesPool'
    BY DEF CountInv, ReportInv, StreakMatchesPool
  <1>4. QED
    BY <1>2, <1>3 DEF CountInv

\* Every callback, poll and tick keeps the types and the counts.
LEMMA NextCounts ==
    TypeOK /\ CountInv /\ [Next]_vars => TypeOK' /\ CountInv'
  <1> SUFFICES ASSUME TypeOK, CountInv, [Next]_vars
               PROVE  TypeOK' /\ CountInv'
    OBVIOUS
  <1>i. Lineage \in [Block -> SUBSET Block]
    BY LineageFacts
  <1>t. TreeTypeOK /\ TrackerTypeOK /\ bodyAt \in [Block -> BodyStage]
        /\ awaitPrune \subseteq Height /\ finalizedTip \in Block \cup {NoBlock}
    BY DEF TypeOK
  <1>s. {"none", "forked", "getBlock", "captured", "lost"} = BodyStage
    BY DEF BodyStage
  <1>l. ASSUME NEW b \in Block, NoteHeight(b)
        PROVE  lastKnownHeight' \in Height
    BY <1>l, <1>t, NumberInHeight, HeightFacts DEF NoteHeight, TrackerTypeOK
  <1>1. ASSUME NEW n \in Node, NEW b \in Block, HeadKnown(n, b)
        PROVE  TypeOK' /\ CountInv'
    <2>1. UNCHANGED <<trackerVars, monitorVars>>
      BY <1>1 DEF HeadKnown
    <2>2. TreeTypeOK'
      BY <1>1, <1>t DEF HeadKnown, AddKnownBlock, TreeTypeOK
    <2>3. TrackerTypeOK'
      BY <1>t, <2>1 DEF trackerVars, TrackerTypeOK
    <2>4. CountInv'
      BY <2>1, CountsKept DEF trackerVars
    <2>5. QED
      BY <1>t, <2>1, <2>2, <2>3, <2>4 DEF TypeOK, monitorVars
  <1>2. ASSUME NEW n \in Node, NEW b \in Block, HeadAlone(n, b)
        PROVE  TypeOK' /\ CountInv'
    <2>1. TreeTypeOK'
      BY <1>2, <1>t, AddNewBlockType DEF HeadAlone, TreeTypeOK
    <2>2. TrackerTypeOK'
      BY <1>2, <1>l, <1>t DEF HeadAlone, TrackerTypeOK
    <2>3. bodyAt' \in [Block -> BodyStage] /\ UNCHANGED <<awaitPrune, finalizedTip>>
      BY <1>2, <1>s, <1>t DEF HeadAlone, MoveBody
    <2>4. CountInv'
      BY <1>2, CountsKept DEF HeadAlone
    <2>5. QED
      BY <1>t, <2>1, <2>2, <2>3, <2>4 DEF TypeOK
  <1>3. ASSUME NEW n \in Node, NEW b \in Block, HeadForked(n, b)
        PROVE  TypeOK' /\ CountInv'
    <2>1. TreeTypeOK'
      BY <1>3, <1>t, AddNewBlockType DEF HeadForked, TreeTypeOK
    <2>2. TrackerTypeOK'
      BY <1>3, <1>t DEF HeadForked, trackerVars, TrackerTypeOK
    <2>3. bodyAt' \in [Block -> BodyStage] /\ UNCHANGED <<awaitPrune, finalizedTip>>
      BY <1>3, <1>s, <1>t DEF HeadForked, MoveBody
    <2>4. CountInv'
      BY <1>3, CountsKept DEF HeadForked, trackerVars
    <2>5. QED
      BY <1>t, <2>1, <2>2, <2>3, <2>4 DEF TypeOK
  <1>4. ASSUME NEW b \in Block, ForkHandled(b)
        PROVE  TypeOK' /\ CountInv'
    <2>1. TreeTypeOK'
      BY <1>4, <1>t DEF ForkHandled, treeVars, TreeTypeOK
    <2>2. TrackerTypeOK'
      BY <1>4, <1>l, <1>t DEF ForkHandled, TrackerTypeOK
    <2>3. bodyAt' \in [Block -> BodyStage] /\ UNCHANGED <<awaitPrune, finalizedTip>>
      BY <1>4, <1>s, <1>t DEF ForkHandled, MoveBody
    <2>4. CountInv'
      BY <1>4, CountsKept DEF ForkHandled
    <2>5. QED
      BY <1>t, <2>1, <2>2, <2>3, <2>4 DEF TypeOK
  <1>5. ASSUME NEW b \in Block, BodyArrives(b)
        PROVE  TypeOK' /\ CountInv'
    <2>1. TreeTypeOK'
      BY <1>5, <1>t DEF BodyArrives, treeVars, TreeTypeOK
    <2>2. blockExtrinsics' \subseteq Block /\ includedHashes' \subseteq Tx
      BY <1>5, <1>t, TxAssumption DEF BodyArrives, CaptureBody, TrackerTypeOK
    <2>3. TrackerTypeOK'
      BY <1>5, <1>t, <2>2 DEF BodyArrives, TrackerTypeOK
    <2>4. bodyAt' \in [Block -> BodyStage] /\ UNCHANGED <<awaitPrune, finalizedTip>>
      BY <1>5, <1>s, <1>t DEF BodyArrives, MoveBody
    <2>5. CountInv'
      BY <1>5, CountsKept DEF BodyArrives
    <2>6. QED
      BY <1>t, <2>1, <2>3, <2>4, <2>5 DEF TypeOK
  <1>6. ASSUME NEW b \in Block, BodyFails(b)
        PROVE  TypeOK' /\ CountInv'
    <2>1. TreeTypeOK' /\ UNCHANGED trackerVars
      BY <1>6, <1>t DEF BodyFails, treeVars, TreeTypeOK
    <2>2. TrackerTypeOK'
      BY <1>t, <2>1 DEF trackerVars, TrackerTypeOK
    <2>3. bodyAt' \in [Block -> BodyStage] /\ UNCHANGED <<awaitPrune, finalizedTip>>
      BY <1>6, <1>s, <1>t DEF BodyFails, MoveBody
    <2>4. CountInv'
      BY <2>1, CountsKept DEF trackerVars
    <2>5. QED
      BY <1>t, <2>1, <2>2, <2>3, <2>4 DEF TypeOK
  <1>7. ASSUME NEW b \in Block, NEW connected \in BOOLEAN, FinalizedHead(b, connected)
        PROVE  TypeOK' /\ CountInv'
    <2>1. TrackerFinalized(b, connected)
      BY <1>7 DEF FinalizedHead
    <2>2. /\ lastKnownHeight' \in Height
          /\ lastCanonicalWalkHeight' \in Height \cup {-1}
          /\ processedForkHeights' \subseteq Height
          /\ pendingReorgReview' \subseteq ReviewEntry
          /\ latestBySignerNonce' = MarkedCanonical(CanonicalWalk(b))
      BY <1>i, <1>t, <2>1, TrackerFinalizedEffect
    <2>3. PICK txs \in SUBSET Tx : \E lostAt \in [txs -> Height] :
             StartRetries(txs, {}, lostAt, latestBySignerNonce', lastKnownHeight', connected)
      BY <1>i, <1>t, <2>1, TrackerFinalizedEffect
    <2>4. PICK lostAt \in [txs -> Height] :
             StartRetries(txs, {}, lostAt, latestBySignerNonce', lastKnownHeight', connected)
      BY <2>3
    <2>5. /\ everRetried' \subseteq Tx /\ TimersOK' /\ resubmissions' \in [Tx -> Nat]
          /\ RetryInv => RetryInv'
      <3>1. TrackerTypeOK /\ txs \subseteq Tx /\ \A t \in txs : lostAt[t] \in Height
        BY <1>t
      <3>2. QED
        BY <2>4, <3>1, StartRetriesEffect
    <2>6. PICK reported \in SUBSET Tx : \E status \in [reported -> Status \ {"dropped"}] :
             Finalize(reported, status)
      BY <1>i, <1>t, <2>1, TrackerFinalizedEffect
    <2>7. PICK status \in [reported -> Status \ {"dropped"}] : Finalize(reported, status)
      BY <2>6
    <2>8. /\ finalizedHashes' \subseteq Tx /\ submittedTxs' \in [Tx -> Seq(Status)]
          /\ ReportInv => ReportInv'
      BY <1>t, <2>7, FinalizeEffect
    <2>9. CanonicalWalk(b) \subseteq Block
      BY <1>i DEF CanonicalWalk
    <2>10. latestBySignerNonce' \in [SignerNonce -> Tx \cup {NoInclusion}]
      BY <1>t, <2>2, <2>9, MarkedType
    <2>11. UNCHANGED <<blockExtrinsics, includedHashes, pendingPool, missingCandidates, confirmations>>
      BY <2>1 DEF TrackerFinalized
    <2>12. TrackerTypeOK'
      BY <1>t, <2>2, <2>5, <2>8, <2>10, <2>11 DEF TrackerTypeOK, TimersOK
    <2>13. TreeTypeOK'
      BY <1>7, <1>t, NumberInHeight DEF FinalizedHead, AdvanceFinalized, TreeTypeOK
    <2>14. awaitPrune' \subseteq Height /\ finalizedTip' \in Block \cup {NoBlock} /\ UNCHANGED bodyAt
      BY <1>7, <1>t, NumberInHeight DEF FinalizedHead
    <2>15. StreakMatchesPool'
      BY <2>11 DEF CountInv, StreakMatchesPool
    <2>16. QED
      BY <1>t, <2>5, <2>8, <2>12, <2>13, <2>14, <2>15 DEF TypeOK, CountInv
  <1>8. ASSUME NEW k \in Height, FinalizedHeadResolved(k)
        PROVE  TypeOK' /\ CountInv'
    <2> DEFINE m == k - PruneAfter
    <2>1. Prune(m) /\ PruneTracker(m) /\ awaitPrune' = awaitPrune \ {k}
          /\ UNCHANGED <<finalizedHeight, bodyAt, finalizedTip>>
      BY <1>8 DEF FinalizedHeadResolved
    <2>2. m \in Int
      BY FeedAssumption DEF Height
    <2> HIDE DEF m
    <2>3. TreeTypeOK'
      BY <1>t, <2>1, <2>2, PruneType DEF TreeTypeOK
    <2>4. PICK txs : StopRetries(txs)
      BY <2>1 DEF PruneTracker
    <2>5. UNCHANGED <<lastCanonicalWalkHeight, lastKnownHeight, latestBySignerNonce,
                      includedHashes, pendingPool, missingCandidates, pendingReorgReview,
                      finalizedHashes, everRetried, submittedTxs, resubmissions, confirmations>>
      BY <2>1 DEF PruneTracker
    <2>6. blockExtrinsics' \subseteq blockExtrinsics /\ processedForkHeights' \subseteq processedForkHeights
      BY <2>1 DEF PruneTracker
    <2>7. TimersOK'
      BY <1>t, <2>4, StopRetriesEffect
    <2>8. TrackerTypeOK'
      BY <1>t, <2>5, <2>6, <2>7 DEF TrackerTypeOK, TimersOK
    <2>9. CountInv'
      BY <1>t, <2>4, <2>5, StoppingKeepsCounts
    <2>10. QED
      BY <1>t, <2>1, <2>3, <2>8, <2>9 DEF TypeOK
  <1>9. ASSUME NEW pool \in SUBSET PoolTx, NEW connected \in BOOLEAN, PoolPolled(pool, connected)
        PROVE  TypeOK' /\ CountInv'
    <2>1. PoolAnswered(pool, connected) /\ pool \subseteq Tx
      BY <1>9, FeedAssumption DEF PoolPolled
    <2>2. /\ pendingPool' = pool
          /\ DOMAIN missingCandidates' \subseteq Tx
          /\ \A t \in DOMAIN missingCandidates' : missingCandidates'[t] \in Candidate
          /\ StreakMatchesPool => StreakMatchesPool'
      BY <1>t, <2>1, PoolAnsweredEffect
    <2>3. PICK txs \in SUBSET Tx, stopped \in SUBSET Tx : \E lostAt \in [txs -> Height] :
             StartRetries(txs, stopped, lostAt, latestBySignerNonce, lastKnownHeight, connected)
      BY <1>t, <2>1, PoolAnsweredEffect
    <2>4. PICK lostAt \in [txs -> Height] :
             StartRetries(txs, stopped, lostAt, latestBySignerNonce, lastKnownHeight, connected)
      BY <2>3
    <2>5. /\ everRetried' \subseteq Tx /\ TimersOK' /\ resubmissions' \in [Tx -> Nat]
          /\ RetryInv => RetryInv'
      <3>1. TrackerTypeOK /\ txs \subseteq Tx /\ \A t \in txs : lostAt[t] \in Height
        BY <1>t
      <3>2. QED
        BY <2>4, <3>1, StartRetriesEffect
    <2>6. PICK reported \in SUBSET (Tx \ includedHashes) : \E status \in [reported -> Status] :
             Finalize(reported, status)
      BY <1>t, <2>1, PoolAnsweredEffect
    <2>7. PICK status \in [reported -> Status] : Finalize(reported, status)
      BY <2>6
    <2>8. /\ finalizedHashes' \subseteq Tx /\ submittedTxs' \in [Tx -> Seq(Status)]
          /\ ReportInv => ReportInv'
      BY <1>t, <2>7, FinalizeEffect
    <2>9. UNCHANGED <<blockExtrinsics, processedForkHeights, lastCanonicalWalkHeight,
                      lastKnownHeight, latestBySignerNonce, includedHashes,
                      pendingReorgReview, confirmations>>
      BY <2>1 DEF PoolAnswered
    <2>10. TrackerTypeOK'
      BY <1>t, <2>1, <2>2, <2>5, <2>8, <2>9 DEF TrackerTypeOK, TimersOK
    <2>11. UNCHANGED <<treeVars, monitorVars>>
      BY <1>9 DEF PoolPolled
    <2>12. TreeTypeOK'
      BY <1>t, <2>11 DEF treeVars, TreeTypeOK
    <2>13. QED
      BY <1>t, <2>2, <2>5, <2>8, <2>10, <2>11, <2>12 DEF TypeOK, CountInv, monitorVars
  <1>10. ASSUME NEW t \in Tx, NEW connected \in BOOLEAN, RetryTimer(t, connected)
         PROVE  TypeOK' /\ CountInv'
    <2>1. RetryTick(t, connected) /\ UNCHANGED <<treeVars, monitorVars>>
      BY <1>10 DEF RetryTimer
    <2>2. /\ TimersOK' /\ resubmissions' \in [Tx -> Nat] /\ confirmations' \in [Tx -> Nat]
          /\ RetryInv => RetryInv'
      BY <1>t, <2>1, RetryTickEffect
    <2>3. UNCHANGED <<blockExtrinsics, processedForkHeights, lastCanonicalWalkHeight,
                      lastKnownHeight, latestBySignerNonce, includedHashes, pendingPool,
                      missingCandidates, pendingReorgReview, finalizedHashes, everRetried,
                      submittedTxs>>
      BY <2>1 DEF RetryTick
    <2>4. TrackerTypeOK'
      BY <1>t, <2>2, <2>3 DEF TrackerTypeOK, TimersOK
    <2>5. TreeTypeOK'
      BY <1>t, <2>1 DEF treeVars, TreeTypeOK
    <2>6. ReportInv' /\ StreakMatchesPool'
      BY <2>3 DEF CountInv, ReportInv, StreakMatchesPool
    <2>7. QED
      BY <1>t, <2>1, <2>2, <2>4, <2>5, <2>6 DEF TypeOK, CountInv, monitorVars
  <1>11. CASE UNCHANGED vars
    <2>1. UNCHANGED <<treeVars, trackerVars, monitorVars>>
      BY <1>11 DEF vars
    <2>2. TreeTypeOK' /\ TrackerTypeOK'
      BY <1>t, <2>1 DEF treeVars, TreeTypeOK, trackerVars, TrackerTypeOK
    <2>3. CountInv'
      BY <2>1, CountsKept DEF trackerVars
    <2>4. QED
      BY <1>t, <2>1, <2>2, <2>3 DEF TypeOK, monitorVars
  <1>12. QED
    BY <1>1, <1>2, <1>3, <1>4, <1>5, <1>6, <1>7, <1>8, <1>9, <1>10, <1>11 DEF Next

\* The counts hold in every reachable state.
LEMMA CountsInvariant == Spec => [](TypeOK /\ CountInv)
  BY InitCounts, NextCounts, PTL DEF Spec

-----------------------------------------------------------------------------
(* What is canonical, what was seen, and what is confirmed *)

\* No hash in a captured body is forgotten.
SeenInv == \A b \in Block : bodyAt[b] = "captured" => Body[b] \subseteq includedHashes

\* A loop that submitted is of a hash that was submitted.  A confirmed hash
\* was submitted, is canonical, and has no loop that submits.
ConfirmedOnce(t) ==
    /\ t \in DOMAIN resubmitRetryTimers /\ resubmitRetryTimers[t].attempts > 0 => resubmissions[t] > 0
    /\ confirmations[t] > 0 =>
          /\ confirmations[t] = 1
          /\ resubmissions[t] > 0
          /\ InclusionFor(latestBySignerNonce, t) = t
          /\ t \in DOMAIN resubmitRetryTimers => resubmitRetryTimers[t].attempts = 0

ConfirmInv == \A t \in Tx : ConfirmedOnce(t)

\* The finalized chain only grows, and b is on it from now on.
LEMMA TipGrows ==
    ASSUME TypeOK, NEW b \in Block, NEW connected \in BOOLEAN, FinalizedHead(b, connected)
    PROVE  /\ finalizedTip' \in Block
           /\ Lineage[b] \subseteq Lineage[finalizedTip']
           /\ finalizedTip # NoBlock => Lineage[finalizedTip] \subseteq Lineage[finalizedTip']
  <1>1. finalizedTip \in Block \cup {NoBlock}
    BY DEF TypeOK
  <1>2. finalizedTip # NoBlock => finalizedTip \in Lineage[b] \/ b \in Lineage[finalizedTip]
    BY DEF FinalizedHead, MayFinalize
  <1>3. finalizedTip' = IF finalizedTip # NoBlock /\ b \in Lineage[finalizedTip]
                        THEN finalizedTip ELSE b
    BY DEF FinalizedHead
  <1>4. QED
    BY <1>1, <1>2, <1>3, LineageFacts

\* What a finalized head makes canonical is on the finalized chain, and what
\* was canonical stays so: a chain uses a nonce once.
LEMMA CanonicalStays ==
    ASSUME TypeOK, CanonicalOnlyFromFinalized,
           NEW b \in Block, NEW connected \in BOOLEAN, FinalizedHead(b, connected)
    PROVE  /\ CanonicalOnlyFromFinalized'
           /\ \A t \in Tx : InclusionFor(latestBySignerNonce, t) = t =>
                               InclusionFor(latestBySignerNonce', t) = t
  <1> DEFINE old(k) == latestBySignerNonce[k]
             new(k) == latestBySignerNonce'[k]
             final == Lineage[finalizedTip']
  <1>t. TrackerTypeOK /\ finalizedTip \in Block \cup {NoBlock}
    BY DEF TypeOK
  <1>1. /\ finalizedTip' \in Block
        /\ Lineage[b] \subseteq final
        /\ finalizedTip # NoBlock => Lineage[finalizedTip] \subseteq final
    BY TipGrows
  <1>2. latestBySignerNonce' = MarkedCanonical(CanonicalWalk(b))
    BY DEF FinalizedHead, TrackerFinalized
  <1>3. CanonicalWalk(b) \subseteq Block /\ CanonicalWalk(b) \subseteq final
    BY <1>1, LineageFacts DEF CanonicalWalk
  <1>4. final \subseteq Block
    BY <1>1, LineageFacts
  <1> HIDE DEF final
  <1>5. ASSUME NEW k \in SignerNonce, old(k) # NoInclusion
        PROVE  Key[old(k)] = k /\ \E c \in final : old(k) \in Body[c]
    <2>1. PICK c \in Block : OnFinalChain(c) /\ old(k) \in Body[c]
      BY <1>5 DEF CanonicalOnlyFromFinalized
    <2>2. c \in final
      BY <1>1, <2>1 DEF OnFinalChain
    <2>3. QED
      BY <1>5, <2>1, <2>2 DEF CanonicalOnlyFromFinalized
  <1>6. ASSUME NEW k \in SignerNonce
        PROVE  \/ new(k) = old(k)
               \/ new(k) \in Tx /\ Key[new(k)] = k /\ \E c \in final : new(k) \in Body[c]
    BY <1>t, <1>2, <1>3, MarkedEffect
  <1>7. CanonicalOnlyFromFinalized'
    <2>1. ASSUME NEW k \in SignerNonce, new(k) # NoInclusion
          PROVE  Key[new(k)] = k /\ \E c \in final : new(k) \in Body[c]
      BY <1>5, <1>6, <2>1
    <2>2. \A c \in final : c \in Block /\ OnFinalChain(c)'
      BY <1>1, <1>4 DEF OnFinalChain, final
    <2>3. QED
      BY <2>1, <2>2 DEF CanonicalOnlyFromFinalized
  <1>8. ASSUME NEW t \in Tx, InclusionFor(latestBySignerNonce, t) = t
        PROVE  InclusionFor(latestBySignerNonce', t) = t
    <2>1. Key[t] \in SignerNonce /\ Key[t] # NoKey /\ t # NoInclusion
      BY <1>8, TxAssumption DEF InclusionFor
    <2>2. old(Key[t]) = t
      BY <1>8, <2>1 DEF InclusionFor
    <2>3. PICK c \in final : t \in Body[c]
      BY <1>5, <2>1, <2>2
    <2>4. new(Key[t]) = t
      <3>1. ASSUME NEW u \in Tx, u = new(Key[t]), Key[u] = Key[t], NEW d \in final, u \in Body[d]
            PROVE  u = t
        <4>1. c \in Block /\ d \in Block
          BY <1>4
        <4>2. c \in Lineage[d] \/ d \in Lineage[c]
          BY <1>1, LineageFacts DEF final
        <4>3. QED
          BY <2>1, <2>3, <3>1, <4>1, <4>2, TxAssumption
      <3>2. QED
        BY <1>6, <2>1, <2>2, <3>1
    <2>5. QED
      BY <2>1, <2>4 DEF InclusionFor
  <1>9. QED
    BY <1>7, <1>8

\* New loops confirm nothing and take nothing from what was confirmed.
LEMMA StartingKeepsConfirmed ==
    ASSUME TrackerTypeOK, ConfirmInv, NEW txs, txs \subseteq Tx, NEW stopped,
           NEW lostAt, \A t \in txs : lostAt[t] \in Height,
           NEW latest, NEW known, NEW connected,
           StartRetries(txs, stopped, lostAt, latest, known, connected),
           latestBySignerNonce' = latest, UNCHANGED confirmations,
           \A t \in Tx : InclusionFor(latestBySignerNonce, t) = t => InclusionFor(latest, t) = t
    PROVE  ConfirmInv'
  <1> SUFFICES ASSUME NEW t \in Tx
               PROVE  ConfirmedOnce(t)'
    BY DEF ConfirmInv
  <1>1. /\ TimersOK' /\ resubmissions' \in [Tx -> Nat]
        /\ resubmissions'[t] >= resubmissions[t]
        /\ t \in DOMAIN resubmitRetryTimers' =>
              \/ /\ t \in DOMAIN resubmitRetryTimers
                 /\ resubmitRetryTimers'[t] = resubmitRetryTimers[t]
              \/ resubmitRetryTimers'[t].attempts = 0
              \/ InclusionFor(latest, t) = NoInclusion /\ resubmissions'[t] > 0
    BY StartRetriesEffect
  <1>2. /\ resubmissions[t] \in Nat /\ resubmissions'[t] \in Nat /\ confirmations'[t] = confirmations[t]
        /\ t # NoInclusion
    BY <1>1, TxAssumption DEF TrackerTypeOK
  <1>3. resubmissions[t] > 0 => resubmissions'[t] > 0
    BY <1>1, <1>2
  <1>4. ConfirmedOnce(t)
    BY DEF ConfirmInv
  <1>5. ASSUME confirmations'[t] > 0
        PROVE  /\ confirmations'[t] = 1 /\ resubmissions'[t] > 0
               /\ InclusionFor(latestBySignerNonce', t) = t
               /\ t \in DOMAIN resubmitRetryTimers => resubmitRetryTimers[t].attempts = 0
    BY <1>2, <1>3, <1>4, <1>5 DEF ConfirmedOnce
  <1>6. ASSUME t \in DOMAIN resubmitRetryTimers', resubmitRetryTimers'[t].attempts > 0
        PROVE  resubmissions'[t] > 0
    BY <1>1, <1>3, <1>4, <1>6 DEF ConfirmedOnce
  <1>7. ASSUME confirmations'[t] > 0, t \in DOMAIN resubmitRetryTimers'
        PROVE  resubmitRetryTimers'[t].attempts = 0
    BY <1>1, <1>2, <1>5, <1>7
  <1>8. InclusionFor(latestBySignerNonce, t)' = InclusionFor(latestBySignerNonce', t)
    BY DEF InclusionFor
  <1>9. QED
    BY <1>5, <1>6, <1>7, <1>8 DEF ConfirmedOnce

\* A stopped loop confirms nothing when it is stopped from outside.
LEMMA StoppingKeepsConfirmed ==
    ASSUME TrackerTypeOK, ConfirmInv, NEW txs, StopRetries(txs),
           UNCHANGED <<latestBySignerNonce, resubmissions, confirmations>>
    PROVE  ConfirmInv'
  <1>1. \A t \in DOMAIN resubmitRetryTimers' :
           t \in DOMAIN resubmitRetryTimers /\ resubmitRetryTimers'[t] = resubmitRetryTimers[t]
    BY StopRetriesEffect
  <1>2. QED
    BY <1>1 DEF ConfirmInv, ConfirmedOnce, InclusionFor

\* Stretches that touch neither loops nor confirmations.
LEMMA ConfirmedKept ==
    ASSUME ConfirmInv,
           UNCHANGED <<latestBySignerNonce, resubmitRetryTimers, resubmissions, confirmations>>
    PROVE  ConfirmInv'
  BY DEF ConfirmInv, ConfirmedOnce, InclusionFor

\* A tick confirms a hash that it submitted and that is canonical, and stops
\* its loop in the same step, so that no later tick confirms it again.
LEMMA TickConfirmsOnce ==
    ASSUME TrackerTypeOK, ConfirmInv, NEW t \in Tx, NEW connected \in BOOLEAN, RetryTick(t, connected)
    PROVE  ConfirmInv'
  <1> DEFINE r == resubmitRetryTimers
             loop == r[t]
             landed == InclusionFor(latestBySignerNonce, t) = t /\ loop.attempts > 0
  <1>1. /\ TimersOK /\ resubmissions \in [Tx -> Nat] /\ confirmations \in [Tx -> Nat]
        /\ t \in DOMAIN r /\ UNCHANGED latestBySignerNonce /\ loop.attempts \in Nat
    BY DEF TrackerTypeOK, TimersOK, RetryTick, RetryLoop
  <1>2. ConfirmedOnce(t) /\ t # NoInclusion
    BY TxAssumption DEF ConfirmInv
  <1>3. CASE ~MaySubmit(t, loop.attempts, latestBySignerNonce, lastKnownHeight)
    <2>1. /\ StopRetries({t}) /\ UNCHANGED resubmissions
          /\ confirmations' = [confirmations EXCEPT ![t] = @ + IF landed THEN 1 ELSE 0]
      BY <1>3 DEF RetryTick
    <2>2. \A u \in DOMAIN resubmitRetryTimers' :
             u \in DOMAIN r /\ u # t /\ resubmitRetryTimers'[u] = r[u]
      BY <2>1, StopRetriesEffect
    <2>3. ConfirmedOnce(t)'
      <3>1. landed => confirmations[t] = 0 /\ resubmissions[t] > 0
        BY <1>1, <1>2 DEF ConfirmedOnce
      <3>2. /\ landed => confirmations'[t] = 1
            /\ ~landed => confirmations'[t] = confirmations[t]
        <4> HIDE DEF landed
        <4>1. QED
          BY <1>1, <2>1, <3>1
      <3>3. t \notin DOMAIN resubmitRetryTimers'
        BY <2>2
      <3>4. InclusionFor(latestBySignerNonce, t)' = InclusionFor(latestBySignerNonce, t)
        BY <1>1 DEF InclusionFor
      <3>5. QED
        BY <1>1, <1>2, <2>1, <3>1, <3>2, <3>3, <3>4 DEF ConfirmedOnce
    <2>4. ASSUME NEW u \in Tx, u # t
          PROVE  ConfirmedOnce(u)'
      <3>1. ConfirmedOnce(u)
        BY DEF ConfirmInv
      <3>2. confirmations'[u] = confirmations[u]
        <4> HIDE DEF landed
        <4>1. QED
          BY <1>1, <2>1, <2>4
      <3>3. InclusionFor(latestBySignerNonce, u)' = InclusionFor(latestBySignerNonce, u)
        BY <1>1 DEF InclusionFor
      <3>4. QED
        BY <1>1, <2>1, <2>2, <3>1, <3>2, <3>3 DEF ConfirmedOnce
    <2>5. QED
      BY <2>3, <2>4 DEF ConfirmInv
  <1>4. CASE MaySubmit(t, loop.attempts, latestBySignerNonce, lastKnownHeight)
    <2>1. /\ resubmitRetryTimers' = [r EXCEPT ![t].attempts = @ + 1]
          /\ resubmissions' = [resubmissions EXCEPT ![t] = @ + 1]
          /\ UNCHANGED confirmations
      BY <1>4 DEF RetryTick
    <2>2. /\ DOMAIN resubmitRetryTimers' = DOMAIN r
          /\ \A u \in DOMAIN r : u # t => resubmitRetryTimers'[u] = r[u]
      BY <1>1, <2>1
    <2>3. resubmissions'[t] > 0 /\ \A u \in Tx : u # t => resubmissions'[u] = resubmissions[u]
      BY <1>1, <2>1
    <2>4. confirmations'[t] = confirmations[t] /\ ~(confirmations[t] > 0)
      BY <1>2, <1>4, <2>1 DEF ConfirmedOnce, MaySubmit
    <2>5. ConfirmedOnce(t)'
      BY <2>3, <2>4 DEF ConfirmedOnce
    <2>6. ASSUME NEW u \in Tx, u # t
          PROVE  ConfirmedOnce(u)'
      <3>1. ConfirmedOnce(u)
        BY DEF ConfirmInv
      <3>2. InclusionFor(latestBySignerNonce, u)' = InclusionFor(latestBySignerNonce, u)
        BY <1>1 DEF InclusionFor
      <3>3. QED
        BY <2>1, <2>2, <2>3, <2>6, <3>1, <3>2 DEF ConfirmedOnce
    <2>7. QED
      BY <2>5, <2>6 DEF ConfirmInv
  <1>5. QED
    BY <1>3, <1>4

RescueInv == CanonicalOnlyFromFinalized /\ ConfirmInv /\ SeenInv

\* At start nothing is canonical, captured or confirmed.
LEMMA InitRescue == Init => RescueInv
  <1> SUFFICES ASSUME Init
               PROVE  RescueInv
    OBVIOUS
  <1>1. \A t \in Tx : confirmations[t] = 0
    BY DEF Init, TrackerInit
  <1>2. DOMAIN resubmitRetryTimers = {}
    BY DEF Init, TrackerInit
  <1>3. ConfirmInv
    BY <1>1, <1>2 DEF ConfirmInv, ConfirmedOnce
  <1>4. CanonicalOnlyFromFinalized
    BY DEF Init, TrackerInit, CanonicalOnlyFromFinalized
  <1>5. SeenInv
    BY DEF Init, SeenInv
  <1>6. QED
    BY <1>3, <1>4, <1>5 DEF RescueInv

\* Stretches that change neither what is canonical nor the reported chain.
LEMMA CanonicalKept ==
    ASSUME CanonicalOnlyFromFinalized, UNCHANGED <<latestBySignerNonce, finalizedTip>>
    PROVE  CanonicalOnlyFromFinalized'
  BY DEF CanonicalOnlyFromFinalized, OnFinalChain

\* Stretches that capture nothing.
LEMMA SeenKept ==
    ASSUME SeenInv, UNCHANGED <<bodyAt, includedHashes>>
    PROVE  SeenInv'
  BY DEF SeenInv

\* A stage other than "captured" asks nothing of the hashes seen.
LEMMA SeenMoved ==
    ASSUME bodyAt \in [Block -> BodyStage], SeenInv, NEW b \in Block, NEW stage, MoveBody(b, stage),
           includedHashes \subseteq includedHashes',
           stage = "captured" => Body[b] \subseteq includedHashes'
    PROVE  SeenInv'
  <1> SUFFICES ASSUME NEW c \in Block, bodyAt'[c] = "captured"
               PROVE  Body[c] \subseteq includedHashes'
    BY DEF SeenInv
  <1>1. CASE c = b
    BY <1>1 DEF MoveBody
  <1>2. CASE c # b
    <2>1. bodyAt[c] = "captured"
      BY <1>2 DEF MoveBody
    <2>2. QED
      BY <2>1 DEF SeenInv
  <1>3. QED
    BY <1>1, <1>2

\* Every callback, poll and tick keeps what is canonical, seen and confirmed.
LEMMA NextRescue == TypeOK /\ RescueInv /\ [Next]_vars => RescueInv'
  <1> SUFFICES ASSUME TypeOK, RescueInv, [Next]_vars
               PROVE  RescueInv'
    OBVIOUS
  <1>t. TrackerTypeOK /\ bodyAt \in [Block -> BodyStage]
    BY DEF TypeOK
  <1>r. CanonicalOnlyFromFinalized /\ ConfirmInv /\ SeenInv
    BY DEF RescueInv
  <1>1. ASSUME NEW n \in Node, NEW b \in Block, HeadKnown(n, b)
        PROVE  RescueInv'
    <2>1. UNCHANGED <<trackerVars, monitorVars>>
      BY <1>1 DEF HeadKnown
    <2>2. QED
      BY <1>r, <2>1, CanonicalKept, ConfirmedKept, SeenKept DEF RescueInv, trackerVars, monitorVars
  <1>2. ASSUME NEW b \in Block, NEW stage, stage # "captured", MoveBody(b, stage),
               UNCHANGED <<latestBySignerNonce, includedHashes, resubmitRetryTimers,
                           resubmissions, confirmations, finalizedTip>>
        PROVE  RescueInv'
    <2>1. SeenInv'
      BY <1>2, <1>r, <1>t, SeenMoved
    <2>2. ConfirmInv'
      BY <1>2, <1>r, ConfirmedKept
    <2>3. CanonicalOnlyFromFinalized'
      BY <1>2, <1>r, CanonicalKept
    <2>4. QED
      BY <2>1, <2>2, <2>3 DEF RescueInv
  <1>3. ASSUME NEW n \in Node, NEW b \in Block, HeadAlone(n, b)
        PROVE  RescueInv'
    BY <1>3, <1>2 DEF HeadAlone
  <1>4. ASSUME NEW n \in Node, NEW b \in Block, HeadForked(n, b)
        PROVE  RescueInv'
    BY <1>4, <1>2 DEF HeadForked, trackerVars
  <1>5. ASSUME NEW b \in Block, ForkHandled(b)
        PROVE  RescueInv'
    BY <1>5, <1>2 DEF ForkHandled
  <1>6. ASSUME NEW b \in Block, BodyFails(b)
        PROVE  RescueInv'
    BY <1>6, <1>2 DEF BodyFails, trackerVars
  <1>7. ASSUME NEW b \in Block, BodyArrives(b)
        PROVE  RescueInv'
    <2>1. /\ MoveBody(b, "captured") /\ includedHashes' = includedHashes \cup Body[b]
          /\ UNCHANGED <<latestBySignerNonce, resubmitRetryTimers, resubmissions, confirmations,
                         finalizedTip>>
      BY <1>7 DEF BodyArrives, CaptureBody
    <2>2. SeenInv'
      BY <1>r, <1>t, <2>1, SeenMoved
    <2>3. ConfirmInv'
      BY <1>r, <2>1, ConfirmedKept
    <2>4. CanonicalOnlyFromFinalized'
      BY <1>r, <2>1, CanonicalKept
    <2>5. QED
      BY <2>2, <2>3, <2>4 DEF RescueInv
  <1>8. ASSUME NEW b \in Block, NEW connected \in BOOLEAN, FinalizedHead(b, connected)
        PROVE  RescueInv'
    <2>1. TrackerFinalized(b, connected) /\ UNCHANGED bodyAt
      BY <1>8 DEF FinalizedHead
    <2>2. UNCHANGED <<includedHashes, confirmations>>
      BY <2>1 DEF TrackerFinalized
    <2>3. /\ CanonicalOnlyFromFinalized'
          /\ \A t \in Tx : InclusionFor(latestBySignerNonce, t) = t =>
                              InclusionFor(latestBySignerNonce', t) = t
      BY <1>8, <1>r, CanonicalStays
    <2>4. PICK txs \in SUBSET Tx : \E lostAt \in [txs -> Height] :
             StartRetries(txs, {}, lostAt, latestBySignerNonce', lastKnownHeight', connected)
      BY <1>t, <2>1, TrackerFinalizedEffect, LineageFacts
    <2>5. PICK lostAt \in [txs -> Height] :
             StartRetries(txs, {}, lostAt, latestBySignerNonce', lastKnownHeight', connected)
      BY <2>4
    <2>6. txs \subseteq Tx /\ \A t \in txs : lostAt[t] \in Height
      OBVIOUS
    <2>7. ConfirmInv'
      BY <1>r, <1>t, <2>2, <2>3, <2>5, <2>6, StartingKeepsConfirmed
    <2>8. SeenInv'
      BY <1>r, <2>1, <2>2, SeenKept
    <2>9. QED
      BY <2>3, <2>7, <2>8 DEF RescueInv
  <1>9. ASSUME NEW k \in Height, FinalizedHeadResolved(k)
        PROVE  RescueInv'
    <2>1. PruneTracker(k - PruneAfter) /\ UNCHANGED <<bodyAt, finalizedTip>>
      BY <1>9 DEF FinalizedHeadResolved
    <2>2. PICK txs : StopRetries(txs)
      BY <2>1 DEF PruneTracker
    <2>3. UNCHANGED <<latestBySignerNonce, includedHashes, resubmissions, confirmations>>
      BY <2>1 DEF PruneTracker
    <2>4. ConfirmInv'
      BY <1>r, <1>t, <2>2, <2>3, StoppingKeepsConfirmed
    <2>5. SeenInv' /\ CanonicalOnlyFromFinalized'
      BY <1>r, <2>1, <2>3, SeenKept, CanonicalKept
    <2>6. QED
      BY <2>4, <2>5 DEF RescueInv
  <1>10. ASSUME NEW pool \in SUBSET PoolTx, NEW connected \in BOOLEAN, PoolPolled(pool, connected)
         PROVE  RescueInv'
    <2>1. PoolAnswered(pool, connected) /\ pool \subseteq Tx /\ UNCHANGED monitorVars
      BY <1>10, FeedAssumption DEF PoolPolled
    <2>2. UNCHANGED <<latestBySignerNonce, includedHashes, confirmations, bodyAt, finalizedTip>>
      BY <2>1 DEF PoolAnswered, monitorVars
    <2>3. PICK txs \in SUBSET Tx, stopped \in SUBSET Tx : \E lostAt \in [txs -> Height] :
             StartRetries(txs, stopped, lostAt, latestBySignerNonce, lastKnownHeight, connected)
      BY <1>t, <2>1, PoolAnsweredEffect
    <2>4. PICK lostAt \in [txs -> Height] :
             StartRetries(txs, stopped, lostAt, latestBySignerNonce, lastKnownHeight, connected)
      BY <2>3
    <2>5. txs \subseteq Tx /\ \A t \in txs : lostAt[t] \in Height
      OBVIOUS
    <2>6. ConfirmInv'
      BY <1>r, <1>t, <2>2, <2>4, <2>5, StartingKeepsConfirmed
    <2>7. SeenInv' /\ CanonicalOnlyFromFinalized'
      BY <1>r, <2>2, SeenKept, CanonicalKept
    <2>8. QED
      BY <2>6, <2>7 DEF RescueInv
  <1>11. ASSUME NEW t \in Tx, NEW connected \in BOOLEAN, RetryTimer(t, connected)
         PROVE  RescueInv'
    <2>1. RetryTick(t, connected) /\ UNCHANGED monitorVars
      BY <1>11 DEF RetryTimer
    <2>2. UNCHANGED <<latestBySignerNonce, includedHashes, bodyAt, finalizedTip>>
      BY <2>1 DEF RetryTick, monitorVars
    <2>3. ConfirmInv'
      BY <1>r, <1>t, <2>1, TickConfirmsOnce
    <2>4. SeenInv' /\ CanonicalOnlyFromFinalized'
      BY <1>r, <2>2, SeenKept, CanonicalKept
    <2>5. QED
      BY <2>3, <2>4 DEF RescueInv
  <1>12. CASE UNCHANGED vars
    <2>1. UNCHANGED <<trackerVars, monitorVars>>
      BY <1>12 DEF vars
    <2>2. QED
      BY <1>r, <2>1, CanonicalKept, ConfirmedKept, SeenKept DEF RescueInv, trackerVars, monitorVars
  <1>13. QED
    BY <1>1, <1>3, <1>4, <1>5, <1>6, <1>7, <1>8, <1>9, <1>10, <1>11, <1>12 DEF Next

\* All of it holds in every reachable state.
LEMMA RescueInvariant == Spec => [](TypeOK /\ CountInv /\ RescueInv)
  <1>1. Init => TypeOK /\ CountInv /\ RescueInv
    BY InitCounts, InitRescue
  <1>2. TypeOK /\ CountInv /\ RescueInv /\ [Next]_vars => (TypeOK /\ CountInv /\ RescueInv)'
    BY NextCounts, NextRescue
  <1>3. QED
    BY <1>1, <1>2, PTL DEF Spec

-----------------------------------------------------------------------------
(* Theorems *)

\* Every variable of the tracker, the store and the callbacks keeps its type,
\* whatever the chain, the feed, the pools and the order of the callbacks.
THEOREM TxTypes == Spec => []TypeOK
  BY CountsInvariant, PTL

\* A hash is reported once, whichever of the pool review and the reviews of
\* losing blocks reaches it first: finalize() remembers it before it reports,
\* and below MAX_FINALIZED_HASHES the set is never cleared.
THEOREM ReportedOnce == Spec => []OneOutcomePerTx
  <1>1. CountInv => OneOutcomePerTx
    BY DEF CountInv, ReportInv, OneOutcomePerTx
  <1>2. QED
    BY <1>1, CountsInvariant, PTL

\* The monitor submits no hash more often than MAX_RESUBMIT_RETRIES, however
\* often it is lost, pruned, seen again and lost again: everRetried grants one
\* loop, and the loop counts what it submits.
THEOREM RetriedOnce == Spec => []OneRetryLifecycle
  <1>1. CountInv => OneRetryLifecycle
    BY DEF CountInv, RetryInv, LoopFor, OneRetryLifecycle
  <1>2. QED
    BY <1>1, CountsInvariant, PTL

\* The streak of a candidate and the pool snapshot never disagree, although a
\* poll removes, resets and counts in three loops.
THEOREM StreaksAgree == Spec => []StreakMatchesPool
  <1>1. CountInv => StreakMatchesPool
    BY DEF CountInv
  <1>2. QED
    BY <1>1, CountsInvariant, PTL

\* Only transactions of the finalized chain become canonical, so that a losing
\* block's own transactions never pass for their resubmission.
THEOREM CanonicalIsFinal == Spec => []CanonicalOnlyFromFinalized
  <1>1. RescueInv => CanonicalOnlyFromFinalized
    BY DEF RescueInv
  <1>2. QED
    BY <1>1, RescueInvariant, PTL

\* A resubmission is confirmed once, and only for a hash that the monitor
\* submitted and that is canonical: what is canonical stays so.
THEOREM ConfirmationsAreReal == Spec => []ConfirmedMeansRescued
  <1>1. RescueInv => ConfirmedMeansRescued
    BY DEF RescueInv, ConfirmInv, ConfirmedOnce, ConfirmedMeansRescued
  <1>2. QED
    BY <1>1, RescueInvariant, PTL

\* what follows does not depend on the shape of the chain
HIDE ChainAssumption

\* Whatever is new in what was reported of a hash is what finalize() was given.
LEMMA ReportedBy ==
    ASSUME TrackerTypeOK, NEW txs, txs \subseteq Tx, NEW status, status \in [txs -> Status],
           Finalize(txs, status), NEW t \in Tx, submittedTxs'[t] # submittedTxs[t]
    PROVE  t \in txs /\ submittedTxs'[t] = Append(submittedTxs[t], status[t])
  <1>1. \A u \in txs : status[u] \in Status
    OBVIOUS
  <1>2. \A u \in Tx : \/ submittedTxs'[u] = submittedTxs[u]
                      \/ /\ u \in txs
                         /\ submittedTxs'[u] = Append(submittedTxs[u], status[u])
    BY <1>1, FinalizeEffect
  <1>3. QED
    BY <1>2

\* A hash reported as dropped was given to finalize() as dropped.
LEMMA LastReported ==
    ASSUME TrackerTypeOK, NEW t \in Tx, submittedTxs'[t] # submittedTxs[t],
           submittedTxs'[t][Len(submittedTxs'[t])] = "dropped",
           NEW txs, txs \subseteq Tx, NEW status, status \in [txs -> Status], Finalize(txs, status)
    PROVE  t \in txs /\ status[t] = "dropped"
  <1>1. t \in txs /\ submittedTxs'[t] = Append(submittedTxs[t], status[t])
    BY ReportedBy
  <1>2. status[t] \in Status /\ submittedTxs[t] \in Seq(Status)
    BY <1>1 DEF TrackerTypeOK
  <1>3. submittedTxs'[t][Len(submittedTxs'[t])] = status[t]
    BY <1>1, <1>2, AppendProperties
  <1>4. QED
    BY <1>1, <1>3

\* A step that reports a hash as dropped finds it in no captured block.
LEMMA DropsUnseen ==
    ASSUME TypeOK, RescueInv, [Next]_vars, NEW t \in Tx, Reported(t),
           submittedTxs'[t][Len(submittedTxs'[t])] = "dropped",
           NEW c \in Block, t \in Body[c], bodyAt[c] = "captured"
    PROVE  FALSE
  <1>t. TrackerTypeOK
    BY DEF TypeOK
  <1>s. t \in includedHashes
    BY DEF RescueInv, SeenInv
  <1>l. submittedTxs[t] \in Seq(Status)
    BY <1>t DEF TrackerTypeOK
  <1>k. submittedTxs'[t] # submittedTxs[t]
    <2>1. Len(submittedTxs[t]) \in Nat
      BY <1>l, LenProperties
    <2>2. QED
      BY <2>1 DEF Reported
  <1>1. ASSUME NEW txs \in SUBSET Tx, NEW status \in [txs -> Status], Finalize(txs, status)
        PROVE  t \in txs /\ status[t] = "dropped"
    <2>1. TrackerTypeOK /\ txs \subseteq Tx /\ status \in [txs -> Status] /\ Finalize(txs, status)
      BY <1>t, <1>1
    <2>2. QED
      BY <1>k, <2>1, LastReported
  <1>2. ASSUME NEW b \in Block, NEW connected \in BOOLEAN, FinalizedHead(b, connected)
        PROVE  FALSE
    <2>1. TrackerFinalized(b, connected)
      BY <1>2 DEF FinalizedHead
    <2>2. PICK txs \in SUBSET Tx : \E status \in [txs -> Status \ {"dropped"}] : Finalize(txs, status)
      BY <1>t, <2>1, TrackerFinalizedEffect, LineageFacts
    <2>3. PICK status \in [txs -> Status \ {"dropped"}] : Finalize(txs, status)
      BY <2>2
    <2>4. status \in [txs -> Status]
      OBVIOUS
    <2>5. t \in txs /\ status[t] = "dropped"
      BY <1>1, <2>3, <2>4
    <2>6. QED
      BY <2>5
  <1>3. ASSUME NEW pool \in SUBSET PoolTx, NEW connected \in BOOLEAN, PoolPolled(pool, connected)
        PROVE  FALSE
    <2>1. PoolAnswered(pool, connected) /\ pool \subseteq Tx
      BY <1>3, FeedAssumption DEF PoolPolled
    <2>2. PICK txs \in SUBSET (Tx \ includedHashes) : \E status \in [txs -> Status] : Finalize(txs, status)
      BY <1>t, <2>1, PoolAnsweredEffect
    <2>3. PICK status \in [txs -> Status] : Finalize(txs, status)
      BY <2>2
    <2>4. txs \in SUBSET Tx
      OBVIOUS
    <2>5. t \in txs
      BY <1>1, <2>3, <2>4
    <2>6. QED
      BY <1>s, <2>5
  <1>4. ASSUME NEW k \in Height, FinalizedHeadResolved(k)
        PROVE  FALSE
    BY <1>4, <1>k DEF FinalizedHeadResolved, PruneTracker
  <1>5. ASSUME NEW u \in Tx, NEW connected \in BOOLEAN, RetryTimer(u, connected)
        PROVE  FALSE
    BY <1>5, <1>k DEF RetryTimer, RetryTick
  <1>6. ASSUME NEW n \in Node, NEW b \in Block,
               HeadKnown(n, b) \/ HeadAlone(n, b) \/ HeadForked(n, b)
        PROVE  FALSE
    BY <1>6, <1>k DEF HeadKnown, HeadAlone, HeadForked, trackerVars
  <1>7. ASSUME NEW b \in Block, ForkHandled(b) \/ BodyArrives(b) \/ BodyFails(b)
        PROVE  FALSE
    BY <1>7, <1>k DEF ForkHandled, BodyArrives, BodyFails, trackerVars
  <1>8. CASE UNCHANGED vars
    BY <1>8, <1>k DEF vars, trackerVars
  <1>9. QED
    BY <1>2, <1>3, <1>4, <1>5, <1>6, <1>7, <1>8 DEF Next

\* A transaction reported as dropped is in no captured block, on any branch,
\* pruned or not: a poll drops only what includedHashes does not hold, which
\* pruning leaves alone, and a losing block's transaction is lost or expired.
THEOREM NeverDroppedWhenSeen == Spec => DroppedOnlyIfUnseen
  <1> DEFINE A == \A t \in Tx : Reported(t) /\ submittedTxs'[t][Len(submittedTxs'[t])] = "dropped" =>
                      \A b \in Block : t \in Body[b] => bodyAt[b] # "captured"
  <1>1. TypeOK /\ RescueInv /\ [Next]_vars => [A]_vars
    BY DropsUnseen
  <1>2. Spec => [][A]_vars
    <2>1. Spec => []TypeOK /\ []RescueInv
      BY RescueInvariant, PTL
    <2>2. QED
      BY <1>1, <2>1, PTL DEF Spec
  <1>3. QED
    BY <1>2 DEF DroppedOnlyIfUnseen

=============================================================================
