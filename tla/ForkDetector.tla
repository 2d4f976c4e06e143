----------------------------- MODULE ForkDetector -----------------------------
(***************************************************************************)
(* What src/src/monitor/fork-detector.js keeps in memory about the forks   *)
(* of one chain.  The operations here are the synchronous parts of its     *)
(* methods; ForkMonitor composes them with the awaits between them.        *)
(***************************************************************************)
EXTENDS BlockTree

CONSTANT MaxRecentForks  \* capacity of the ring buffer, 5000 in the code

ASSUME RingAssumption == MaxRecentForks \in Nat \ {0}

VARIABLES
    recordedForks,      \* keys of recordedForks: heights with a recorded, unresolved fork
    recentForks,        \* the ring buffer: entries [height, resolved], oldest first
    totalForkCount,     \* forks since startup; fork_events_total counts the same
    activeForkHeights   \* the active_fork_heights gauge

detectorVars == <<recordedForks, recentForks, totalForkCount, activeForkHeights>>

ForkEntry == [height : Height, resolved : BOOLEAN]

DetectorTypeOK ==
    /\ recordedForks \subseteq Height
    /\ recentForks \in Seq(ForkEntry)
    /\ totalForkCount \in Nat
    /\ activeForkHeights \in Int

DetectorInit ==
    /\ recordedForks = {}
    /\ recentForks = <<>>
    /\ totalForkCount = 0
    /\ activeForkHeights = 0

-----------------------------------------------------------------------------

\* A variant with a plausible mistake: a full buffer drops the newest entry.
PushRecentDropNewest(ring, entry) ==
    IF Len(ring) = MaxRecentForks THEN ring ELSE Append(ring, entry)

\* the push onto the ring buffer; the oldest entry leaves a full buffer
PushRecent(ring, entry) ==
    LET grown == Append(ring, entry)
    IN  IF Len(grown) > MaxRecentForks THEN Tail(grown) ELSE grown

\* the position findLast returns: the newest entry for height h
IsNewestEntry(i, h) ==
    /\ recentForks[i].height = h
    /\ \A j \in DOMAIN recentForks : j > i => recentForks[j].height # h

\* onNewBlock's recordedForks.set and onForkDetected up to its first await
RecordFork(h) ==
    /\ recordedForks' = recordedForks \cup {h}
    /\ recentForks' = PushRecent(recentForks, [height |-> h, resolved |-> FALSE])
    /\ totalForkCount' = totalForkCount + 1
    /\ activeForkHeights' = activeForkHeights + 1

\* the recorded heights finality at k resolves, since finality can skip heights
ResolvedBy(k) == {h \in recordedForks : h <= k}

\* Variants: one height too many, and one too few.
DropThroughNext(heights, k) == {h \in heights : h > k + 1}

DropBelow(heights, k) == {h \in heights : h >= k}

\* the heights left in recordedForks when those up to k are deleted
DropThrough(heights, k) == {h \in heights : h > k}

\* Variants of MarkResolved: the gauge is decremented for every forked height
\* in the tree, or once per notification.
MarkResolvedForked(k) ==
    /\ activeForkHeights' = activeForkHeights - Cardinality({h \in ForkedHeights : h <= k})
    /\ UNCHANGED <<recentForks, totalForkCount>>

MarkResolvedOnce(k) ==
    /\ activeForkHeights' = IF ResolvedBy(k) # {} THEN activeForkHeights - 1
                            ELSE activeForkHeights
    /\ UNCHANGED <<recentForks, totalForkCount>>

\* onHeightFinalized but for the deletions: the gauge and the ring buffer
MarkResolved(k) ==
    /\ activeForkHeights' = activeForkHeights - Cardinality(ResolvedBy(k))
    /\ recentForks' =
          [i \in DOMAIN recentForks |->
              IF \E h \in ResolvedBy(k) : IsNewestEntry(i, h)
              THEN [recentForks[i] EXCEPT !.resolved = TRUE]
              ELSE recentForks[i]]
    /\ UNCHANGED totalForkCount

=============================================================================
