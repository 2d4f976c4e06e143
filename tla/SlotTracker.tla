----------------------------- MODULE SlotTracker -----------------------------
(***************************************************************************)
(* Slot accounting of an aura chain, src/src/monitor/slot-tracker.js, and  *)
(* the part of the finalizedHeads callback of src/src/chain/manager.js     *)
(* that drives it.                                                         *)
(*                                                                         *)
(* All nodes finalize one chain, so a header is its number.  A job is a    *)
(* call of _processFinalizedHeader; what keeps the set of running jobs     *)
(* from growing beyond one is the promise chain _queue.  Whose slot a slot *)
(* is (the authorities) is left out: it only labels what is counted.       *)
(***************************************************************************)
EXTENDS Integers, Sequences, FiniteSets

CONSTANTS
    Node,         \* the nodes of the chain
    NoNode,       \* connections is empty
    MaxNumber,    \* bound: the highest block of the instance
    Slot,         \* Slot[k]: extractSlot of the finalized header number k; blocks
                  \* may share a slot (elastic scaling), Unset is its null
    FetchWindow,  \* 50: how far back intermediate headers are fetched
    MaxHistory,   \* MAX_HISTORY, 30
    MaxCombos,    \* 100: entries kept in missedCombos
    MaxQueue,     \* bound: headers waiting in _queue
    Unset         \* JavaScript's null

ASSUME SlotAssumption ==
    /\ NoNode \notin Node
    /\ MaxNumber \in Nat
    /\ Slot \in [1..MaxNumber -> Nat \cup {Unset}]
    /\ \A m, n \in 1..MaxNumber :
          m < n /\ Slot[m] # Unset /\ Slot[n] # Unset => Slot[m] <= Slot[n]
    /\ FetchWindow \in Nat
    /\ MaxHistory \in Nat \ {0}
    /\ MaxCombos \in Nat \ {0}
    /\ MaxQueue \in Nat
    /\ Unset \notin Int

VARIABLES
    nodeFinalized,       \* environment: the last number each node reported
    finalizedHeight,     \* blockTree.finalizedHeight
    driver,              \* the node of connections[0]
    queue,               \* _queue: calls of onFinalizedHeader not started yet
    jobs,                \* calls of _processFinalizedHeader under way
    lastProcessedBlock,  \* highest number processed, Unset before the first
    lastSlot,            \* slot of the last recordProduce, Unset before the first
    totalMissed,         \* misses since startup
    totalProduced,       \* produced slots since startup
    recentSlots,         \* the history: entries [slot, block], block Unset for a miss
    openMiss,            \* _openMiss: [start, length], or Unset
    missedCombos,        \* runs of two or more misses: entries [start, length]
    firstBlock,          \* history: the first block whose slot was recorded
    skipped              \* history: later numbers whose header was never looked at

feedVars == <<nodeFinalized, finalizedHeight, driver>>
queueVars == <<queue, jobs, lastProcessedBlock>>
slotVars == <<lastSlot, totalMissed, totalProduced, recentSlots, openMiss, missedCombos>>
historyVars == <<firstBlock, skipped>>

vars == <<feedVars, queueVars, slotVars, historyVars>>

BlockNumber == 1..MaxNumber

Run == [start : Nat, length : Nat]

\* "fetch": waiting for the header of block at; "header": that header is there;
\* "author": its misses are recorded, waiting for the derived header
JobStage == {"fetch", "header", "author"}

TypeOK ==
    /\ nodeFinalized \in [Node -> 0..MaxNumber]
    /\ finalizedHeight \in 0..MaxNumber
    /\ driver \in Node \cup {NoNode}
    /\ queue \in Seq([number : BlockNumber, prev : BlockNumber \cup {Unset}])
    /\ jobs \subseteq [number : BlockNumber, at : BlockNumber, stage : JobStage]
    /\ lastProcessedBlock \in BlockNumber \cup {Unset}
    /\ lastSlot \in Nat \cup {Unset}
    /\ totalMissed \in Nat
    /\ totalProduced \in Nat
    /\ recentSlots \in Seq([slot : Nat, block : BlockNumber \cup {Unset}])
    /\ openMiss \in Run \cup {Unset}
    /\ missedCombos \in Seq(Run)
    /\ firstBlock \in BlockNumber \cup {Unset}
    /\ skipped \subseteq BlockNumber

Init ==
    /\ nodeFinalized = [n \in Node |-> 0]
    /\ finalizedHeight = 0
    /\ driver = NoNode
    /\ queue = <<>>
    /\ jobs = {}
    /\ lastProcessedBlock = Unset
    /\ lastSlot = Unset
    /\ totalMissed = 0
    /\ totalProduced = 0
    /\ recentSlots = <<>>
    /\ openMiss = Unset
    /\ missedCombos = <<>>
    /\ firstBlock = Unset
    /\ skipped = {}

-----------------------------------------------------------------------------
(* The finalizedHeads callback *)

\* connections changes its first entry whenever a node reconnects or is torn
\* down; only what connections[0] is matters here
DriverChanges(d) ==
    /\ driver' = d
    /\ UNCHANGED <<nodeFinalized, finalizedHeight, queueVars, slotVars, historyVars>>

\* prevFinalizedHeight || null
PrevFinalized == IF finalizedHeight = 0 THEN Unset ELSE finalizedHeight

\* Node n reports block k as final: nodes lag behind each other, skip heads and
\* repeat the last one when subscribed to again.  Only the driver's heads are
\* passed on, with the finalized height from before this one.
FinalizedHead(n, k) ==
    /\ k >= nodeFinalized[n]
    /\ Len(queue) < MaxQueue
    /\ nodeFinalized' = [nodeFinalized EXCEPT ![n] = k]
    /\ finalizedHeight' = IF k > finalizedHeight THEN k ELSE finalizedHeight
    /\ queue' = IF n # driver THEN queue
                ELSE Append(queue, [number |-> k, prev |-> PrevFinalized])
    /\ UNCHANGED <<driver, jobs, lastProcessedBlock, slotVars, historyVars>>

-----------------------------------------------------------------------------
(* Recording slots *)

\* the newest entries a capped list keeps
KeepNewest(s, cap) == IF Len(s) > cap THEN SubSeq(s, Len(s) - cap + 1, Len(s)) ELSE s

\* _closeOpenMiss: a run of at least two misses becomes a combo
CombosWith(run) ==
    IF run # Unset /\ run.length >= 2
    THEN KeepNewest(Append(missedCombos, run), MaxCombos)
    ELSE missedCombos

\* recordMiss for each slot from lo to hi: the first continues the open run or
\* closes it and opens another, the others continue
RecordMisses(lo, hi) ==
    LET count == hi - lo + 1
        continues == openMiss # Unset /\ openMiss.start + openMiss.length = lo
        misses == [i \in 1..count |-> [slot |-> lo + i - 1, block |-> Unset]]
    IN  /\ totalMissed' = totalMissed + count
        /\ recentSlots' = KeepNewest(recentSlots \o misses, MaxHistory)
        /\ openMiss' = IF continues THEN [openMiss EXCEPT !.length = @ + count]
                       ELSE [start |-> lo, length |-> count]
        /\ missedCombos' = IF continues THEN missedCombos ELSE CombosWith(openMiss)

\* A variant: the open run is reported but not closed.
RecordProduceOpen(k) ==
    /\ missedCombos' = CombosWith(openMiss)
    /\ UNCHANGED openMiss
    /\ recentSlots' = KeepNewest(Append(recentSlots, [slot |-> Slot[k], block |-> k]), MaxHistory)
    /\ totalProduced' = totalProduced + 1
    /\ lastSlot' = Slot[k]
    /\ firstBlock' = IF firstBlock = Unset THEN k ELSE firstBlock

RecordProduce(k) ==
    /\ missedCombos' = CombosWith(openMiss)
    /\ openMiss' = Unset
    /\ recentSlots' = KeepNewest(Append(recentSlots, [slot |-> Slot[k], block |-> k]), MaxHistory)
    /\ totalProduced' = totalProduced + 1
    /\ lastSlot' = Slot[k]
    /\ firstBlock' = IF firstBlock = Unset THEN k ELSE firstBlock

-----------------------------------------------------------------------------
(* _processFinalizedHeader *)

\* A variant: any header is processed.
StaleNever(k) == FALSE

\* header k is not above what was processed
Stale(k) == lastProcessedBlock # Unset /\ k <= lastProcessedBlock

\* a queued header that is stale is dropped
DropStale ==
    /\ queue # <<>>
    /\ jobs = {}
    /\ Stale(Head(queue).number)
    /\ queue' = Tail(queue)
    /\ UNCHANGED <<jobs, lastProcessedBlock, feedVars, slotVars, historyVars>>

\* the number after which intermediate headers are missing, Unset when unknown
StartFrom(prev) == IF lastProcessedBlock # Unset THEN lastProcessedBlock ELSE prev

\* the first header to look at for header k
FirstFetched(k, from) ==
    IF from = Unset \/ k <= from + 1 THEN k
    ELSE IF from + 1 > k - FetchWindow THEN from + 1 ELSE k - FetchWindow

\* the numbers between from and k that are beyond the window
OutOfWindow(k, from) ==
    IF from = Unset THEN {} ELSE {i \in (from + 1)..(k - 1) : i < k - FetchWindow}

JobAt(k, i) == [number |-> k, at |-> i, stage |-> IF i < k THEN "fetch" ELSE "header"]

\* A variant: without _queue, a header is processed as soon as it arrives.
BeginAtOnce ==
    /\ queue # <<>>
    /\ ~Stale(Head(queue).number)
    /\ LET k == Head(queue).number
           from == StartFrom(Head(queue).prev)
       IN  /\ jobs' = jobs \cup {JobAt(k, FirstFetched(k, from))}
           /\ skipped' = skipped \cup OutOfWindow(k, from)
    /\ queue' = Tail(queue)
    /\ UNCHANGED <<lastProcessedBlock, firstBlock, feedVars, slotVars>>

\* the next queued header is taken up; _queue starts it when the one before is done
Begin ==
    /\ queue # <<>>
    /\ jobs = {}
    /\ ~Stale(Head(queue).number)
    /\ LET k == Head(queue).number
           from == StartFrom(Head(queue).prev)
       IN  /\ jobs' = jobs \cup {JobAt(k, FirstFetched(k, from))}
           /\ skipped' = skipped \cup OutOfWindow(k, from)
    /\ queue' = Tail(queue)
    /\ UNCHANGED <<lastProcessedBlock, firstBlock, feedVars, slotVars>>

\* block j.at is done with: the next one, or the end of the job
MoveOn(j) ==
    IF j.at < j.number
    THEN /\ jobs' = (jobs \ {j}) \cup {JobAt(j.number, j.at + 1)}
         /\ UNCHANGED lastProcessedBlock
    ELSE /\ jobs' = jobs \ {j}
         /\ lastProcessedBlock' = j.number

\* A variant: < for <=.
PassedOverBelow(s) == s = Unset \/ (lastSlot # Unset /\ s < lastSlot)

\* a header without a slot, or with one that is recorded already
PassedOver(s) == s = Unset \/ (lastSlot # Unset /\ s <= lastSlot)

\* what happens to a header that is there: processSlotWithActual up to its await
HandleSlot(j) ==
    LET s == Slot[j.at]
    IN  IF PassedOver(s)
        THEN MoveOn(j) /\ UNCHANGED slotVars
        ELSE /\ jobs' = (jobs \ {j}) \cup {[j EXCEPT !.stage = "author"]}
             /\ IF lastSlot # Unset /\ s > lastSlot + 1
                THEN RecordMisses(lastSlot + 1, s - 1)
                ELSE UNCHANGED <<totalMissed, recentSlots, openMiss, missedCombos>>
             /\ UNCHANGED <<lastSlot, totalProduced, lastProcessedBlock>>

\* getBlockHash and getHeader are answered
HeaderFetched(j) ==
    /\ j.stage = "fetch"
    /\ HandleSlot(j)
    /\ UNCHANGED <<queue, feedVars, historyVars>>

\* A variant: the error leaves the loop and with it the job.
HeaderFailsAbandon(j) ==
    /\ j.stage = "fetch"
    /\ jobs' = jobs \ {j}
    /\ skipped' = skipped \cup {j.at}
    /\ UNCHANGED <<queue, lastProcessedBlock, firstBlock, feedVars, slotVars>>

\* one of the two fails: the block is skipped
HeaderFails(j) ==
    /\ j.stage = "fetch"
    /\ MoveOn(j)
    /\ skipped' = skipped \cup {j.at}
    /\ UNCHANGED <<queue, firstBlock, feedVars, slotVars>>

\* the header of the notification itself
OwnHeader(j) ==
    /\ j.stage = "header"
    /\ HandleSlot(j)
    /\ UNCHANGED <<queue, feedVars, historyVars>>

\* derive.chain.getHeader is answered or fails; either way the slot is produced
AuthorAnswered(j) ==
    /\ j.stage = "author"
    /\ RecordProduce(j.at)
    /\ MoveOn(j)
    /\ UNCHANGED <<queue, totalMissed, skipped, feedVars>>

-----------------------------------------------------------------------------

JobSteps(j) == HeaderFetched(j) \/ HeaderFails(j) \/ OwnHeader(j) \/ AuthorAnswered(j)

Processing == DropStale \/ Begin \/ \E j \in jobs : JobSteps(j)

Next ==
    \/ \E d \in Node \cup {NoNode} : DriverChanges(d)
    \/ \E n \in Node, k \in BlockNumber : FinalizedHead(n, k)
    \/ Processing

Spec == Init /\ [][Next]_vars

\* every call is answered, by a result or an error: the provider rejects what a
\* torn-down or silent connection leaves open
FairSpec == Spec /\ WF_vars(Processing)

-----------------------------------------------------------------------------
(* Properties *)

\* the slots of a set of blocks
SlotsOf(B) == {Slot[k] : k \in {b \in B : Slot[b] # Unset}}

\* the slot whose misses are recorded but which is not recorded as produced yet
AwaitedBlocks == {j.at : j \in {i \in jobs : i.stage = "author"}}

\* Every slot from the first recorded one on is counted exactly once, produced
\* or missed, although recordMiss and recordProduce of one block are separated
\* by an await and headers come from several nodes.  The history shows the last
\* of these slots in order, without a hole or a repetition.
SlotsAccounted ==
    /\ \A i \in 2..Len(recentSlots) : recentSlots[i].slot = recentSlots[i - 1].slot + 1
    /\ IF firstBlock = Unset THEN totalMissed + totalProduced = 0
       ELSE LET reached == IF AwaitedBlocks = {} THEN lastSlot
                           ELSE Slot[CHOOSE k \in AwaitedBlocks : TRUE] - 1
            IN  totalMissed + totalProduced = reached - Slot[firstBlock] + 1

\* A finalized block's slot is never reported as missed (nor a missed one as
\* produced), unless the header of the block could not be fetched or was
\* beyond the fetch window.  Every slot of the blocks from the first recorded to
\* the last processed one that were not skipped counts as produced, and counts
\* once however many of them share it.
MissesAreReal ==
    /\ \A i \in DOMAIN recentSlots :
          IF recentSlots[i].block = Unset
          THEN \A k \in BlockNumber : Slot[k] = recentSlots[i].slot => k \in skipped
          ELSE recentSlots[i].slot = Slot[recentSlots[i].block]
    /\ firstBlock # Unset /\ jobs = {} =>
          totalProduced = Cardinality(SlotsOf(firstBlock..lastProcessedBlock \ skipped))

\* slots of blocks recorded as produced
SeenSlots == SlotsOf(BlockNumber \ skipped)

\* Each combo is a whole run of consecutive missed slots, with a produced slot on
\* either side, and is reported once.
CombosMaximal ==
    /\ \A i \in DOMAIN missedCombos :
          LET c == missedCombos[i]
          IN  /\ c.length >= 2
              /\ c.start - 1 \in SeenSlots /\ c.start + c.length \in SeenSlots
              /\ \A s \in c.start..(c.start + c.length - 1) : s \notin SeenSlots
    /\ \A i, k \in DOMAIN missedCombos : i < k => missedCombos[i].start < missedCombos[k].start

\* Whoever drives and however far it lags, processing never goes back.
NeverBackwards ==
    [][/\ lastSlot # Unset => lastSlot' >= lastSlot
       /\ lastProcessedBlock # Unset => lastProcessedBlock' >= lastProcessedBlock]_vars

\* Every header passed on is processed in the end, whatever fetches fail.
HeadersProcessed ==
    \A k \in BlockNumber :
        (\E i \in DOMAIN queue : queue[i].number = k)
            ~> (lastProcessedBlock # Unset /\ lastProcessedBlock >= k)

=============================================================================
