# forkwatch in TLA+

forkwatch watches the nodes of several substrate chains: it records forks,
resolves them when their height is final, and reports transactions that a fork
lost. This directory holds its TLA+ specification, the TLC configurations that
model-check it and the proofs TLAPS checks. Source paths are relative to `src/`
(the repository), so `src/monitor/block-tree.js` there is `src/src/...` in
PROJECT.json.

Run a configuration with `tlc -config monitor.cfg MCForkMonitor.tla` and the
proofs with `tlapm ForkMonitor_proofs.tla` (likewise for the other seven `_proofs`
modules).

## 1. The system

One process, one JavaScript thread. Nothing is preempted: everything that
happens concurrently is a callback that suspends in an `await` while others run.
Chains share nothing but the database and the cause analysis.

| part | state it keeps | operations | what makes it correct |
|---|---|---|---|
| header store, `block-tree.js` | two indexes of the headers, best and finalized height | `addBlock`, `prune`, ancestor walk, fork depth | the indexes agree; queries say what the headers say; nothing above the window is pruned |
| fork detector, `fork-detector.js` | `recordedForks`, ring buffer, counter, gauge | `onNewBlock`, `onForkDetected`, `onForkUpdated`, `onHeightFinalized`, `pruneRecordedForks` | no unresolved fork is forgotten, no resolved one is counted, gauge, buffer and database tell the same story |
| per-chain callbacks, `chain/manager.js` | none of their own; they suspend in the middle of the others' operations | `subscribeAllHeads`, `subscribeNewHeads`, `subscribeFinalizedHeads` | every interleaving of several nodes' callbacks keeps the above |
| database, `db/queries.js`, `schema.sql` | `fork_blocks`, `fork_events`, `submitted_txs`, logs | inserts, one UPDATE, reads, retention | one row per fork, eventually resolved, never before its height is final |
| transaction tracker, `tx-tracker.js` | captured bodies, canonical inclusions, drop candidates, reorg review, retry loops | `onNewBlock`, `onHeightFinalized`, `pollPendingPool`, retry ticks, `pruneBlocks` | no false alarm, no missed loss, one report and one retry lifecycle per hash |
| cause analysis, `causation.js` | none | relay-parent lookups, decision table | the cause follows from what was known when it was decided |
| authors and identities, `author-extractor.js` | identity cache, author of a block | lookups | an author is counted once; the ring and the database agree in the end |
| slot tracker, `slot-tracker.js` | last slot, produced and missed counts, history, missed runs | `onFinalizedHeader`, `recordMiss`, `recordProduce` | each slot is counted exactly once, as missed only if no block of it was seen; every header is processed in the end |
| finality tracker, `finality-tracker.js` | heads per node | `onBestHead`, `onFinalizedHead` | lag is informational |
| connections, `chain/connection.js`, `manager.js` | live connections, watchdogs | connect, subscribe, time out, reconnect | what is listed can be used; no node is given up; a healthy node is served again |
| HTTP API, metrics, config, dashboards | none | reads | presentation |

Interactions: a node's notification starts a callback of `manager.js`. An
allHeads callback adds the header to the tree, calls the detector, which may
wait for inserts, then for cause analysis and author enrichment, and finally
starts the body fetch. A finalizedHeads callback raises the finalized height,
resolves forks in memory, runs the tracker's finality step, waits for the UPDATE
of `fork_events`, and then prunes tree, detector and tracker **with the number it
was called with**, which other callbacks may have overtaken. Polls and retry
timers of the tracker run on intervals.

What is hard here: state read before an `await` and used after it (the prune
bound, the snapshot of a height's blocks, `isNew`); nodes that lag, so that
blocks arrive at heights that are final or pruned and finality goes backwards;
finality that skips heights; statements and calls that fail in the middle of a
callback; a transaction that is lost in several ways at once. PROJECT.json lists
these hazards line by line with the properties aimed at them.

## 2. Modules

| module | models | composes |
|---|---|---|
| `BlockTree` | `block-tree.js`, every operation and query | |
| `ForkDetector` | the synchronous parts of `fork-detector.js` | BlockTree |
| `ForkMonitor` | the two callbacks, the inserts and the UPDATE, with every suspension | ForkDetector; implements ForkLifecycle |
| `ForkLifecycle` | abstract: what is promised of the forks of a chain, without callbacks, headers or a tree | |
| `ForkAttribution` | one forked height: cause analysis, enrichment with authors and names, the writes to the ring entry | |
| `TxTracker` | the synchronous parts of `tx-tracker.js` | BlockTree |
| `TxMonitor` | the same callbacks as the tracker sees them, body fetches, polls, timers | TxTracker |
| `SlotTracker` | `slot-tracker.js` and the finalizedHeads callback that drives it | |
| `Connection` | `connection.js`; connecting, watchdog and reconnecting in `manager.js` | |
| `BlockTree_proofs`, `ForkMonitor_proofs`, `ForkRefinement_proofs`, `ForkAttribution_proofs`, `SlotTracker_proofs`, `Connection_proofs`, `TxMonitor_proofs`, `TxOrderly_proofs` | theorems | |
| `MC*` | chains, bodies, slots and digests for TLC | |

**Stretches.** An action is one stretch of JavaScript between two awaits that
really suspend. `onNewBlock` of the detector is async, but when there is no fork
it never suspends, so a lone block goes from `addBlock` to the start of the body
fetch in one action (`HeadAlone`). When there is one, the callback moves through
`headAt[n][b]`: `detected` (inserting the snapshot of the height's blocks, one
answer per action), `event` (inserting the fork event) or `updated` (inserting
the one further block), then `enrich` (cause analysis and author lookups: one
wait of any length; `ForkAttribution` opens it), then `done`. `FinalizedHead` is the finalizedHeads callback up to
`await resolveForkEvent`, `FinalizedHeadResolved` what follows. Without a database the
await does not suspend and `FinalizedHeadNoDb` is both.

**Data.** A block stands for its hash. Its number, its parent and (for the tracker)
the transactions in its body never change, so they are constants, and a chain is
a value of these constants. A BlockRecord is reduced to the nodes that saw it. A
transaction stands for its hash; signer and nonce, and the era's death, are
constants: they are the results of `extrinsic-utils.js`. Heights are `0..MaxHeight`.
The tables are a set of hashes and two counts per height.
A losing transaction is one element of the set `pendingReorgReview`; in the code
the list could hold it twice only after its block was pruned and delivered
again, and the second report of a hash does nothing.

**Environment.** Nodes announce any block of the universe, skip some, lag behind
each other; each announces ancestors first and all finalize one chain, with
skipped heights and repetitions. `TxMonitor` has a switch: with `Orderly` the feed has
no gap, no block at a final height, no body that arrives after its height is
final, and the first finalized head is not above anything announced by then;
without it anything goes.

**A statement's effect** takes place when it is answered. The pool of database
connections may execute statements in another order than they were issued, and
any order of answers is allowed, so any order of effects is.

**Refinement.** `ForkLifecycle` says: a fork is detected at a height where none is
unresolved; its row is written later or lost; it is unresolved until its height
is final; rows are closed only then, and those written late by a later head.
Under the mapping of `ForkMonitor!Lifecycle`, `final` is `finalizedHeight`,
`unresolved` is `recordedForks`, `detected` the total count, `rows` the counts of
`fork_events`, and `unwritten[h]` the callbacks that detected a fork at h and have
not inserted its event (stages `detected` and `event`). `HeadForkDetected` is `Detect`,
the answer to the event INSERT is `WriteRow`, `FinalizedHead` is `Finalize`, and both
the UPDATE and the prune after it are one `Close`; all else stutters.

**Attribution.** `ForkAttribution` follows one height. Each of its blocks has an allHeads
callback, which is at `stage[b]` between two awaits: waiting for its inserts
(`detected`, `updated`), for the relay parents of the blocks it saw (`lookup`, and `retry` two
seconds later), for the UPDATEs of the cause (`saving`), in its enrichment loop for
the author of the block `loopAt[b]` (`extract`) or for that author's name (`identity`). A
block has its author, its parent, relay number and relay root as constants:
digests do not change. A lookup finds relay number and root, the number only
(`validationData` is empty), or nothing; only its fallback, which decodes the
`setValidationData` inherent, can find a root without a number, and `RootOnly` names the blocks whose inherent
shows none. A new record has no author, so authors enter
by enrichment only. The refresh of the identities runs beside all of them.

**Slots.** All nodes finalize one chain, so a finalized header is its number, with
the slot in its digest for each number. Slots do not fall, but blocks share one on
chains with elastic scaling, and a header may have none (`extractSlot` gives null):
`PassedOver` is true of such a header and of every block of a slot but its first. The promise chain `_queue` is `queue` and the set `jobs` of calls
under way; that it has one element at most is proved, not built in by a
program counter. A job waits for a header it asked for (`fetch`), has the header it was
called with (`header`), or waits for the author with the misses before the slot
recorded already (`author`). The node of
`connections[0]` changes at any time.

**Connections.** An object of `Conn` is a `NodeConnection`; one is reused once nothing
refers to it. Calls under way are the stages of the objects (`socket`, `api`, `version`,
`closing`), armed watchdogs and retry timers. Timers fire whenever that agrees
with the node answering or not. `MaxCalls` bounds the calls under way for one node in
the one action that can add to them without limit: a header that arrives while a
connection is being closed and arms its watchdog again.

Operators marked "a variant" are plausible mistakes (a bound off by one, a
missing test). They are not part of any specification; each property is violated
when the variant PROJECT.json names takes the place of the original, which shows
that the property can fail.

## 3. Runs

| run | instance | states | shows |
|---|---|---|---|
| `monitor` | 4 blocks, forks at two heights, 2 nodes, database, 2 suspended callbacks | 363 k | detector, tree, gauge, ring buffer and rows stay consistent; the life cycle of a fork is implemented; the window is kept |
| `tall` | 5 blocks, 3 heights, 2 branches, no database | 133 k | the two indexes agree; fork depth is the length of the run of forked heights; the ancestor walk returns exactly the ancestor or null, with no slack in its iteration bound; the gauge is exact |
| `late` | 3 blocks at one height and a child, 2 nodes, database | 381 k | every block of a forked height gets its row, one event row per detection, one body fetch in the window |
| `liveness` | one fork, 2 nodes, failing statements, fairness | 74 k | event rows are resolved in the end, each block has its body fetched |
| `attribution` | 3 blocks of one height, 2 accounts, concurrent analyses and lookups | 835 k | the ring entry ends with the authors and names of its blocks, a relay fork is only concluded from different relay roots, of one relay number unless a block shows none, authors are counted |
| `txorderly` | 6 blocks, 4 heights, 5 transactions, grace 2, prune 1, retries 2 | 78 k | no false alarm, no missed loss, the winner is never reviewed, a confirmation is a rescue |
| `txpool` | one fork, 3 transactions, any feed, any pool answers | 284 k | one report and one retry lifecycle per hash, canonical means finalized, candidates agree with the snapshot, dropped means in no captured block |
| `slots` | 5 headers over 7 slots, two of one slot and one without, 2 nodes, window 2, fairness | 166 k | each slot counted once, misses are real, a shared slot is produced once, combos are maximal, never backwards, every header processed in the end |
| `connection` | 2 nodes, 5 connection objects, fairness | 235 k | what is listed is live, no node given up, one call per node, healthy nodes are served again, the start ends |
| `gauge` | as `late` | | finding 1 |
| `txgap` | as `txorderly`, `Orderly = FALSE` | | finding 2 |
| `doubleprod` | as `attribution`, one relay block for all | | finding 3 |

Each module has its type invariant; `TypeOK` of the monitor is among the runs'
properties, those of the other modules are proved (`BlockTree`, `SlotTracker`,
`Connection`, `ForkAttribution`, and the tracker's for any feed).

**Why these bounds.** The universe of blocks bounds the state space, not a state
constraint: every run ends by itself. Two nodes give every race of a leading and
a lagging node; a third could only repeat one of them. `MaxAwaiting` bounds the
callbacks suspended at once: two is what every race needs (one between the
halves of another), `liveness` allows three. `PruneAfter` is 0 or 1, so that
pruning happens inside the instance and a height can be final, in the window, and
pruned in turn; in the code it is a configuration value. `MaxRecentForks` is 1 or 2
so that the ring overflows (5000 in the code). In `txorderly` a losing block holds a
transaction its rival has too, one replaced by another with the same nonce, one
included later on the winning branch inside the grace period, and one that
expires; in `txpool` two transactions of a losing block, one of them also in the pool.
`DropMaxWaitPolls = 3` with `ReappearPolls = 2` lets a transaction flicker before it is given
up. `MaxHashes` is not below the number of transactions in the runs: the
properties that count per hash are stated below the cap.

In `slots` the blocks have the slots 1, 4, 4, none and 7: two gaps of two missed slots,
longer when a header between them fails, a slot two blocks share, a header without a
slot, and a jump from the first to the last header that goes beyond the fetch window of
2 (50 in the code). Either of the blocks that share a slot may be the one whose header
fails. The history of 4 overflows (30 in the code), the 2 combos do not: there are only
two gaps. In `connection` one node may have two calls under way, which is the race
that matters (a second connection beside the first), the other one; five objects
are enough that a call always finds a free one (with six nothing changes).
In `attribution` two of the three blocks have one author, who has a name; the other is
named in the configuration. The first two blocks are of two relay blocks of one
number, the third of the next; the inherent of the second shows no number, so that with
the third it can be taken for a pair of one number. No identity lookup fails, which is what `NamesShown` is about.
Every block is delivered once, as a second delivery does nothing at this level.

Symmetry (nodes, and leaves with the same parent) is used in runs without
liveness only.

Deadlock is checked except in the runs of `ForkAttribution`, where everything may be
delivered and answered. Elsewhere a node may always repeat its last finalized
head, so the system never has to stop.

**Fairness** in `liveness`:
- `AnswerFairness`: every started statement and lookup is answered, by a result or an
  error. All awaits in these callbacks are on calls whose rejection is caught.
- `FinalityFairness`: time and again some node finalizes a head at least as high as
  any before. The system is a monitor of a live chain; without finality nothing
  is ever resolved. It is strong fairness because the bound on suspended callbacks can
  disable the notification for a while.
- `UpdateFairness`: if such callbacks come back infinitely often, the UPDATE of one of
  them succeeds. The database may fail any number of times in between.

In `slots`: weak fairness of `Processing`, the steps of the running job and of the
promise chain. Every await of a job is on a call the provider answers, or rejects
when its connection is lost or its request times out; the job catches what is
rejected. Nothing is assumed of the nodes.

In `connection`: weak fairness of each stretch of a connection (its call is answered,
or a timeout or the lost socket ends it; timers expire) and of the retry timers.
Nodes change between healthy and not as they like; `HealthyNodesServed` is about a
node that stays healthy from some time on.

## 4. Findings

1. `active_fork_heights` is described as the number of currently unresolved forks
   (`src/index.js:32`, `README.md:126`). With a database, `onHeightFinalized` runs before an
   await and `pruneRecordedForks` after it; a fork recorded in between at a height the
   callback prunes is deleted without decrementing the gauge, which stays one
   too high until restart. Run `gauge`. What does hold is proved: the gauge is never too
   low, and it is exact without a database.
2. A test is named "the winning block at a forked height is never treated as a
   loss" (`tests/tx-tracker.test.js:318`). When a header between the finalized block
   and the height was never delivered, the canonical ancestor is null and every
   block of the height counts as losing. Run `txgap`. It holds on an orderly feed.
3. `causation.js:13` defines double production as "same collator produced twice". The
   cause is concluded before `enrichForkAuthors` looks the authors up, so all of them
   are "unknown" and equal: two blocks of different collators on one relay block
   are reported as double production. Run `doubleprod`. What does hold
   (`RelayForkIsReal`): a relay fork is only concluded when two blocks have different
   relay roots and either one relay number, or one of them shows no number.

Noticed while modelling, without a run of their own:
- `README.md:143` says `fork_events` has one row per fork. A block delivered late at a
  height that was forked and is final, but not pruned, has the fork recorded a
  second time. Each detection writes exactly one row (`OneRowPerDetection`).
- `author_fork_blocks_total` (`index.js:35`) counts a block twice when two callbacks of
  its height look its author up at once; `AuthorsCounted` states what holds, at least
  once and at most once per callback.
- `manager.js:216` stops the watchdog as the first unsubscribe; a header that arrives
  during the following ones sets it again. The node then has two calls under
  way and may be listed twice; when the first listed one is dead, `getStatus` shows
  the node as disconnected while it is served. It is served again and again
  all the same (`HealthyNodesServed`).
- `README.md:208` says transient disconnects are handled by the WsProvider, which is
  created with `autoConnect` off (`connection.js:27`); only the watchdog reconnects.
- `README.md:56` says different relay parents make a `relay_fork` and `README.md:57` that one
  relay parent makes a `collator_contention`. The decision table asks for different roots and no two
  different numbers (`causation.js:75-82`): blocks built on relay blocks of
  different numbers are `double_production_timing` or `collator_contention`, and with one
  author (or none known) one relay parent is a double production.
- `causation.js:10` defines a relay fork as "different relay block hashes at same height". A
  number that is not found counts as the same as any other (`causation.js:72-75`), and the
  inherent may yield a root without a number (`causation.js:233`): blocks of different
  relay heights are then reported as a relay fork, with the height of the
  other block or none. The inherent of such a block shows no number, or 0, so
  this takes a runtime whose call is shaped differently. A lookup that finds only the number leaves its root out
  in the same way and can hide a relay fork.
- `README.md:206` says a failed node does not affect other nodes or chains: it delays
  the start of slot tracking, polling and cause analysis of all chains by its
  timeouts (`manager.js:138`). That this delay ends is `StartUpCompletes`.
- `ctx.relay` (`manager.js`, `setupCausation`) is never set, so the relay chain is always the
  first babe chain.

Two restrictions of the properties themselves are worth knowing. Transactions without
signer (ethereum transactions whose sender was not recovered) cannot be linked to
an inclusion, so `AlertsAreReal` is stated for the others. And `BodyFetchedOnceInWindow`
holds inside the prune window only: a block delivered again after it was pruned
is new again.

## 5. Proofs

The theorems hold for every value of the constants that satisfies the named
assumptions, and these say no more than the code's data does: `ChainAssumption`
(numbers are positive and a parent's number is one less), `RingAssumption` (the
ring holds an entry), `MonitorAssumption` (types), `SlotAssumption` (a later block
never has a lower slot than an earlier one, though several may share one and some have
none; the history and the combos hold an entry), `ConnectionAssumption` (there is an
object for each node), `TxAssumption` (there are finitely many transactions, a chain uses a
nonce once, the rest is types), `FeedAssumption` and `AttributionAssumption` (types). Nowhere is
`Block` or `Node` assumed to be finite.

Two groups of theorems have a hypothesis on a switch of the instance besides.
`DbEnabled => ...`: what the database holds is said of a configured database (the
properties themselves add that no statement fails: a lost row is lost).
`Orderly => ...`: that the tracker misses no loss and raises no false alarm is promised
when every block reaches it in time; finding 2 is what happens otherwise, and
the run `txorderly` shows that the hypothesis leaves the interesting cases in.

The tree (`BlockTree_proofs`):

- `IndexesAlwaysAgree`: `IndexesAgree` is inductive together with `TreeTypeOK`. The work is in
  `AddNewBlockIndexes` (a block that is not in the hash index is not in the height
  index, so appending keeps the sequence without repetition) and `PruneIndexes` (what
  `prune` finds in the height index up to k is exactly what the hash index holds up to
  k). `MonitorIndexesAgree` carries it over to the composed system.
- `TreeQueriesExact`, carried over as `MonitorWalkExact` and `MonitorDepthIsRunLength`: the two
  queries are recursive functions over a range of numbers, so first the recursion
  is solved (`RecursionSolved`, `WalkExists`, `RunExists`), which TLAPS needs before it can say
  what one step computes. `WalkReached` says where the walk stands after i steps: in the
  tree, with no gap behind it, i heights down unless the target is reached; so the
  iteration bound of the code always suffices. `ForkedMeansTwoBlocks` turns the length
  of an index entry into a number of blocks, with `IndexesAgree`. `NatSetInduction` stands in
  for induction on the steps: the invariant is put as membership in a set of numbers.

The callbacks (`ForkMonitor_proofs`):

- `TypeCorrect`: `TypeOK` is not inductive by itself: `Head` and `Tail` of the insert loop are
  only defined when it is not empty. `InsertLoops` says it is not while its callback
  is inserting.
- `UnresolvedForksStayRecorded`, `RecordedForksHaveBlocks`, `GaugeIsUpperBound`: from `ForkInv`,
  their conjunction with `PendingFinalsReached`. The latter is the point: a callback that
  waits for its UPDATE carries a number `finalizedHeight` has reached. Without it the
  prune after the await could remove a recorded fork that is not final, and the
  first property is not inductive. `GaugeIsUpperBound` needs the cardinality lemmas
  `MarkResolvedGauge` and `RecordForkGauge`: the gauge drops by exactly the recorded heights
  that leave.
- `ForksForgottenOnlyWhenFinal` and `WindowIsKept`, the action properties, from the same
  invariant.
- `GaugeExactWithoutDb`: without a database no callback is ever between the two halves,
  so exactness is inductive.
- `RingAlwaysAgrees`: an entry that a full buffer pushed out does no harm, since `RingAgrees` is
  about the entries that are left. `PushRecentEntries` is the lemma about the capped buffer.
- `BodyOnceInWindow`: from `BodyInv`, about blocks that cannot have been pruned: at most one
  callback is in the fork handling of a block (`Busy`), nothing was fetched before, and
  a block that is not in the tree was never fetched. `addBlock` telling old from new
  is what lets only one callback in.

The refinement (`ForkRefinement_proofs`):

- `MonitorImplementsLifecycle`: initial states map to initial states and each action to
  the one named in section 2, or to a stutter. It rests on `TypeCorrect` and the
  invariant of `ForkMonitor_proofs`: that the UPDATE closes final rows only is
  `PendingFinalsReached`, and that a detection is at a height where nothing is
  unresolved is the guard of `onNewBlock`. The work is in `unwritten`, a function of the
  callbacks' stages: each step changes the stage of one callback, so it changes
  `unwritten` at one height at most.
- `ResolvedRowsAreFinal`, `ResolutionNeverTakenBack`: proved of `ForkLifecycle`, three
  actions, and carried over by the refinement.

The rows (`ForkRefinement_proofs`, for a configured database without failures):

- `RecordedForksHaveOpenRows`: it rests on `PendingFinalsReached` again: an UPDATE closes rows of
  final heights only, and a recorded height that is not final has its row or a callback
  before the insert (`PendingKept`).
- `ForkedBlocksCovered`: from `RowsCovered` and `LoopShape`. The first fork of a height puts all
  blocks it finds into one callback's loop, each later block goes into its own; a
  block leaves a loop only when its row was written.
- `EveryDetectionHasOneRow`: from `RowCount`, the rows of all heights plus the pending inserts are
  `totalForkCount`. The sum over the heights is a recursive function; `SumsExist` solves its
  recursion and `SubsetInduction` is the induction over finite sets it needs.

Connections (`Connection_proofs`): the invariant is `Shape` (which stages go with which
nodes and flags), `Listing` (the array lists the live objects, each once), `InUse` (a
call or timer is left for each node) and `Single` (exactly one, and at most one
listed, unless `rearmed`).

- `ConnectionsAreLive`, `NodesNeverGivenUp`, `NodesHaveOneCall`. The second needs `Shape`: a
  watchdog belongs to an object that is in use, or the node of a timer that fires
  would be unknown. The third counts: `Calls` is a sum of two cardinalities and a counter, and
  each action moves one from one of them to another.

Slots (`SlotTracker_proofs`):

- `SlotTypes`: with `OneJob`, a job runs only when no other does, which is what the promise
  chain is for.
- `SlotsNeverBackwards`: from `JobInv`, a running job is about a header above the last
  processed one, and a slot whose author is awaited above the last slot.
- `SlotsAreAccounted`: from `Account`, which adds that the history ends with the last
  slot recorded; between the two halves of a block that is the slot before the
  awaited one. `KeepNewestInOrder` and `MissesInOrder` are about the capped history.
- `MissesReal`: from `Cover`. `Done` is the number up to which blocks were dealt with; the
  block of the last slot is up to it, all blocks of later slots were skipped, and the
  slots of those from the first one that were not skipped are counted, a shared slot
  once. A gap in the slots then contains no block that was not skipped. A header that is passed
  over adds no slot: it has none, or, since slots do not fall, the last
  recorded one (`CoverPassedOver`); any other adds exactly one, which is new to
  the set (`CoverHandled`). The set is finite as the image of an interval (`SlotsOfMore`).
- `CombosAreWhole`: from `ComboInv`. A run is open only while the author of the block that ends it
  is awaited, and starts right after the last recorded slot; so it ends at
  a recorded slot too. Reported runs start below the last recorded slot, so the next
  one is new. They stay whole because later steps skip later blocks only
  (`DealtWithKept`), and the cap keeps a suffix (`KeepNewestSuffix`).

Attribution (`ForkAttribution_proofs`):

- `AttributionTypes`: with `LoopInv`, a callback in its loop stands at a block of the height.
- `AuthorsAlwaysSettle`: a callback that ends writes the authors as they are known at that moment
  (`GoesEffect`), and any other step leaves some callback under way; so whichever is the
  last to write, its analysis or its enrichment, the entry is right.
- `NamesAlwaysShown`: from `NameInv`. The cache never holds "no name" for an account that has
  one, and a block that lacks the name of its author has a callback (`Pending`) that
  waits for it. That two lookups of one account race is harmless for this reason only.
- `RelayForksAreReal`: `VerdictIsReal` derives it from the decision table; the sets the table
  compares are finite as images of a part of `1..snapshot[b]`, so that `Cardinality <= 1`
  means what `new Set(...).size <= 1` does. One number among those found leaves two blocks
  of different roots with one number or with a block whose number was not found; a root
  was found for both, so that block is in `RootOnly` (`Answers`).
- `AuthorsOnceCounted`: from `CountInv`, which bounds the count of a block by the number of
  callbacks whose loop has not reached it (`Counters`). A loop passes over a block
  whose author is known, so a callback that has counted a block, in its loop or when it
  detected the fork, never comes to it again; one that stands at it has not counted it,
  even if another did meanwhile. The first block of a height has no such callback.

Transactions (`TxMonitor_proofs`, for any chain and feed, orderly or not):

- `LineageFacts`: what the tracker reads through parent links. `Lineage` is a recursive function;
  the blocks that paths of parent links lead to solve its recursion (`ChainStep`), so it is
  defined. That it is transitive and that two members of a lineage are comparable
  follows by `BlockInduction`, from the lowest block for which it would fail.
- `TxTypes`, `ReportedOnce`, `RetriedOnce`, `StreaksAgree`: from `CountInv`. What was never remembered
  in `finalizedHashes` was never reported, and what was never remembered in `everRetried` was
  never submitted; a running loop has counted all that was submitted of its hash.
  Both need `RememberEffect`: below the cap the sets only grow. Above it they are cleared,
  and neither property is claimed.
- `CanonicalIsFinal`: the walk from a finalized block stays in its lineage, and the lineage
  of the highest reported block only grows (`TipGrows`).
- `ConfirmationsAreReal`: what is canonical stays so (`CanonicalStays`): two inclusions on one
  chain are comparable, and a chain uses a nonce once. So a loop that started after a
  confirmation, of a hash that is canonical, never submits, and confirms nothing.
- `NeverDroppedWhenSeen`: from `SeenInv`, `includedHashes` holds every hash of every captured body;
  pruning leaves it alone.

The tracker on an orderly feed (`TxOrderly_proofs`):

- `TreeFeedInv` says where such a feed stands: what is reported as final was announced and
  walked, ancestors are announced first, and what was pruned was pruned from
  below (`PrunedFromBelow`), so a lineage in the tree has no gap.
- `WinnerSpared`: with no gap, the ancestor that `queueReorgReview` asks for exists and is on the
  finalized chain (`TreeQueriesExact`'s lemmas about the walk), so what is queued is not
  (`QueuedLost`); and the finalized chain only grows.
- `NoLoserForgotten`: `LosersQueued` for the head that passes a height, however many heights it
  covers; afterwards an entry leaves the review only when its hash is reported or
  is canonical. The first finalized head must not be above anything announced
  (`FirstFinal`): the walk from it covers that block only.
- `NoFalseAlarm`: what is on the finalized chain is canonical for its signer and nonce
  (`FinalIsCanonical`: `WalkIsNew` shows that the walk covers exactly what is new, and a chain
  uses a nonce once) and in `includedHashes`, so neither the review nor the pool reports it.
  It is about steps, for any answers of the pool.

Every invariant and action property of the passing runs is proved. Only
model-checked: the five liveness properties (`RowsEventuallyResolved`, `BodyEventuallyFetched`,
`HeadersProcessed`, `HealthyNodesServed`, `StartUpCompletes`), since fairness is about `ENABLED`, which
is out of this prover's reach; and the three violations of section 4.

## 6. Not modelled

- Finality tracker: two maps and two gauges set synchronously, read by nobody.
- Authorities and expected authors (`refreshAuthorities`, `expectedAuthor`): labels of slots.
- Of identities: the name of a sub-identity, found by one more lookup through
  `superOf`; address formats.
- Of connections: the socket of a connect that timed out, to which nothing refers
  any more; a rejected subscribe call; the ten-minute refresh of the authorities.
  In `ForkMonitor` a reconnected node is one that skips announcements and repeats
  its finality, and in `SlotTracker` another `connections[0]`.
- Of cause analysis: the time before all chains are connected, when there is none and
  a cause stays null; the UPDATEs of authors and causes, which nothing reads back.
- Of the tracker: which node is polled, and the history kept with a report.
- `extrinsic-utils.js` (decoding by libraries), HTTP API, metrics, configuration,
  retention deletes, dashboards: no state that interleaves with the monitor's.

## 7. What could follow

1. An abstract specification of the tracker (a loss is noticed, then reported or
   found again) that `TxMonitor` implements on an orderly feed, proved from `TxOrderly_proofs`;
   the caps of `finalizedHashes` and `everRetried`, past which a hash may be reported again.
2. Rows of `fork_events` with their authors and causes, to compose `ForkAttribution` with
   `ForkMonitor`.
3. Several chains: the relay chain's reconnects seen from the cause analysis of a
   parachain.
