--------------------------- MODULE ForkAttribution ---------------------------
(***************************************************************************)
(* Who and what caused the fork at one height of a parachain: the cause    *)
(* analysis of src/src/monitor/causation.js, hooked after onForkDetected,  *)
(* and the author enrichment of src/src/chain/manager.js with the identity *)
(* cache of src/src/monitor/author-extractor.js.                           *)
(*                                                                         *)
(* As in ForkMonitor an action is a stretch between two awaits.  Every     *)
(* block of the height has an allHeads callback of its own; all of them    *)
(* work on the same records, the same ring entries and the same cache.     *)
(***************************************************************************)
EXTENDS Integers, Sequences, FiniteSets

CONSTANTS
    Block,         \* the competing blocks of the height
    Account,       \* block authors
    NoAccount,     \* what is shown for a block without author: "unknown"
    Author,        \* Author[b]: the account the consensus digest names
    ParaParent,    \* Author's block: header.parentHash
    RelayNumber,   \* the relay block number in b's validation data
    RelayRoot,     \* the relay storage root in b's validation data
    RootOnly,      \* blocks whose setValidationData call shows no relay number
    HasName,       \* accounts with an on-chain identity
    KnownAuthor,   \* accounts named in the configuration (knownAuthors)
    LookupFails    \* whether identity lookups may fail

ASSUME AttributionAssumption ==
    /\ NoAccount \notin Account
    /\ Author \in [Block -> Account]
    /\ RelayNumber \in [Block -> Nat]
    /\ DOMAIN RelayRoot = Block /\ DOMAIN ParaParent = Block
    /\ RootOnly \subseteq Block
    /\ HasName \subseteq Account
    /\ KnownAuthor \subseteq Account
    /\ LookupFails \in BOOLEAN

VARIABLES
    atHeight,     \* the height's Map in the tree: its blocks in insertion order
    pruned,       \* the tree has dropped that Map
    recorded,     \* recordedForks has the height
    stage,        \* stage[b]: where the allHeads callback of b stands
    snapshot,     \* snapshot[b]: how many blocks its cause analysis looks at
    relayParent,  \* relayParent[b]: what its lookups have found for them so far
    loopAt,       \* loopAt[b]: the block its enrichment loop has reached
    author,       \* the records with block.author set
    authorName,   \* the records with block.authorName set
    identity,     \* identityCache: "absent", "null" or "name" per account
    prefetching,  \* accounts whose identity refreshAuthoritiesAndIdentities awaits
    ring,         \* the height's entries in recentForks, oldest first
    counted       \* author_fork_blocks_total, by block

blockVars == <<atHeight, pruned, recorded>>
analysisVars == <<snapshot, relayParent>>
recordVars == <<author, authorName, counted>>

vars == <<blockVars, stage, analysisVars, loopAt, recordVars, identity, prefetching, ring>>

Stage == {"none", "detected", "updated", "lookup", "retry", "saving", "extract", "identity", "done"}

\* a lookup finds number and root, only one of the two, or nothing
Lookup == {"full", "number", "root", "none"}

Cause == {"null", "relay_fork", "relay_fork_same_author", "collator_contention",
          "double_production", "double_production_reorg", "double_production_timing"}

\* what is shown of a block's author: nothing, its address, or its name
Shown == (Account \X BOOLEAN) \cup {<<NoAccount, FALSE>>}

TypeOK ==
    /\ atHeight \in Seq(Block)
    /\ pruned \in BOOLEAN
    /\ recorded \in BOOLEAN
    /\ stage \in [Block -> Stage]
    /\ snapshot \in [Block -> Nat]
    /\ relayParent \in [Block -> Seq(Lookup)]
    /\ loopAt \in [Block -> Nat]
    /\ author \subseteq Block
    /\ authorName \subseteq author
    /\ identity \in [Account -> {"absent", "null", "name"}]
    /\ prefetching \subseteq Account
    /\ ring \in Seq([authors : Seq(Shown), cause : Cause])
    /\ counted \in [Block -> Nat]

Init ==
    /\ atHeight = <<>>
    /\ pruned = FALSE
    /\ recorded = FALSE
    /\ stage = [b \in Block |-> "none"]
    /\ snapshot = [b \in Block |-> 0]
    /\ relayParent = [b \in Block |-> <<>>]
    /\ loopAt = [b \in Block |-> 0]
    /\ author = {}
    /\ authorName = {}
    /\ identity = [a \in Account |-> "absent"]
    /\ prefetching = {}
    /\ ring = <<>>
    /\ counted = [b \in Block |-> 0]

-----------------------------------------------------------------------------
(* Detection *)

Move(b, s) == stage' = [stage EXCEPT ![b] = s]

\* block.authorName || block.author || 'unknown'
ShownAuthor(b, known, named) ==
    IF b \in known THEN <<Author[b], b \in named>> ELSE <<NoAccount, FALSE>>

\* the authors of the first k blocks of the height
ShownAuthors(k, known, named) == [i \in 1..k |-> ShownAuthor(atHeight[i], known, named)]

\* the first block of the height: no fork.  A block delivered after the height
\* was pruned starts a new Map, which none of these callbacks sees.
HeadAlone(b) ==
    /\ atHeight = <<>>
    /\ stage[b] = "none"
    /\ atHeight' = <<b>>
    /\ Move(b, "done")
    /\ UNCHANGED <<pruned, recorded, analysisVars, loopAt, recordVars, identity, prefetching, ring>>

\* onForkDetected up to its inserts: the entry, and a count for each author
\* that is known, which is none unless the height was forked before
HeadForkDetected(b) ==
    /\ atHeight # <<>> /\ ~pruned /\ ~recorded
    /\ stage[b] = "none"
    /\ atHeight' = Append(atHeight, b)
    /\ recorded' = TRUE
    /\ ring' = Append(ring, [authors |-> Append(ShownAuthors(Len(atHeight), author, authorName),
                                               ShownAuthor(b, author, authorName)),
                             cause |-> "null"])
    /\ counted' = [c \in Block |-> counted[c] + IF c \in author THEN 1 ELSE 0]
    /\ Move(b, "detected")
    /\ UNCHANGED <<pruned, analysisVars, loopAt, author, authorName, identity, prefetching>>

\* onForkUpdated; the record is new and has no author
HeadForkUpdated(b) ==
    /\ atHeight # <<>> /\ ~pruned /\ recorded
    /\ stage[b] = "none"
    /\ atHeight' = Append(atHeight, b)
    /\ Move(b, "updated")
    /\ UNCHANGED <<pruned, recorded, analysisVars, loopAt, recordVars, identity, prefetching, ring>>

\* the height becomes final: a further block at it is a fresh fork
Finalized ==
    /\ recorded
    /\ recorded' = FALSE
    /\ UNCHANGED <<atHeight, pruned, stage, analysisVars, loopAt, recordVars,
                   identity, prefetching, ring>>

\* the height falls out of the window; callbacks that hold its Map go on with it
Pruned ==
    /\ atHeight # <<>> /\ ~recorded /\ ~pruned
    /\ pruned' = TRUE
    /\ UNCHANGED <<atHeight, recorded, stage, analysisVars, loopAt, recordVars,
                   identity, prefetching, ring>>

-----------------------------------------------------------------------------
(* Author enrichment *)

\* the newest entry of the height is replaced by e
ReplaceNewest(e) == IF ring = <<>> THEN ring ELSE [ring EXCEPT ![Len(ring)] = e]

\* variant: an entry that has its cause is taken to have its authors too
UpdateForkAuthorsOnce ==
    IF pruned \/ ring = <<>> \/ ring[Len(ring)].cause # "null" THEN UNCHANGED ring
    ELSE ring' = [ring EXCEPT ![Len(ring)].authors =
                                 ShownAuthors(Len(atHeight), author', authorName')]

\* updateForkAuthors, with the authors as they are after this stretch
UpdateForkAuthors ==
    IF pruned \/ ring = <<>> THEN UNCHANGED ring
    ELSE ring' = [ring EXCEPT ![Len(ring)].authors =
                                 ShownAuthors(Len(atHeight), author', authorName')]

\* The loop of enrichForkAuthors from the i-th block on: blocks with an author
\* are passed over; the next one without is asked for; at the end the ring
\* entry is updated and the callback is over.
EnrichFrom(b, i) ==
    LET missing == {k \in i..Len(atHeight) : atHeight[k] \notin author'}
    IN  IF missing = {}
        THEN /\ Move(b, "done")
             /\ UpdateForkAuthors
             /\ loopAt' = [loopAt EXCEPT ![b] = 0]
        ELSE /\ Move(b, "extract")
             /\ loopAt' = [loopAt EXCEPT ![b] = CHOOSE k \in missing : \A m \in missing : k <= m]
             /\ UNCHANGED ring

\* enrichForkAuthors is called: it does nothing for a height that was pruned
StartEnrichment(b) ==
    /\ UNCHANGED <<author, authorName>>
    /\ IF pruned THEN Move(b, "done") /\ UNCHANGED <<loopAt, ring>> ELSE EnrichFrom(b, 1)

\* onForkUpdated's insert is answered
CompetingBlockInserted(b) ==
    /\ stage[b] = "updated"
    /\ StartEnrichment(b)
    /\ UNCHANGED <<blockVars, analysisVars, counted, identity, prefetching>>

\* whether resolveAuthorName finds a name with this state of the cache
Named(a, cached) == a \in KnownAuthor \/ cached = "name"

\* variant: a block another callback has meanwhile given an author is not counted
NameAndCountFirst(b, cached) ==
    LET x == atHeight[loopAt[b]]
    IN  /\ authorName' = IF Named(Author[x], cached) THEN authorName \cup {x} ELSE authorName \ {x}
        /\ counted' = [counted EXCEPT ![x] = IF x \in author THEN @ ELSE @ + 1]
        /\ EnrichFrom(b, loopAt[b] + 1)

\* the author is known and its name resolved, if it can be: the block is
\* counted and the loop goes on
NameAndCount(b, cached) ==
    LET x == atHeight[loopAt[b]]
    IN  /\ authorName' = IF Named(Author[x], cached) THEN authorName \cup {x} ELSE authorName \ {x}
        /\ counted' = [counted EXCEPT ![x] = @ + 1]
        /\ EnrichFrom(b, loopAt[b] + 1)

\* extractAuthor is answered with an author whose identity need not be fetched
AuthorFoundNamed(b) ==
    LET x == atHeight[loopAt[b]]
    IN  /\ stage[b] = "extract"
        /\ Author[x] \in KnownAuthor \/ identity[Author[x]] # "absent"
        /\ author' = author \cup {x}
        /\ NameAndCount(b, identity[Author[x]])
        /\ UNCHANGED <<blockVars, analysisVars, identity, prefetching>>

\* it is answered with an author whose identity has to be fetched
AuthorFound(b) ==
    LET x == atHeight[loopAt[b]]
    IN  /\ stage[b] = "extract"
        /\ Author[x] \notin KnownAuthor /\ identity[Author[x]] = "absent"
        /\ author' = author \cup {x}
        /\ Move(b, "identity")
        /\ UNCHANGED <<blockVars, analysisVars, loopAt, authorName, counted,
                       identity, prefetching, ring>>

\* neither the derived header nor the digest gives an author
AuthorUnknown(b) ==
    /\ stage[b] = "extract"
    /\ UNCHANGED <<author, authorName>>
    /\ EnrichFrom(b, loopAt[b] + 1)
    /\ UNCHANGED <<blockVars, analysisVars, counted, identity, prefetching>>

\* fetchIdentity is answered; a failure is cached like an account without a name
FetchedIdentity(a) ==
    (IF a \in HasName THEN {"name"} ELSE {"null"}) \cup (IF LookupFails THEN {"null"} ELSE {})

IdentityFetched(b) ==
    LET a == Author[atHeight[loopAt[b]]]
    IN  /\ stage[b] = "identity"
        /\ \E answer \in FetchedIdentity(a) :
              /\ identity' = [identity EXCEPT ![a] = answer]
              /\ UNCHANGED author
              /\ NameAndCount(b, answer)
        /\ UNCHANGED <<blockVars, analysisVars, prefetching>>

\* variant: the cache entry is made when the lookup starts
PrefetchIdentityMarked(a) ==
    /\ a \notin KnownAuthor \cup prefetching /\ identity[a] = "absent"
    /\ prefetching' = prefetching \cup {a}
    /\ identity' = [identity EXCEPT ![a] = "null"]
    /\ UNCHANGED <<blockVars, stage, analysisVars, loopAt, recordVars, ring>>

\* refreshAuthoritiesAndIdentities looks up every authority not cached yet
PrefetchIdentity(a) ==
    /\ a \notin KnownAuthor \cup prefetching /\ identity[a] = "absent"
    /\ prefetching' = prefetching \cup {a}
    /\ UNCHANGED <<blockVars, stage, analysisVars, loopAt, recordVars, identity, ring>>

PrefetchedIdentity(a) ==
    /\ a \in prefetching
    /\ \E answer \in FetchedIdentity(a) : identity' = [identity EXCEPT ![a] = answer]
    /\ prefetching' = prefetching \ {a}
    /\ UNCHANGED <<blockVars, stage, analysisVars, loopAt, recordVars, ring>>

-----------------------------------------------------------------------------
(* Cause analysis *)

\* the inserts of onForkDetected are answered: analyzeForkCause takes the blocks
\* the height has by now and looks up their relay parents
StartAnalysis(b) ==
    /\ stage[b] = "detected"
    /\ snapshot' = [snapshot EXCEPT ![b] = Len(atHeight)]
    /\ Move(b, "lookup")
    /\ UNCHANGED <<blockVars, relayParent, loopAt, recordVars, identity, prefetching, ring>>

Same(S) == Cardinality(S) <= 1

\* variant: differing roots are a relay fork, whatever the numbers
VerdictAnyNumber(sameAuthor, sameParent, sameNumber, sameRoot) ==
    CASE ~sameRoot /\ sameAuthor  -> "relay_fork_same_author"
      [] ~sameRoot /\ ~sameAuthor -> "relay_fork"
      [] sameAuthor /\ ~sameNumber -> "double_production_timing"
      [] sameAuthor /\ sameNumber /\ sameRoot /\ ~sameParent -> "double_production_reorg"
      [] sameAuthor /\ sameNumber /\ sameRoot /\ sameParent  -> "double_production"
      [] OTHER -> "collator_contention"

\* the table of analyzeForkCause
Verdict(sameAuthor, sameParent, sameNumber, sameRoot) ==
    CASE sameNumber /\ ~sameRoot /\ sameAuthor  -> "relay_fork_same_author"
      [] sameNumber /\ ~sameRoot /\ ~sameAuthor -> "relay_fork"
      [] sameAuthor /\ ~sameNumber              -> "double_production_timing"
      [] sameAuthor /\ sameNumber /\ sameRoot /\ ~sameParent -> "double_production_reorg"
      [] sameAuthor /\ sameNumber /\ sameRoot /\ sameParent  -> "double_production"
      [] OTHER -> "collator_contention"

\* The verdict on the first k blocks, given what the lookups found and the
\* authors known at this moment.  Numbers and roots that were not found are left
\* out of the comparison.
CauseOf(k, found) ==
    LET with(what) == {atHeight[i] : i \in {j \in 1..k : found[j] \in what}}
    IN  Verdict(Same({ShownAuthor(atHeight[i], author, authorName) : i \in 1..k}),
                Same({ParaParent[atHeight[i]] : i \in 1..k}),
                Same({RelayNumber[x] : x \in with({"full", "number"})}),
                Same({RelayRoot[x] : x \in with({"full", "root"})}))

\* With fewer than two relay parents the analysis gives up.  Otherwise the
\* newest entry of the height gets cause and authors, and the rows follow.
Conclude(b, found) ==
    LET k == snapshot[b]
    IN  /\ snapshot' = [snapshot EXCEPT ![b] = 0]
        /\ relayParent' = [relayParent EXCEPT ![b] = <<>>]
        /\ IF Cardinality({i \in 1..k : found[i] # "none"}) < 2
           THEN StartEnrichment(b)
           ELSE /\ ring' = ReplaceNewest([authors |-> ShownAuthors(k, author, authorName),
                                         cause |-> CauseOf(k, found)])
                /\ Move(b, "saving")
                /\ UNCHANGED <<author, authorName, loopAt>>

\* What getRelayParent can find for the blocks of an analysis.  Only its fallback
\* to the inherent finds a root without a number, and only in blocks that show none.
Answers(b) ==
    {found \in [1..snapshot[b] -> Lookup] :
        \A i \in 1..snapshot[b] : found[i] = "root" => atHeight[i] \in RootOnly}

\* the lookups are answered and all of them found something
RelayParentsFound(b) ==
    /\ stage[b] = "lookup"
    /\ \E found \in Answers(b) :
          /\ \A i \in 1..snapshot[b] : found[i] # "none"
          /\ Conclude(b, found)
    /\ UNCHANGED <<blockVars, counted, identity, prefetching>>

\* some found nothing: they are repeated after two seconds
RelayParentsMissing(b) ==
    /\ stage[b] = "lookup"
    /\ \E found \in Answers(b) :
          /\ \E i \in 1..snapshot[b] : found[i] = "none"
          /\ relayParent' = [relayParent EXCEPT ![b] = found]
    /\ Move(b, "retry")
    /\ UNCHANGED <<blockVars, snapshot, loopAt, recordVars, identity, prefetching, ring>>

\* the repeated lookups are answered, whatever they found
RelayParentsRetried(b) ==
    /\ stage[b] = "retry"
    /\ \E found \in Answers(b) :
          /\ \A i \in 1..snapshot[b] : relayParent[b][i] # "none" => found[i] = relayParent[b][i]
          /\ Conclude(b, found)
    /\ UNCHANGED <<blockVars, counted, identity, prefetching>>

\* the UPDATEs of the analysis are answered
CauseSaved(b) ==
    /\ stage[b] = "saving"
    /\ StartEnrichment(b)
    /\ UNCHANGED <<blockVars, analysisVars, counted, identity, prefetching>>

-----------------------------------------------------------------------------

Callback(b) ==
    \/ CompetingBlockInserted(b) \/ StartAnalysis(b)
    \/ RelayParentsFound(b) \/ RelayParentsMissing(b) \/ RelayParentsRetried(b) \/ CauseSaved(b)
    \/ AuthorFoundNamed(b) \/ AuthorFound(b) \/ AuthorUnknown(b) \/ IdentityFetched(b)

Next ==
    \/ \E b \in Block : HeadAlone(b) \/ HeadForkDetected(b) \/ HeadForkUpdated(b) \/ Callback(b)
    \/ Finalized \/ Pruned
    \/ \E a \in Account : PrefetchIdentity(a) \/ PrefetchedIdentity(a)

Spec == Init /\ [][Next]_vars

-----------------------------------------------------------------------------
(* Properties *)

\* every callback of the height is over
Settled == \A b \in Block : stage[b] \in {"none", "done"}

\* Two writers set the authors of an entry, the analysis from what was known
\* when its lookups ended and each callback after its own enrichment; whatever
\* the order, the newest entry ends up with the authors of all blocks of the
\* height, as well as they are known (causation.js:130, manager.js:98).
AuthorsSettle ==
    Settled /\ ~pruned /\ ring # <<>> =>
        ring[Len(ring)].authors = ShownAuthors(Len(atHeight), author, authorName)

\* As long as no identity lookup fails, no race between the callbacks and the
\* prefetch leaves a block with the bare address of an account that has a name
\* (manager.js:80-82, author-extractor.js:49).
NamesShown ==
    ~LookupFails /\ Settled =>
        \A b \in author : Author[b] \in HasName \cup KnownAuthor => b \in authorName

\* A relay fork is only reported when the height has two blocks of different
\* relay roots that were built on one relay number or of which at least one shows
\* no number in its inherent: a number that is not found counts as the same
\* (causation.js:70-82).  This holds of every entry, whichever lookups found
\* nothing, a number only or a root only, and of which blocks the cause was
\* concluded before the others came.
RelayForkIsReal ==
    \A i \in DOMAIN ring : ring[i].cause \in {"relay_fork", "relay_fork_same_author"} =>
        \E j, k \in DOMAIN atHeight :
            /\ RelayRoot[atHeight[j]] # RelayRoot[atHeight[k]]
            /\ \/ RelayNumber[atHeight[j]] = RelayNumber[atHeight[k]]
               \/ {atHeight[j], atHeight[k]} \cap RootOnly # {}

\* Every block whose author became known is counted for it, and by each
\* callback of a competing block at most once (manager.js:84).
AuthorsCounted ==
    \A b \in Block :
        /\ Settled /\ b \in author => counted[b] > 0
        /\ counted[b] > 0 => counted[b] < Len(atHeight)

\* "double_production: same collator produced twice" (causation.js:13): the
\* verdict is given only when two blocks of the height have one author.
DoubleProductionIsReal ==
    \A i \in DOMAIN ring :
        ring[i].cause \in {"double_production", "double_production_reorg", "double_production_timing"} =>
            \E j, k \in DOMAIN atHeight : j # k /\ Author[atHeight[j]] = Author[atHeight[k]]

=============================================================================
